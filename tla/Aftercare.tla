------------------------------- MODULE Aftercare -------------------------------
(***************************************************************************)
(* What is asked about a repair while it waits for the rider and afterwards: *)
(* disputes and their outcome (disputeService), claims under warranty and    *)
(* their rework (warrantyService, tickets/warranty), and the invoice of a paid *)
(* bill (invoiceService, billService).                                     *)
(*                                                                         *)
(* Here the calls overlap.  A call first Looks: it reads, decides, and knows its *)
(* writes; then it makes them one at a time, with the handlers of module Shop and *)
(* at most one other call in between.  It may die before any write, or go on   *)
(* after a failed write whose failure it swallows.  Documents a call creates are  *)
(* named by its number.  The handlers of Shop stay single steps (named bound).  *)
(***************************************************************************)
EXTENDS Shop

CONSTANTS Care,      \* for each of the Scopes, what is asked in it and how many calls there are
          Adjusted   \* the amounts an admin may set for a dispute settled half-way

Topics == {"dispute", "warranty", "invoice"}

ASSUME CareAssumption ==
  Care \in [Scopes -> [topics : SUBSET Topics, calls : Nat]] /\ Adjusted \subseteq Nat \ {0}

VARIABLES req,       \* for each call so far, the writes it has left
          dispute,   \* the disputes, by the number of the call that filed each
          claim,     \* the claims on the one service line that has a warranty
          rework,    \* the tickets booked for the claims accepted
          numbers,   \* the calls that drew an invoice number, in the order of the numbers
          invoice,   \* the number on the ticket's invoice, or None
          overlap    \* history: some call looked while another was under way

care == <<req, dispute, claim, rework, numbers, invoice, overlap>>
all == <<vars, care>>

CareInit ==
  /\ Init
  /\ req = <<>> /\ dispute = <<>> /\ claim = <<>> /\ rework = <<>>
  /\ numbers = <<>> /\ invoice = None /\ overlap = FALSE

-----------------------------------------------------------------------------
(* Calls.                                                                  *)

Doc(kind, i, fields) == [to |-> kind, i |-> i, fields |-> fields, soft |-> FALSE]
Soft(w) == [w EXCEPT !.soft = TRUE]

\* A write of a call: a field-wise update of its document, or one of Shop's writes.
CareApply(s, w) ==
  CASE w.to \in {"dispute", "claim", "rework"} ->
         LET docs == s[w.to]
             doc == IF w.i \in DOMAIN docs THEN With(w.fields, docs[w.i]) ELSE w.fields
         IN [s EXCEPT ![w.to] = [i \in DOMAIN docs \cup {w.i} |-> IF i = w.i THEN doc ELSE docs[i]]]
    [] w.to = "number"  -> [s EXCEPT !.numbers = Append(s.numbers, w.i)]
    [] w.to = "invoice" -> [s EXCEPT !.invoice = CHOOSE n \in DOMAIN s.numbers : s.numbers[n] = w.i]
    [] OTHER -> Apply(s, w)

Documents == [ticket |-> ticket, charge |-> charge, tow |-> tow, dispute |-> dispute, claim |-> claim,
              rework |-> rework, numbers |-> numbers, invoice |-> invoice]
documents == <<ticket, charge, tow, dispute, claim, rework, numbers, invoice>>

Reaches(w) ==
  LET s == CareApply(Documents, w)
  IN /\ ticket' = s.ticket /\ charge' = s.charge /\ tow' = s.tow
     /\ dispute' = s.dispute /\ claim' = s.claim /\ rework' = s.rework
     /\ numbers' = s.numbers /\ invoice' = s.invoice

InFlight == {r \in DOMAIN req : req[r] # <<>>}
Quiet == InFlight = {}
Call == Len(req) + 1

Look(topic, writes) ==
  /\ topic \in Care[scope].topics /\ Call <= Care[scope].calls /\ Cardinality(InFlight) < 2
  /\ req' = Append(req, writes) /\ overlap' = (overlap \/ ~Quiet)
  /\ UNCHANGED <<vars, dispute, claim, rework, numbers, invoice>>

-----------------------------------------------------------------------------
(* Disputes.                                                               *)

NewDispute == [status |-> "OPEN", outcome |-> None]
OpenDisputes == {d \in DOMAIN dispute : dispute[d].status = "OPEN"}
Live == IF ticket.openDispute # None THEN ticket.openDispute ELSE ticket.dispute

\* Mutant of File: the charges of a held repair stay open.
FileWithoutVoid ==
  /\ OpenDisputes = {} /\ Open({"READY", "RESOLVED"})
  /\ \E serious \in BOOLEAN :
       Look("dispute", <<Doc("dispute", Call, NewDispute),
                         Set([dispute |-> Call, hold |-> serious /\ ticket.status = "READY", openDispute |-> Call])>>)

\* userFile, once the work is over (named bound).  The rider's complaint about the
\* service holds a repair that is ready.
File ==
  /\ OpenDisputes = {} /\ Open({"READY", "RESOLVED"})
  /\ \E serious \in BOOLEAN :
       LET hold == serious /\ ticket.status = "READY"
       IN Look("dispute",
               <<Doc("dispute", Call, NewDispute),
                 Set([dispute |-> Call, hold |-> hold, openDispute |-> Call])>>
               \o IF hold THEN <<Void>> ELSE <<>>)

\* An admin decides: the dispute first, then what is read of the ticket.  A call
\* that files is let end before its dispute is decided (named bound).
Decide(d, outcome, kept) ==
  /\ d \notin InFlight
  /\ Look("dispute", <<Doc("dispute", d, [status |-> "RESOLVED", outcome |-> outcome]),
                       [to |-> "outcome", d |-> d, outcome |-> outcome, kept |-> kept, soft |-> FALSE]>>)
Dismiss(d) ==
  /\ d \notin InFlight
  /\ Look("dispute", <<Doc("dispute", d, [status |-> "DISMISSED"]),
                       [to |-> "outcome", d |-> d, outcome |-> "SHOP", kept |-> None, soft |-> FALSE]>>)

NoHold == [hold |-> FALSE, openDispute |-> None]
Lowered(quote) == [hold |-> FALSE, openDispute |-> None, quote |-> quote]
Keep(kept) == [to |-> "due", kept |-> kept, soft |-> FALSE]

\* Mutant of OutcomeWrites: the shop wins and the ticket stays on hold.
OutcomeForgetsHold(w) ==
  IF w.d \notin {ticket.openDispute, ticket.dispute} THEN <<>>
  ELSE CASE w.outcome = "SHOP" -> <<Set([openDispute |-> None])>>
         [] w.outcome = "RIDER" -> <<Set(Lowered(0)), Void, Keep(0)>>
         [] w.outcome = "PARTIAL" /\ w.kept # None -> <<Set(Lowered(w.kept)), Void, Keep(w.kept)>>
         [] OTHER -> <<>>

\* applyDisputeOutcome: nothing for a dispute the ticket no longer names, nothing
\* (an error, the dispute decided) for a half-way settlement without an amount.
OutcomeWrites(w) ==
  IF w.d \notin {ticket.openDispute, ticket.dispute} THEN <<>>
  ELSE CASE w.outcome = "SHOP" -> <<Set(NoHold)>>
         [] w.outcome = "RIDER" -> <<Set(Lowered(0)), Void, Keep(0)>>
         [] w.outcome = "PARTIAL" /\ w.kept # None -> <<Set(Lowered(w.kept)), Void, Keep(w.kept)>>
         [] OTHER -> <<>>

\* refundTicketPayments: all of each charge received, or what exceeds the amount kept.
RefundWrites(w) ==
  Asks({c \in Having(charge, IsReceived) : w.kept = 0 \/ charge[c].amount > w.kept})

-----------------------------------------------------------------------------
(* Warranty.                                                               *)

NewClaim == [status |-> "OPEN", rework |-> None, refunded |-> FALSE]

FileClaim ==
  /\ ticket.status = "RESOLVED" /\ ~ticket.rework /\ DOMAIN claim = {}
  /\ Look("warranty", <<Doc("claim", Call, NewClaim)>>)

\* The shop's answer: a rework is created, marked, and only then the claim rebooked.
Respond(k) ==
  /\ claim[k].status = "OPEN"
  /\ \/ Look("warranty", <<Doc("claim", k, [status |-> "DECLINED"])>>)
     \/ Look("warranty", <<Doc("rework", Call, [status |-> "OPEN", claim |-> k, marked |-> FALSE]),
                           Doc("rework", Call, [marked |-> TRUE]),
                           Doc("claim", k, [status |-> "REBOOKED", rework |-> Call])>>)

DisputeClaim(k) ==
  claim[k].status = "DECLINED" /\ Look("warranty", <<Doc("claim", k, [status |-> "DISPUTED"])>>)

\* The rework runs its course as a walk-in of its own: here it is closed or called off.
CloseRework(w) ==
  /\ rework[w].status = "OPEN"
  /\ \/ Look("warranty", <<Doc("rework", w, [status |-> "CANCELLED"])>>)
     \/ Look("warranty", <<Doc("rework", w, [status |-> "RESOLVED"]),
                           [to |-> "complete", i |-> w, soft |-> TRUE]>>)

\* completeWarrantyForTicket.
CompleteWrites(w) ==
  LET linked == {k \in DOMAIN claim : claim[k].rework = w.i /\ claim[k].status = "REBOOKED"}
  IN IF linked = {} THEN <<>> ELSE <<Soft(Doc("claim", Newest(linked), [status |-> "COMPLETED"]))>>

ReworkSettled(k) == claim[k].rework # None => rework[claim[k].rework].status # "OPEN"

\* Mutant of Resolvable: a claim is settled whatever its rework is doing.
ResolvableAnytime(k) == claim[k].status \in {"DECLINED", "DISPUTED", "OPEN", "REBOOKED"}

Resolvable(k) == \/ claim[k].status \in {"DECLINED", "DISPUTED", "OPEN"}
                 \/ claim[k].status = "REBOOKED" /\ ReworkSettled(k)

\* The admin's word on a claim, with or without money back.
ResolveClaim(k) ==
  /\ Resolvable(k)
  /\ \/ Look("warranty", <<Doc("claim", k, [status |-> "RESOLVED"])>>)
     \/ LET received == Having(charge, IsReceived)
        IN /\ received # {}
           /\ Look("warranty", <<[Ask(Newest(received)) EXCEPT !.soft = FALSE],
                                 Doc("claim", k, [status |-> "RESOLVED", refunded |-> TRUE])>>)

Reopened(k) == [claim EXCEPT ![k].status = "OPEN", ![k].rework = None]

\* Mutant of SweepWarrantyRebooks: only what was done is swept, not what was called off.
SweepDoneOnly ==
  /\ \E k \in DOMAIN claim :
       /\ claim[k].status = "REBOOKED"
       /\ rework[claim[k].rework].status = "RESOLVED" /\ claim' = [claim EXCEPT ![k].status = "COMPLETED"]
  /\ UNCHANGED <<vars, req, dispute, rework, numbers, invoice, overlap>>

\* The sweep completes what the close of the rework left, and opens the claim again
\* when the rework was called off.
SweepWarrantyRebooks ==
  /\ \E k \in DOMAIN claim :
       /\ claim[k].status = "REBOOKED"
       /\ \/ rework[claim[k].rework].status = "RESOLVED" /\ claim' = [claim EXCEPT ![k].status = "COMPLETED"]
          \/ rework[claim[k].rework].status = "CANCELLED" /\ claim' = Reopened(k)
  /\ UNCHANGED <<vars, req, dispute, rework, numbers, invoice, overlap>>

-----------------------------------------------------------------------------
(* The invoice.                                                            *)

\* The bill is paid, in full.
BillIsPaid == Bill.total > 0 /\ Bill.status = "PAID"

\* Mutant of GenerateInvoice: an invoice that is there is not looked for.
GenerateAnother ==
  BillIsPaid /\ Look("invoice", <<[to |-> "number", i |-> Call, soft |-> FALSE],
                                  [to |-> "invoice", i |-> Call, soft |-> FALSE]>>)

\* A number is drawn, in a transaction, and put on the invoice, whatever is there by now.
GenerateInvoice ==
  /\ BillIsPaid /\ invoice = None
  /\ Look("invoice", <<[to |-> "number", i |-> Call, soft |-> FALSE],
                       [to |-> "invoice", i |-> Call, soft |-> FALSE]>>)

-----------------------------------------------------------------------------
(* The steps of a call.                                                    *)

\* What the next step of call r writes, and then: a read is done when it is due.
Plan(r) ==
  LET w == Head(req[r]) rest == Tail(req[r])
  IN CASE w.to = "outcome"  -> OutcomeWrites(w) \o rest
       [] w.to = "due"      -> RefundWrites(w) \o rest
       [] w.to = "complete" -> CompleteWrites(w) \o rest
       [] OTHER -> req[r]

\* A half-way settlement without an amount is refused when its dispute is decided: the
\* call dies there, and counts among the faults.
IsRefused(w) ==
  /\ w.to = "outcome" /\ w.outcome = "PARTIAL" /\ w.kept = None
  /\ w.d \in {ticket.openDispute, ticket.dispute}

Write(r) ==
  LET plan == Plan(r)
  IN /\ IF plan = <<>> THEN UNCHANGED documents /\ req' = [req EXCEPT ![r] = <<>>]
        ELSE Reaches(Head(plan)) /\ req' = [req EXCEPT ![r] = Tail(plan)]
     /\ faults' = IF IsRefused(Head(req[r])) THEN faults + 1 ELSE faults
     /\ UNCHANGED <<scope, late, overlap>>

Fault(r, left) ==
  /\ faults < scope.faults /\ faults' = faults + 1 /\ req' = [req EXCEPT ![r] = left]
  /\ UNCHANGED <<ticket, charge, tow, scope, late, dispute, claim, rework, numbers, invoice, overlap>>
Die(r) == Fault(r, <<>>)
Skip(r) == Head(req[r]).soft /\ Fault(r, Tail(req[r]))

ShopStep == (Visit \/ Work \/ Money \/ Return) /\ Within /\ UNCHANGED care
Sweep == SweepExpiredQuotes /\ UNCHANGED care
Night == Day /\ UNCHANGED care

Disputes == \/ File
            \/ \E d \in DOMAIN dispute :
                 \/ Dismiss(d) \/ Decide(d, "SHOP", None) \/ Decide(d, "RIDER", None)
                 \/ \E kept \in Adjusted \cup {None} : Decide(d, "PARTIAL", kept)
Claims == \/ FileClaim \/ SweepWarrantyRebooks
          \/ \E k \in DOMAIN claim : Respond(k) \/ DisputeClaim(k) \/ ResolveClaim(k)
          \/ \E w \in DOMAIN rework : CloseRework(w)
Steps == \E r \in InFlight : Write(r) \/ Die(r) \/ Skip(r)

CareNext == ShopStep \/ Night \/ Disputes \/ Claims \/ GenerateInvoice \/ Steps

CareFairness == WF_all(Night) /\ SF_all(Sweep) /\ WF_all(SweepWarrantyRebooks)

CareSpec == CareInit /\ [][CareNext]_all /\ CareFairness

-----------------------------------------------------------------------------
(* Properties.                                                             *)

\* A ticket on hold names a dispute that is still to be decided, and no charge waits
\* for the rider meanwhile: once every call has ended no hold is left with nobody to
\* lift it, whoever filed at the same time, unless a call died or an outcome was
\* refused for want of an amount (disputeService: file, the hold and the void;
\* resolve, dismiss).
HoldStands ==
  ticket.hold /\ Quiet /\ faults = 0 =>
    /\ ticket.openDispute # None /\ dispute[ticket.openDispute].status = "OPEN"
    /\ \A c \in DOMAIN charge : charge[c].status # "PENDING"

\* The rider who wins a dispute owes nothing for the repair (PAYMENTS.md, the outcome
\* RIDER; disputeService.applyDisputeOutcome).
RiderWonOwesNothing ==
  Quiet /\ ~overlap /\ faults = 0 /\ ticket.dispute # None /\ dispute[ticket.dispute].outcome = "RIDER"
    => OrZero(ShopBill(ticket)) = 0

\* A claim is remedied once, by a rework or by money, through every answer, objection,
\* cancelled rework and decision, when calls neither overlap nor die (warrantyService).
RemedyOnce ==
  Quiet /\ ~overlap /\ faults = 0 =>
    \A k \in DOMAIN claim :
      LET reworks == {w \in DOMAIN rework : rework[w].claim = k /\ rework[w].status # "CANCELLED"}
      IN Cardinality(reworks) + (IF claim[k].refunded THEN 1 ELSE 0) <= 1

\* A claim does not wait on a rework that is over (warrantyService.sweepWarrantyRebooks).
ClaimFollowsRework ==
  []<>(\A k \in DOMAIN claim : claim[k].status = "REBOOKED" => rework[claim[k].rework].status = "OPEN")

\* Neither a quote nor a claim waits for ever, but for a quote whose handler died: an
\* expiry that dies once it has cleared the quote's day leaves QUOTED to nobody (the
\* sweeps of quote and warrantyService).
NothingWaits == QuoteEnds /\ ClaimFollowsRework

\* The number on an invoice is never replaced, unless two calls looked at once
\* (invoiceService.generateInvoice).
InvoiceStandsStep == invoice # None => invoice' = invoice \/ overlap'

\* What a rider asks for afterwards is given once: one remedy, one invoice.
GivenOnce == [][RemedyOnce' /\ InvoiceStandsStep]_all
=============================================================================
