--------------------------------- MODULE Sos ---------------------------------
(***************************************************************************)
(* A roadside repair that fails and what follows it: the visits of mobile   *)
(* shops, the close as unfixable, the tow the shop may offer, its answer and *)
(* expiry, the grace period, and the continuation to another shop            *)
(* (service/dispatch/sos, shop/mobile, shop/unfixable, summary; the check    *)
(* for an open ticket in tickets/create).  One rider with one vehicle.       *)
(*                                                                         *)
(* A handler in flight is req[r].  The handlers of a visit are one step each *)
(* (named bound: module Dispatch has their overlaps); those that follow the  *)
(* close are cut at every write.  Two kinds of behaviour (named bound), by   *)
(* the initial value of calm: all of a visit with handlers one at a time, or *)
(* visits without a quote whose aftermath overlaps freely and may die.       *)
(***************************************************************************)
EXTENDS Bills, FiniteSets

CONSTANTS Callers, Sweeper,  \* requests of users and tasks; the scheduler's own
          Shops, Fee,        \* mobile shops; what a visit of each costs
          Fix,               \* the repairs a shop may quote
          Operators,         \* who may ask for a continuation: "rider", "shop"
          SweepLimit,        \* unfixable tickets a sweep looks at
          MaxTickets, MaxOffers, MaxFaults  \* bounds

Requests == Callers \cup {Sweeper}
Ids == 1..MaxTickets
AutoLimit == 1   \* SOS_AUTO_CONTINUATION_LIMIT

\* The handlers, and where they may stand between two calls.
Ops == {"unfixable", "offer", "respond", "expire", "grace", "ask", "file"}
Points == {"availability", "offer", "decline", "expire", "continue", "claim", "check",
           "create", "unclaim", "assign", "accepted", "clear"}

ASSUME SosAssumption ==
  /\ Fee \in [Shops -> [callOut : Nat, travel : Nat]] /\ Fix \subseteq Nat
  /\ Operators \subseteq {"rider", "shop"} /\ Sweeper \notin Callers
  /\ MaxTickets \in Nat \ {0}
  /\ None \notin Nat \cup Shops \cup Ops \cup Points \cup {"SOS", "TOW", "running"}

VARIABLES ticket,   \* the rider's tickets, by the order of their ids
          req,      \* the handlers in flight
          offers,   \* tow offers made, for the bound and as their time stamps
          faults,   \* handlers that died or failed half way
          calm,     \* visits in full, or handlers that overlap and die
          visits,   \* history: the shops that took each ticket, and its ancestors
          overlap   \* history: two filings looked before either had filed

vars == <<ticket, req, offers, faults, calm, visits, overlap>>
history == <<calm, visits, overlap>>

Unused == [kind |-> None, status |-> None, shop |-> None, callOut |-> None, travel |-> None,
           fix |-> None, owed |-> <<>>, excluded |-> {}, cancelledBy |-> None, attempt |-> 0,
           parent |-> None, next |-> None, offer |-> None, grace |-> None]
Idle == [op |-> None, pc |-> None, sos |-> None, kind |-> None, child |-> None,
         auto |-> FALSE, by |-> None, offer |-> None, stale |-> FALSE]

Terminal == {"RESOLVED", "CANCELLED", "UNFIXABLE"}
Exists(t) == ticket[t].kind # None
Open(t) == Exists(t) /\ ticket[t].status \notin Terminal
Unfixable(t) == ticket[t].kind = "SOS" /\ ticket[t].status = "UNFIXABLE"

New(kind, from) == [Unused EXCEPT !.kind = kind, !.status = "PENDING", !.parent = from, !.attempt = 1]

Init ==
  /\ ticket = [t \in Ids |-> IF t = 1 THEN New("SOS", None) ELSE Unused]
  /\ req = [r \in Requests |-> Idle] /\ offers = 0 /\ faults = 0
  /\ visits = [t \in Ids |-> [prior |-> {}, own |-> <<>>]] /\ overlap = FALSE
  /\ calm \in BOOLEAN

\* Ids nobody has, and nobody has reserved for a continuation.
Free == {t \in Ids : /\ ~Exists(t)
                     /\ \A p \in Ids : ticket[p].next # t
                     /\ \A r \in Requests : req[r].child # t}
NewId == CHOOSE t \in Free : TRUE

Goto(r, pc) == req' = [req EXCEPT ![r].pc = pc]
Done(r) == req' = [req EXCEPT ![r] = Idle]
Start(r, q) == /\ req[r] = Idle /\ (calm => \A u \in Requests : req[u] = Idle)
               /\ req' = [req EXCEPT ![r] = q]
At(r, pc) == req[r].pc = pc

-----------------------------------------------------------------------------
(* A visit.                                                                *)

Accept(t, s) ==
  /\ Exists(t) /\ ticket[t].kind = "SOS" /\ ticket[t].status = "PENDING"
  /\ s \notin ticket[t].excluded
  /\ calm \/ (ticket[t].attempt = 1 /\ s = CHOOSE u \in Shops : TRUE)
  /\ ticket' = [ticket EXCEPT ![t].status = "MATCHED", ![t].shop = s, ![t].cancelledBy = None,
                              ![t].callOut = Fee[s].callOut, ![t].travel = Fee[s].travel]
  /\ visits' = [visits EXCEPT ![t].own = Append(visits[t].own, s)]
  /\ UNCHANGED <<req, offers, faults, calm, overlap>>

Move(t, from, to) ==
  /\ ticket[t].kind = "SOS" /\ ticket[t].status = from
  /\ ticket' = [ticket EXCEPT ![t].status = to]
  /\ UNCHANGED <<req, offers, faults, history>>

Arrive(t) == Move(t, "MATCHED", "ARRIVED")
ApproveMobileFix(t) == Move(t, "QUOTED", "READY")

\* The rider closes a visit, once its shop has set the fee.
Resolve(t) == Move(t, "READY", "RESOLVED")

SetMobileShopFix(t) ==
  /\ calm /\ ticket[t].kind = "SOS" /\ ticket[t].status = "ARRIVED" /\ Assigned(ticket[t])
  /\ \E fix \in Fix : ticket' = [ticket EXCEPT ![t].status = "QUOTED", ![t].fix = fix]
  /\ UNCHANGED <<req, offers, faults, history>>

\* Mutant of DeclineMobileFix: the shop declined may take the ticket again.
DeclineMobileFixAgain(t) ==
  /\ ticket[t].kind = "SOS" /\ ticket[t].status = "QUOTED" /\ Assigned(ticket[t])
  /\ ticket' = [ticket EXCEPT ![t].status = "PENDING", ![t].shop = None, ![t].fix = None,
                   ![t].callOut = None, ![t].travel = None,
                   ![t].owed = Append(ticket[t].owed, ticket[t].callOut + ticket[t].travel)]
  /\ UNCHANGED <<req, offers, faults, history>>

\* Mutant of DeclineMobileFix: a second declined visit replaces the first.
DeclineMobileFixLast(t) ==
  /\ ticket[t].kind = "SOS" /\ ticket[t].status = "QUOTED" /\ Assigned(ticket[t])
  /\ ticket' = [ticket EXCEPT ![t].status = "PENDING", ![t].shop = None, ![t].fix = None,
                   ![t].callOut = None, ![t].travel = None,
                   ![t].owed = <<ticket[t].callOut + ticket[t].travel>>,
                   ![t].excluded = ticket[t].excluded \cup {ticket[t].shop}]
  /\ UNCHANGED <<req, offers, faults, history>>

DeclineMobileFix(t) ==
  /\ ticket[t].kind = "SOS" /\ ticket[t].status = "QUOTED" /\ Assigned(ticket[t])
  /\ ticket' = [ticket EXCEPT ![t].status = "PENDING", ![t].shop = None, ![t].fix = None,
                   ![t].callOut = None, ![t].travel = None,
                   ![t].owed = Append(ticket[t].owed, ticket[t].callOut + ticket[t].travel),
                   ![t].excluded = ticket[t].excluded \cup {ticket[t].shop}]
  /\ UNCHANGED <<req, offers, faults, history>>

\* The rider until the fix is approved; the shop before it arrives.
Cancel(t, by) ==
  /\ ticket[t].kind = "SOS" /\ (calm \/ by = "rider")
  /\ ticket[t].status \in (IF ~calm THEN {"PENDING"} ELSE IF by = "shop" THEN {"MATCHED"}
                             ELSE {"PENDING", "MATCHED", "ARRIVED", "QUOTED"})
  /\ ticket' = [ticket EXCEPT ![t].status = "CANCELLED", ![t].cancelledBy = by]
  /\ UNCHANGED <<req, offers, faults, history>>

\* A tow ends, one way or another: module Dispatch has its life.
EndTow(t) ==
  /\ ticket[t].kind = "TOW" /\ Open(t)
  /\ ticket' = [ticket EXCEPT ![t].status = "CANCELLED"]
  /\ UNCHANGED <<req, offers, faults, history>>

-----------------------------------------------------------------------------
(* The close as unfixable, and the shop's tow.                             *)

MarkUnfixable(r, t) ==
  /\ ticket[t].kind = "SOS" /\ ticket[t].status = "ARRIVED"
  /\ Start(r, [Idle EXCEPT !.op = "unfixable", !.pc = "availability", !.sos = t])
  /\ ticket' = [ticket EXCEPT ![t].status = "UNFIXABLE"]
  /\ UNCHANGED <<offers, faults, history>>

\* mobileTowAvailabilityFor: a tow there is starts the grace period, none
\* continues at once.
Availability(r) ==
  /\ At(r, "availability")
  /\ \/ /\ ticket' = [ticket EXCEPT ![req[r].sos].grace = "running"] /\ Done(r)
     \/ /\ req' = [req EXCEPT ![r].pc = "continue", ![r].auto = TRUE, ![r].by = "rider"]
        /\ UNCHANGED ticket
  /\ UNCHANGED <<offers, faults, history>>

OfferRead(r, t) ==
  /\ ~calm /\ Unfixable(t) /\ ticket[t].next = None /\ Assigned(ticket[t]) /\ offers < MaxOffers
  /\ \E mode \in {"DIRECT", "NETWORK"} :
       Start(r, [Idle EXCEPT !.op = "offer", !.pc = "offer", !.sos = t,
                 !.offer = [at |-> offers + 1, status |-> "PENDING", mode |-> mode, late |-> FALSE]])
  /\ offers' = offers + 1
  /\ UNCHANGED <<ticket, faults, history>>

OfferWrite(r) ==
  /\ At(r, "offer")
  /\ ticket' = [ticket EXCEPT ![req[r].sos].offer = req[r].offer]
  /\ Done(r) /\ UNCHANGED <<offers, faults, history>>

HasOffer(t, statuses) == ticket[t].offer # None /\ ticket[t].offer.status \in statuses
HasActiveTowOffer(t) == HasOffer(t, {"PENDING", "ACCEPTED"})

OfferLapses(t) ==
  /\ HasOffer(t, {"PENDING"}) /\ ~ticket[t].offer.late
  /\ ticket' = [ticket EXCEPT ![t].offer.late = TRUE]
  /\ UNCHANGED <<req, offers, faults, history>>

GraceEnds(t) ==
  /\ ticket[t].grace = "running"
  /\ ticket' = [ticket EXCEPT ![t].grace = "over"]
  /\ UNCHANGED <<req, offers, faults, history>>

RespondRead(r, t) ==
  /\ HasOffer(t, {"PENDING"})
  /\ \/ Start(r, [Idle EXCEPT !.op = "respond", !.pc = "check", !.sos = t, !.kind = "TOW",
                             !.by = "rider", !.offer = ticket[t].offer])
     \/ Start(r, [Idle EXCEPT !.op = "respond", !.pc = "decline", !.sos = t, !.offer = ticket[t].offer])
  /\ UNCHANGED <<ticket, offers, faults, history>>

Answered(r, status) == [req[r].offer EXCEPT !.status = status, !.late = FALSE]

DeclineWrite(r) ==
  /\ At(r, "decline")
  /\ ticket' = [ticket EXCEPT ![req[r].sos].offer = Answered(r, "DECLINED")]
  /\ req' = [req EXCEPT ![r].pc = "continue", ![r].auto = TRUE, ![r].by = "rider"]
  /\ UNCHANGED <<offers, faults, history>>

\* A direct tow is accepted for the shop's truck at once, or cancelled again.
Assign(r) ==
  /\ At(r, "assign")
  /\ \/ Open(req[r].child) /\ Goto(r, "accepted") /\ UNCHANGED ticket
     \/ /\ ticket' = [ticket EXCEPT ![req[r].child].status = "CANCELLED"] /\ Done(r)
  /\ UNCHANGED <<offers, faults, history>>

AcceptedWrite(r) ==
  /\ At(r, "accepted")
  /\ ticket' = [ticket EXCEPT ![req[r].sos].offer = Answered(r, "ACCEPTED")]
  /\ Done(r) /\ UNCHANGED <<offers, faults, history>>

\* sweepMobileTowOffers, or the task of the offer.
Seen(r, t) == r # Sweeper \/ Cardinality({u \in Ids : Unfixable(u) /\ u < t}) < SweepLimit

ExpireRead(r, t) ==
  /\ Seen(r, t) /\ Unfixable(t) /\ HasOffer(t, {"PENDING"}) /\ ticket[t].offer.late
  /\ Start(r, [Idle EXCEPT !.op = "expire", !.pc = "expire", !.sos = t, !.offer = ticket[t].offer])
  /\ UNCHANGED <<ticket, offers, faults, history>>

ExpireWrite(r) ==
  LET t == req[r].sos IN
  /\ At(r, "expire")
  /\ ticket' = [ticket EXCEPT ![t].offer = Answered(r, "EXPIRED")]
  /\ IF ticket[t].attempt > AutoLimit THEN Done(r)
     ELSE req' = [req EXCEPT ![r].pc = "continue", ![r].auto = TRUE, ![r].by = "rider"]
  /\ UNCHANGED <<offers, faults, history>>

-----------------------------------------------------------------------------
(* The continuation.                                                       *)

\* Mutant of ContinueUnfixRead: any offer, answered or not, stops the grace.
ContinueUnfixReadAnyOffer(r, t) ==
  /\ Seen(r, t) /\ Unfixable(t) /\ ticket[t].grace = "over"
  /\ ticket[t].next = None /\ ticket[t].offer = None
  /\ Start(r, [Idle EXCEPT !.op = "grace", !.pc = "continue", !.sos = t, !.auto = TRUE, !.by = "rider"])
  /\ UNCHANGED <<ticket, offers, faults, history>>

\* sweepUnfixGrace, or the task of the close.
ContinueUnfixRead(r, t) ==
  /\ Seen(r, t) /\ Unfixable(t) /\ ticket[t].grace = "over"
  /\ ticket[t].next = None /\ ~HasActiveTowOffer(t)
  /\ Start(r, [Idle EXCEPT !.op = "grace", !.pc = "continue", !.sos = t, !.auto = TRUE, !.by = "rider"])
  /\ UNCHANGED <<ticket, offers, faults, history>>

\* The rider's or the shop's own call.
AskToContinue(r, t) ==
  /\ Unfixable(t)
  /\ \E by \in IF calm THEN Operators ELSE {"rider"} :
       Start(r, [Idle EXCEPT !.op = "ask", !.pc = "continue", !.sos = t, !.by = by])
  /\ UNCHANGED <<ticket, offers, faults, history>>

\* The grace period ends with an answer: continued, or the rider is asked.
Answer(r) == IF req[r].op = "grace" THEN Goto(r, "clear") ELSE Done(r)

ContinueRead(r) ==
  LET t == req[r].sos IN
  /\ At(r, "continue")
  /\ IF ~Unfixable(t) \/ HasActiveTowOffer(t) THEN Done(r)
     ELSE IF ticket[t].next # None \/ (req[r].auto /\ ticket[t].attempt > AutoLimit) THEN Answer(r)
     ELSE Goto(r, "claim")
  /\ UNCHANGED <<ticket, offers, faults, history>>

\* Mutant of Claim: the id is written without looking at the one there is.
ClaimBlind(r) ==
  LET t == req[r].sos IN
  /\ At(r, "claim") /\ Free # {}
  /\ ticket' = [ticket EXCEPT ![t].next = NewId]
  /\ req' = [req EXCEPT ![r].pc = "check", ![r].kind = "SOS", ![r].child = NewId]
  /\ UNCHANGED <<offers, faults, history>>

\* The transaction on the parent.
Claim(r) ==
  LET t == req[r].sos IN
  /\ At(r, "claim")
  /\ \/ ticket[t].next # None /\ Answer(r) /\ UNCHANGED ticket
     \/ /\ ticket[t].next = None /\ Free # {}
        /\ ticket' = [ticket EXCEPT ![t].next = NewId]
        /\ req' = [req EXCEPT ![r].pc = "check", ![r].kind = "SOS", ![r].child = NewId]
     \/ ticket[t].next = None /\ Free = {} /\ Done(r) /\ UNCHANGED ticket
  /\ UNCHANGED <<offers, faults, history>>

Unclaim(r) ==
  /\ At(r, "unclaim")
  /\ ticket' = [ticket EXCEPT ![req[r].sos].next = None]
  /\ Done(r) /\ UNCHANGED <<offers, faults, history>>

ClearGrace(r) ==
  /\ At(r, "clear")
  /\ ticket' = [ticket EXCEPT ![req[r].sos].grace = None]
  /\ Done(r) /\ UNCHANGED <<offers, faults, history>>

-----------------------------------------------------------------------------
(* createDispatch, for a continuation, an offered tow or the rider's own.  *)

File(r) ==
  /\ ~calm /\ Free # {}
  /\ Start(r, [Idle EXCEPT !.op = "file", !.pc = "check", !.kind = "TOW", !.by = "rider"])
  /\ UNCHANGED <<ticket, offers, faults, history>>

\* Mutant of LiveTicketConflict: a vehicle's tickets of another kind do not count.
LiveTicketConflictSameKind(kind) == \E t \in Ids : Open(t) /\ ticket[t].kind = kind

\* Every ticket of the model is for one vehicle.
LiveTicketConflict(kind) == \E t \in Ids : Open(t)

Continues(r) == req[r].op \in {"unfixable", "respond", "expire", "grace", "ask"} /\ req[r].kind = "SOS"

\* A continuation has its id since the claim; another filing takes one now.
Reserved(r) == IF req[r].child = None THEN NewId ELSE req[r].child

\* Mutant of Check: a continuation refused keeps the claim on its parent.
CheckKeepsClaim(r) ==
  /\ At(r, "check")
  /\ IF req[r].by = "rider" /\ ~LiveTicketConflict(req[r].kind) /\ (req[r].child # None \/ Free # {})
     THEN req' = [req EXCEPT ![r].pc = "create", ![r].stale = FALSE,
                             ![r].child = Reserved(r)]
     ELSE Done(r)
  /\ UNCHANGED <<ticket, offers, faults, history>>

\* The caller's own vehicle, and no open ticket: looked up before the ticket is
\* made.  A filing that the bound leaves no id for is refused.
Check(r) ==
  LET refused == req[r].by # "rider" \/ LiveTicketConflict(req[r].kind)
                 \/ (req[r].child = None /\ Free = {})
  IN /\ At(r, "check")
     /\ IF ~refused THEN req' = [req EXCEPT ![r].pc = "create", ![r].stale = FALSE,
                                           ![r].child = Reserved(r)]
        ELSE IF Continues(r) THEN Goto(r, "unclaim") ELSE Done(r)
     /\ UNCHANGED <<ticket, offers, faults, history>>

\* Mutant of Child: a shop that failed is asked again.
ChildForgets(r) ==
  IF ~Continues(r) THEN New(req[r].kind, req[r].sos)
  ELSE [New("SOS", req[r].sos) EXCEPT !.attempt = ticket[req[r].sos].attempt + 1,
                                      !.excluded = ticket[req[r].sos].excluded]

\* A continuation goes to none of the shops that were there.
Child(r) ==
  LET from == ticket[req[r].sos]
  IN IF ~Continues(r) THEN New(req[r].kind, req[r].sos)
     ELSE [New("SOS", req[r].sos) EXCEPT
             !.attempt = from.attempt + 1,
             !.excluded = from.excluded \cup (IF Assigned(from) THEN {from.shop} ELSE {})]

\* The call goes on after its ticket is made, or fails for what follows in it.
Create(r) ==
  LET q == req[r]
      next == CASE q.kind = "TOW" /\ q.op = "respond" ->
                     [q EXCEPT !.pc = IF q.offer.mode = "DIRECT" THEN "assign" ELSE "accepted"]
                [] q.op = "grace" -> [q EXCEPT !.pc = "clear"]
                [] OTHER -> Idle
      failed == IF Continues(r) THEN [q EXCEPT !.pc = "unclaim"] ELSE Idle
  IN /\ At(r, "create")
     /\ ticket' = [ticket EXCEPT ![q.child] = Child(r)]
     /\ visits' = [visits EXCEPT ![q.child].prior =
                      IF Continues(r) THEN visits[q.sos].prior \cup Range(visits[q.sos].own) ELSE {}]
     /\ overlap' = (overlap \/ q.stale)
     /\ \E end \in {next, failed} :
          /\ end # next => faults < MaxFaults /\ ~calm
          /\ faults' = faults + (IF end = next THEN 0 ELSE 1)
          /\ req' = [u \in Requests |-> IF u = r THEN end
                                       ELSE [req[u] EXCEPT !.stale = At(u, "create")]]
     /\ UNCHANGED <<offers, calm>>

\* A call that throws, or an instance that dies, between two writes.
Abort(r) ==
  /\ req[r] # Idle /\ faults < MaxFaults /\ ~calm
  /\ faults' = faults + 1 /\ Done(r)
  /\ UNCHANGED <<ticket, offers, history>>

-----------------------------------------------------------------------------
Visit(t) ==
  \/ \E s \in Shops : Accept(t, s)
  \/ Arrive(t) \/ SetMobileShopFix(t) \/ ApproveMobileFix(t) \/ DeclineMobileFix(t) \/ Resolve(t)
  \/ \E by \in {"rider", "shop"} : Cancel(t, by)

\* The rest of a handler that has begun.
Continue(r) ==
  \/ Availability(r) \/ OfferWrite(r) \/ DeclineWrite(r) \/ Assign(r) \/ AcceptedWrite(r)
  \/ ExpireWrite(r) \/ ContinueRead(r) \/ Claim(r) \/ Check(r) \/ Create(r) \/ Unclaim(r)
  \/ ClearGrace(r)

Next ==
  \/ \E t \in Ids : Visit(t) \/ EndTow(t) \/ OfferLapses(t) \/ GraceEnds(t)
  \/ \E r \in Callers : File(r) \/ \E t \in Ids : MarkUnfixable(r, t) \/ OfferRead(r, t)
                                                  \/ RespondRead(r, t) \/ AskToContinue(r, t)
  \/ \E r \in Requests : \/ \E t \in Ids : ExpireRead(r, t) \/ ContinueUnfixRead(r, t)
                         \/ Continue(r) \/ Abort(r)

\* A handler goes on, time passes, and the sweep comes round to every ticket it sees.
Fairness ==
  /\ \A r \in Requests : WF_vars(Continue(r))
  /\ \A t \in Ids : /\ WF_vars(OfferLapses(t) \/ GraceEnds(t))
                   /\ SF_vars(ExpireRead(Sweeper, t) \/ ContinueUnfixRead(Sweeper, t))

Spec == Init /\ [][Next]_vars /\ Fairness

-----------------------------------------------------------------------------
(* Properties.                                                             *)

OneOpenTicket == overlap \/ Cardinality({t \in Ids : Open(t)}) <= 1

ContinuedOnce ==
  \A t \in Ids :
    /\ Cardinality({c \in Ids : ticket[c].kind = "SOS" /\ ticket[c].parent = t /\ Open(c)}) <= 1
    /\ \/ ticket[t].next = None \/ Exists(ticket[t].next) \/ faults > 0
       \/ \E r \in Requests : req[r].child = ticket[t].next

\* However the shop's tow, the sweep's continuation and the rider's own filing race,
\* and wherever one fails, the rider's vehicle has one open ticket, unless two of them
\* looked before either had filed (tickets/create: liveTicketConflict), and a SOS is
\* continued once at a time, the continuation it names being there, or its handler
\* still at it, unless one died (sos: the claim on the parent).
OneSearch == OneOpenTicket /\ ContinuedOnce

\* No shop comes twice: neither one whose quote was declined, nor one that could
\* not repair, to this ticket or to any that continues it.
NoShopTwice ==
  \A t \in Ids : /\ Cardinality(Range(visits[t].own)) = Len(visits[t].own)
                 /\ Range(visits[t].own) \cap visits[t].prior = {}

\* What the table of PAYMENTS.md says a closed SOS costs, from the shops that came.
Costs(t) ==
  LET own == visits[t].own
      last == Fee[own[Len(own)]]
      all == Total([i \in DOMAIN own |-> Fee[own[i]].callOut + Fee[own[i]].travel])
  IN IF own = <<>> THEN 0
     ELSE CASE ticket[t].status = "RESOLVED" -> all + ticket[t].fix
            [] ticket[t].status = "UNFIXABLE" -> all - last.travel
            [] OTHER -> all

\* A SOS that was repaired, given up as unfixable or cancelled by the rider is
\* charged for every visit once, and for the repair only when it was made; a bill
\* shows what is charged, but for a quote left open (paymentService, breakdown).
BillOfVisits ==
  \A t \in Ids :
    LET bill == SosBill(ticket[t]) IN
    ticket[t].kind = "SOS" /\ ~Open(t) =>
      /\ ticket[t].cancelledBy = "shop" \/ OrZero(bill) = Costs(t)
      /\ OrZero(bill) = 0 \/ Sum(SosLines(ticket[t], bill)) = bill
         \/ (ticket[t].status = "CANCELLED" /\ ticket[t].fix # None)

\* Whatever way a SOS went from shop to shop, its visits add up.
VisitsAddUp == NoShopTwice /\ BillOfVisits

\* A rider whose grace period runs is not forgotten: sooner or later the SOS is
\* continued, a tow is taken, or the rider is asked (sos: sweepUnfixGrace).
Stranded(t) ==
  /\ Unfixable(t) /\ ticket[t].grace # None /\ ticket[t].next = None
  /\ ~HasOffer(t, {"ACCEPTED"}) /\ Free # {} /\ \A u \in Ids : ~Open(u)
NeverStranded == \A t \in Ids : []<>~Stranded(t)
=============================================================================
