-------------------------------- MODULE Shop --------------------------------
(***************************************************************************)
(* A walk-in ticket at a repair shop and its money: the quote and its expiry, *)
(* the work order and its invoice, the charges, the release, the close as    *)
(* unfixable, and the tow back to the rider (service/dispatch/shop, the walk-in *)
(* part of tickets/transition, the charges of paymentService).               *)
(*                                                                         *)
(* Every handler reads, decides, and then makes a sequence of writes, each a *)
(* call of its own.  Handlers run one at a time here (named bound: modules   *)
(* Dispatch, Payments and Sos have the overlaps), so what matters is which   *)
(* writes are made: Perform applies all of them, or, up to scope.faults times,  *)
(* only those before the instance died, or all but one whose failure the     *)
(* handler swallows.                                                        *)
(***************************************************************************)
EXTENDS Bills, FiniteSets

CONSTANTS Quotes,   \* what the shop may quote
          Totals,   \* what the items of a work order may come to
          Deposit,  \* the deposit of a booked visit
          Scopes    \* bounds: how many charges, quotes, work orders, tows and faults
                    \* there are in a behaviour, which keeps to one of the Scopes

ASSUME ShopAssumption ==
  /\ Quotes \cup Totals \subseteq Nat \ {0} /\ Deposit \in Nat \ {0}
  /\ None \notin Nat \cup {"PENDING", "ACCEPTED", "DECLINED"}
  /\ Scopes \subseteq [charges : Nat, quotes : Nat, invoices : Nat, tows : Nat, faults : Nat]

VARIABLES ticket,   \* the walk-in
          charge,   \* its payments, oldest first
          tow,      \* the tows back to the rider asked for
          faults,   \* handlers that died, and failures swallowed
          scope,    \* the bounds of this behaviour
          late      \* history: an approval was retried after the quote's day

vars == <<ticket, charge, tow, faults, scope, late>>

Received == {"HELD", "CONFIRMED", "PARTIAL"}
Active == Received \cup {"PENDING"}
Closed == {"RESOLVED", "CANCELLED", "DECLINED", "UNFIXABLE"}
QuoteStates == {"MATCHED", "ARRIVED", "IN_SHOP"}

Charge(method, amount) ==
  [method |-> method, amount |-> amount, status |-> "PENDING", deposit |-> FALSE, asked |-> FALSE]

\* A new walk-in, or one from a booking whose deposit was paid online.  A rework
\* under warranty has no deposit.
Init ==
  /\ \E rework \in BOOLEAN, deposit \in {0, Deposit} :
       /\ rework => deposit = 0
       /\ ticket = [status |-> IF deposit = 0 THEN "PENDING" ELSE "MATCHED", quote |-> None,
                    quoteVersion |-> 0, invoiceVersion |-> 0, invoice |-> None, approval |-> None, pre |-> None, clock |-> None,
                    offer |-> None, links |-> {}, credit |-> deposit, rework |-> rework,
                    hold |-> FALSE, dispute |-> None, openDispute |-> None,
                    cancelledBy |-> None, released |-> FALSE]
       /\ charge = IF deposit = 0 THEN <<>>
                   ELSE <<[Charge("SEPAY", deposit) EXCEPT !.status = "HELD", !.deposit = TRUE]>>
  /\ tow = <<>> /\ faults = 0 /\ scope \in Scopes /\ late = FALSE

-----------------------------------------------------------------------------
(* Writes.                                                                 *)

Set(fields) == [to |-> "ticket", fields |-> fields, soft |-> FALSE]
Status(s) == [to |-> "status", status |-> s, soft |-> FALSE]
Ask(c) == [to |-> "ask", c |-> c, soft |-> TRUE]
Void == [to |-> "void", soft |-> TRUE]
Cancel(c) == [to |-> "cancel", c |-> c, soft |-> FALSE]
Create(method, amount) == [to |-> "create", new |-> Charge(method, amount), soft |-> FALSE]
Adjust(c, amount) == [to |-> "adjust", c |-> c, amount |-> amount, soft |-> FALSE]
Paid(c, status) == [to |-> "pay", c |-> c, status |-> status, soft |-> FALSE]
Tow(i, fields) == [to |-> "tow", i |-> i, fields |-> fields, soft |-> FALSE]

\* A document with some of its fields written.
With(fields, doc) ==
  LET written == DOMAIN fields
  IN [x \in DOMAIN doc |-> IF x \in written THEN fields[x] ELSE doc[x]]

\* Mutant of VoidPending: only the cash a rider was to hand over is cancelled.
VoidPendingCash(charges) ==
  [c \in DOMAIN charges |->
     IF charges[c].status = "PENDING" /\ charges[c].method = "CASH"
     THEN [charges[c] EXCEPT !.status = "CANCELLED"] ELSE charges[c]]

\* cancelPendingPayments.
VoidPending(charges) ==
  [c \in DOMAIN charges |->
     IF charges[c].status = "PENDING" THEN [charges[c] EXCEPT !.status = "CANCELLED"] ELSE charges[c]]

Apply(s, w) ==
  CASE w.to = "ticket" -> [s EXCEPT !.ticket = With(w.fields, s.ticket)]
    [] w.to = "status" -> [s EXCEPT !.ticket.status = w.status]
    [] w.to = "ask"    -> [s EXCEPT !.charge[w.c].asked = TRUE]
    [] w.to = "void"   -> [s EXCEPT !.charge = VoidPending(s.charge)]
    [] w.to = "cancel" -> [s EXCEPT !.charge[w.c].status = "CANCELLED"]
    [] w.to = "create" -> [s EXCEPT !.charge = Append(s.charge, w.new)]
    [] w.to = "adjust" -> [s EXCEPT !.charge[w.c].amount = w.amount]
    [] w.to = "pay"    -> [s EXCEPT !.charge[w.c].status = w.status]
    [] w.to = "tow"    -> IF w.i \in DOMAIN s.tow THEN [s EXCEPT !.tow[w.i] = With(w.fields, s.tow[w.i])]
                          ELSE [s EXCEPT !.tow = Append(s.tow, w.fields)]

Store == [ticket |-> ticket, charge |-> charge, tow |-> tow]

\* The documents after these writes, in their order.
After(writes) ==
  LET run[n \in 0..Len(writes)] == IF n = 0 THEN Store ELSE Apply(run[n - 1], writes[n])
  IN run[Len(writes)]

Reached(writes) ==
  LET s == After(writes)
  IN ticket' = s.ticket /\ charge' = s.charge /\ tow' = s.tow

Without(writes, i) == SubSeq(writes, 1, i - 1) \o SubSeq(writes, i + 1, Len(writes))

Perform(writes) ==
  /\ UNCHANGED <<scope, late>>
  /\ \/ Reached(writes) /\ UNCHANGED faults
     \/ /\ faults < scope.faults /\ faults' = faults + 1
        /\ \/ \E n \in 1..(Len(writes) - 1) : Reached(SubSeq(writes, 1, n))
           \/ \E i \in DOMAIN writes : writes[i].soft /\ Reached(Without(writes, i))

-----------------------------------------------------------------------------
(* Reading the charges of the ticket.                                      *)

Having(charges, Test(_)) == {c \in DOMAIN charges : Test(charges[c])}
SomeCharge(Test(_)) == Having(charge, Test) # {}
Newest(S) == CHOOSE c \in S : \A d \in S : d <= c

IsReceived(p) == p.status \in Received
IsActive(p) == p.status \in Active
OpenBalance(p) == ~p.deposit /\ p.status \in Active
PendingCash(p) == p.method = "CASH" /\ p.status = "PENDING"

\* buildItem: the newest charge, the deposit's only if there is no other; the bill.
BillCharge ==
  LET own == Having(charge, LAMBDA p : ~p.deposit)
  IN IF charge = <<>> THEN None ELSE charge[Newest(IF own # {} THEN own ELSE DOMAIN charge)]
ShopItem == ItemStatus(BillCharge, OrZero(ShopBill(ticket)), ticket.credit, Voided("WALK_IN", ticket))
Bill == BillOf(OrZero(ShopBill(ticket)), ticket.credit, ShopItem)

\* requestRefund for each charge received: it is the rider's own.
Asks(S) == [n \in 1..Cardinality(S) |-> Ask(CHOOSE c \in S : Cardinality({d \in S : d > c}) = n - 1)]
AskAll == Asks(Having(charge, IsReceived))

\* Mutant of CashSettled: what the rider hands over may still be on its way.
CashPromised ==
  LET cash == Having(charge, LAMBDA p : p.method = "CASH")
  IN cash # {} => charge[Newest(cash)].status \in {"CONFIRMED", "PENDING"}

\* assertCashConfirmedForResolve looks at the newest cash charge, even a cancelled one.
CashSettled ==
  LET cash == Having(charge, LAMBDA p : p.method = "CASH")
  IN cash # {} => charge[Newest(cash)].status = "CONFIRMED"

Owed(t) == Most(0, OrZero(ShopBill(t)) - t.credit)

\* createPaymentForTicket for ticket t: refused, or the writes it makes.
Payable(t) ==
  /\ ~t.hold /\ t.status \notin {"CANCELLED", "DECLINED", "UNFIXABLE"} /\ OrZero(ShopBill(t)) > 0
Covered(t) == Owed(t) = 0 /\ SomeCharge(LAMBDA p : ~p.deposit \/ p.status \in {"HELD", "CONFIRMED"})

\* What the rider owes is charged once: an open charge of the same method is used
\* again, one of the other method is cancelled first, and money received, the
\* deposit's too, stands in the way of another charge (createGuarded).
Pays(t, method) ==
  LET balance == Having(charge, OpenBalance)
  IN IF Covered(t) THEN <<>>
     ELSE IF balance # {}
     THEN IF charge[Newest(balance)].method = method THEN <<>>
          ELSE <<Cancel(Newest(balance)), Create(method, Owed(t))>>
     ELSE IF SomeCharge(IsActive) THEN <<>> ELSE <<Create(method, Owed(t))>>
Refused(t, method) ==
  LET balance == Having(charge, OpenBalance)
  IN \/ ~Payable(t)
     \/ /\ ~Covered(t)
        /\ IF balance # {} THEN LET p == charge[Newest(balance)]
                                IN p.method # method /\ p.status # "PENDING"
           ELSE \E c \in Having(charge, IsActive) : charge[c].method # method

-----------------------------------------------------------------------------
(* The visit.                                                              *)

Open(statuses) == ticket.status \in statuses

Accept == Open({"PENDING"}) /\ Perform(<<Status("MATCHED")>>)
DeclineDispatch == Open({"PENDING"}) /\ Perform(<<Status("DECLINED")>>)
SweepStaleWalkIns == Open({"PENDING"}) /\ Perform(<<Status("CANCELLED")>>)

Arrive == ~ticket.hold /\ Open({"MATCHED"}) /\ Perform(<<Status("ARRIVED")>>)
Receive == ~ticket.hold /\ Open({"ARRIVED", "MATCHED", "QUOTED"}) /\ Perform(<<Status("IN_SHOP")>>)
StartWork == /\ ~ticket.hold /\ (Open({"ARRIVED"}) \/ (Open({"MATCHED"}) /\ ticket.quote = None))
             /\ Perform(<<Status("IN_PROGRESS")>>)
MarkReady == /\ ~ticket.hold /\ Open({"IN_PROGRESS"})
             /\ Perform(<<Status("READY"), Set([offer |-> "PENDING"])>>)

Resolve ==
  /\ ~ticket.hold /\ Open({"ARRIVED", "READY"}) /\ ticket.approval # "PENDING" /\ CashSettled
  /\ Perform(<<Status("RESOLVED")>>)

\* Mutant of RiderCancels: what was received stays where it is.
RiderCancelsOnly ==
  /\ ~ticket.hold /\ ~Open(Closed \cup {"IN_PROGRESS", "IN_SHOP"})
  /\ Perform(<<Void, Status("CANCELLED"), Set([cancelledBy |-> "rider"])>>)

RiderCancels ==
  /\ ~ticket.hold /\ ~Open(Closed \cup {"IN_PROGRESS", "IN_SHOP"})
  /\ Perform(<<Void>> \o AskAll \o <<Status("CANCELLED"), Set([cancelledBy |-> "rider"])>>)

\* requestRefund refuses the shop's operator, and its refusal is swallowed: the
\* release and the close as unfixable ask for no refund.
ReleaseTicket ==
  /\ Open({"PENDING", "MATCHED", "ARRIVED", "QUOTED"})
  /\ Perform(<<Void, Set([released |-> TRUE]), Status("CANCELLED")>>)

MarkUnfixable ==
  /\ ~ticket.hold /\ Open({"MATCHED", "ARRIVED", "QUOTED", "IN_SHOP", "IN_PROGRESS"})
  /\ Perform(<<Set([offer |-> "PENDING"]), Status("UNFIXABLE"), Void>>)

-----------------------------------------------------------------------------
(* The quote.                                                              *)

BackTo == IF ticket.pre \in QuoteStates THEN ticket.pre ELSE "MATCHED"
NoQuote == [quote |-> None, invoice |-> None, approval |-> None, pre |-> None]
NoQuoteNoClock == [quote |-> None, invoice |-> None, approval |-> None, pre |-> None, clock |-> None]

\* Work under warranty is free.
Free(amounts) == IF ticket.rework THEN {0} ELSE amounts

SendQuote ==
  \E amount \in Free(Quotes) :
    LET version == ticket.quoteVersion + 1
    IN \/ /\ ticket.quote # None /\ Open({"QUOTED"})
          /\ Perform(<<Set([quote |-> amount, clock |-> "running", quoteVersion |-> version])>>)
       \/ /\ ticket.quote = None /\ Open(QuoteStates)
          /\ Perform(<<Set([quote |-> amount, clock |-> "running", quoteVersion |-> version,
                            pre |-> ticket.status]), Status("QUOTED")>>)

ExpireWrites == <<Set(NoQuoteNoClock), Void, Status(BackTo)>>

Fund(p) == \/ p.method = "CASH" /\ p.status \in {"PENDING", "CONFIRMED"}
           \/ p.method = "SEPAY" /\ p.status \in {"HELD", "CONFIRMED"}

\* Mutant of ApproveQuote: the rider's word is enough.
ApproveUnfunded ==
  /\ ticket.clock # "past"
  /\ Open({"QUOTED"}) \/ (Open({"MATCHED", "ARRIVED"}) /\ ticket.quote # None)
  /\ Perform(<<Status("IN_PROGRESS")>>)

ApproveQuote ==
  /\ ticket.clock # "past"
  /\ Open({"QUOTED"}) \/ (Open({"MATCHED", "ARRIVED"}) /\ ticket.quote # None)
  /\ \/ ticket.rework /\ Perform(<<Status("IN_PROGRESS")>>)
     \/ /\ ~ticket.rework /\ SomeCharge(Fund) /\ Perform(<<Status("IN_PROGRESS")>>)
     \/ /\ ~ticket.rework /\ ~SomeCharge(IsActive) /\ ~Refused(ticket, "CASH")
        /\ Perform(Pays(ticket, "CASH") \o <<Status("IN_PROGRESS")>>)

\* An approval past the quote's day expires the quote, whatever the ticket's status.
\* Outside QUOTED it undoes what was agreed on: it counts among the faults, so that
\* the properties which ask for none excuse it.
ApproveLate ==
  /\ ticket.clock = "past"
  /\ IF Open({"QUOTED"}) THEN Perform(ExpireWrites)
     ELSE /\ faults < scope.faults /\ faults' = faults + 1 /\ late' = TRUE
          /\ Reached(ExpireWrites) /\ UNCHANGED scope

DeclineQuote ==
  /\ ~ticket.hold /\ Open({"QUOTED"})
  /\ Perform(<<Set(NoQuote), Void>> \o AskAll \o <<Status(BackTo)>>)

\* Mutant of SweepExpiredQuotes: a quote that was amended is left alone.
SweepFirstQuotes ==
  /\ ~ticket.hold /\ Open({"QUOTED"}) /\ ticket.clock = "past" /\ charge = <<>>
  /\ Perform(ExpireWrites)

SweepExpiredQuotes ==
  /\ ~ticket.hold /\ Open({"QUOTED"}) /\ ticket.clock = "past"
  /\ Perform(ExpireWrites)

QuickFix ==
  /\ Open({"MATCHED"})
  /\ \E amount \in Quotes :
       LET quoted == Set([quote |-> amount, pre |-> ticket.status,
                          quoteVersion |-> ticket.quoteVersion + 1])
           then == With(quoted.fields, ticket)
       IN Perform(<<quoted>> \o IF Refused(then, "CASH") THEN <<>>
                                ELSE Pays(then, "CASH") \o <<Status("IN_PROGRESS")>>)

-----------------------------------------------------------------------------
(* The work order and its invoice.                                         *)

UpdateWorkOrder ==
  /\ Open({"MATCHED", "ARRIVED", "IN_PROGRESS", "IN_SHOP", "QUOTED"})
  /\ \E total \in Free(Totals) :
       LET other == ticket.quote # None /\ total # ticket.quote
           cash == Having(charge, PendingCash)
           funded(p) == Fund(p) /\ p.status # "PENDING"
       IN /\ ~(other /\ SomeCharge(funded))
          /\ Perform((IF other /\ cash # {}
                      THEN <<Adjust(Newest(cash), Most(0, total - ticket.credit))>> ELSE <<>>)
                     \o <<Set([invoice |-> total, approval |-> IF other THEN "PENDING" ELSE "APPROVED",
                                invoiceVersion |-> ticket.invoiceVersion + 1])>>)

ApproveInvoice == ticket.approval = "PENDING" /\ Perform(<<Set([approval |-> "APPROVED"])>>)

-----------------------------------------------------------------------------
(* Paying.                                                                 *)

CreatePayment ==
  \E method \in {"CASH", "SEPAY"} :
    /\ ~Refused(ticket, method) /\ Pays(ticket, method) # <<>>
    /\ Perform(Pays(ticket, method))

CancelPendingPayment ==
  LET balance == Having(charge, OpenBalance)
  IN /\ balance # {} /\ charge[Newest(balance)].status = "PENDING"
     /\ Perform(<<Cancel(Newest(balance))>>)

ConfirmCash ==
  LET cash == Having(charge, PendingCash)
  IN cash # {} /\ Perform(<<Paid(Newest(cash), "CONFIRMED")>>)

\* The gateway's notice; the refund the platform sends (module Settlement).
Ipn(c) == /\ charge[c].method = "SEPAY" /\ charge[c].status = "PENDING"
          /\ Perform(<<Paid(c, "HELD")>>)
RefundSent(c) == /\ charge[c].asked /\ charge[c].status \in Received
                 /\ Perform(<<Paid(c, "REFUNDED")>>)

-----------------------------------------------------------------------------
(* The tow back to the rider.                                              *)

NextTow == Len(tow) + 1

\* Mutant of RespondReturnTow: an answer already given does not stop another.
RespondReturnTowAgain ==
  /\ Open({"READY", "UNFIXABLE"}) /\ ticket.offer # "DECLINED" /\ NextTow <= scope.tows
  /\ ~SomeCharge(LAMBDA p : p.method = "CASH" /\ p.status \in {"PENDING", "PARTIAL"})
  /\ Perform(<<Tow(NextTow, [status |-> "OPEN", linked |-> FALSE]),
               Set([offer |-> "ACCEPTED", links |-> ticket.links \cup {NextTow}]),
               Tow(NextTow, [linked |-> TRUE])>>)

RespondReturnTow ==
  /\ Open({"READY", "UNFIXABLE"}) /\ ticket.offer \in {None, "PENDING"}
  /\ \/ Perform(<<Set([offer |-> "DECLINED"])>>)
     \/ /\ ~SomeCharge(LAMBDA p : p.method = "CASH" /\ p.status \in {"PENDING", "PARTIAL"})
        /\ NextTow <= scope.tows
        /\ Perform(<<Tow(NextTow, [status |-> "OPEN", linked |-> FALSE]),
                     Set([offer |-> "ACCEPTED", links |-> ticket.links \cup {NextTow}]),
                     Tow(NextTow, [linked |-> TRUE])>>)

TowArrives(i) == tow[i].status = "OPEN" /\ Perform(<<Tow(i, [status |-> "ARRIVED"])>>)

\* A return tow called off before it arrived may be asked for again.
TowCancelled(i) ==
  /\ tow[i].status \in {"OPEN", "ARRIVED"}
  /\ Perform(<<Tow(i, [status |-> "CANCELLED"])>>
             \o IF /\ tow[i].status = "OPEN" /\ tow[i].linked
                   /\ Open({"READY", "UNFIXABLE"}) /\ ticket.offer = "ACCEPTED"
                THEN <<Set([offer |-> "PENDING"])>> ELSE <<>>)

\* Its delivery closes the walk-in, when nothing is left to approve or to confirm.
TowDelivered(i) ==
  /\ tow[i].status = "ARRIVED"
  /\ Perform(<<Tow(i, [status |-> "RESOLVED"])>>
             \o IF /\ tow[i].linked /\ Open({"READY"}) /\ ticket.approval # "PENDING" /\ CashSettled
                THEN <<Status("RESOLVED")>> ELSE <<>>)

Day == /\ ticket.clock = "running"
       /\ ticket' = [ticket EXCEPT !.clock = "past"]
       /\ UNCHANGED <<charge, tow, faults, scope, late>>

-----------------------------------------------------------------------------
Visit == \/ Accept \/ DeclineDispatch \/ SweepStaleWalkIns \/ Arrive \/ Receive \/ StartWork
         \/ MarkReady \/ Resolve \/ RiderCancels \/ ReleaseTicket \/ MarkUnfixable
Work == \/ SendQuote \/ ApproveQuote \/ ApproveLate \/ DeclineQuote \/ SweepExpiredQuotes
        \/ QuickFix \/ UpdateWorkOrder \/ ApproveInvoice
Money == \/ CreatePayment \/ CancelPendingPayment \/ ConfirmCash
         \/ \E c \in DOMAIN charge : Ipn(c) \/ RefundSent(c)
Return == \/ RespondReturnTow
          \/ \E i \in DOMAIN tow : TowArrives(i) \/ TowCancelled(i) \/ TowDelivered(i)

Within == /\ Len(charge') <= scope.charges
          /\ ticket'.quoteVersion <= scope.quotes /\ ticket'.invoiceVersion <= scope.invoices

Next == (Visit \/ Work \/ Money \/ Return \/ Day) /\ Within

\* Time passes, and the sweep comes round.
Fairness == WF_vars(Day) /\ SF_vars(SweepExpiredQuotes)

Spec == Init /\ [][Next]_vars /\ Fairness

-----------------------------------------------------------------------------
(* Properties.                                                             *)

\* A repair that was quoted and is closed as done was paid for, in cash the shop
\* confirmed or online, unless a handler died or it was disputed (transition: the
\* check for cash).  A work order nobody quoted may be closed and paid for later.
ResolvedIsPaid ==
  /\ ticket.status = "RESOLVED" /\ ticket.quote # None /\ OrZero(ShopBill(ticket)) > 0
  /\ ticket.dispute = None /\ faults = 0
  => SomeCharge(LAMBDA p : p.status \in Received \cup {"REFUNDED"})

\* What the bill says is due is what a charge asks for, and nothing that can be charged
\* is shown as paid, as long as nothing was given back and no deposit was paid
\* (billService.buildBill; paymentService.createPaymentForTicket).
BillIsCharged ==
  LET p == BillCharge
  IN p = None \/ (~p.deposit /\ p.status \in {"PENDING", "CANCELLED"}) =>
       /\ ~ticket.hold => Bill.due = IF Payable(ticket) /\ ~Covered(ticket) THEN Owed(ticket) ELSE 0
       /\ \A method \in {"CASH", "SEPAY"} : Bill.status = "PAID" => Refused(ticket, method) \/ Pays(ticket, method) = <<>>

\* A rider who calls the visit off owes nothing more and is given back what was
\* received, unless a call failed (transition: the close by the rider).
CancelledIsRefunded ==
  ticket.status = "CANCELLED" /\ ticket.cancelledBy = "rider" /\ ~ticket.released /\ faults = 0
    => \A c \in DOMAIN charge : /\ charge[c].status # "PENDING"
                               /\ charge[c].status \in Received => charge[c].asked

\* However a repair ends, its money is settled, and until then its bill is what is charged.
AccountsClose == ResolvedIsPaid /\ BillIsCharged /\ CancelledIsRefunded

\* One tow brings the vehicle back: another is not asked for while one is under
\* way, but for one more with each handler that died (returnTow, transition: the
\* offer again).
OneReturnTow ==
  Cardinality({i \in DOMAIN tow : tow[i].status \in {"OPEN", "ARRIVED"}}) <= 1 + faults

\* A quote does not wait for ever: it is answered, or expires, unless a handler died
\* or the quote was expired late (quote: the sweep).
QuoteEnds == []<>(ticket.status # "QUOTED" \/ ticket.hold \/ faults > 0)
=============================================================================
