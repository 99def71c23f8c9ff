-------------------------------- MODULE Bills --------------------------------
(***************************************************************************)
(* What a ticket costs, computed twice by the code: the amount a charge is  *)
(* created for (paymentService.billableAmountFor) and the lines its bill     *)
(* shows (bill/breakdown, bill/deposit, billService).  Money in units of a   *)
(* hundred VND, distances in hundredths of a kilometre, both exact here.     *)
(***************************************************************************)
EXTENDS Integers, Sequences, SequencesExt

CONSTANTS None   \* a field that is null or missing

Least(a, b) == IF a < b THEN a ELSE b
Most(a, b) == IF a < b THEN b ELSE a
OrZero(x) == IF x = None THEN 0 ELSE x
OrElse(x, y) == IF x = None THEN y ELSE x
Total(amounts) == FoldLeft(LAMBDA a, b : a + b, 0, amounts)

\* roundFare, round1k: num/den hundred VND to the nearest thousand.
RoundFare(num, den) == ((2 * num + 10 * den) \div (20 * den)) * 10

-----------------------------------------------------------------------------
(* The amount of a charge.                                                 *)

RiderCancelled(t) == t.status = "CANCELLED" /\ t.cancelledBy = "rider"

\* billableAmountFor of a TOW: None when there is nothing to pay.
TowBill(t) ==
  LET base == IF (RiderCancelled(t) /\ t.tower = None) \/ t.fare = None THEN None
              ELSE OrElse(t.fare.final, t.fare.estimate)
      waiting == IF t.fare = None THEN 0 ELSE OrZero(t.fare.waitingFee)
  IN IF ~(t.status = "RESOLVED" \/ RiderCancelled(t)) \/ (base = None /\ Total(t.history) = 0)
     THEN None
     ELSE [amount |-> OrZero(base) + Total(t.history) + waiting, waiting |-> waiting]

\* MOBILE_SHOP_CALL_OUT_FEE, for a visit whose own fee was not stamped.
CallOutFee == 500
Assigned(t) == t.shop # None

\* billableAmountFor of a SOS: the visits declined, and what the last one costs.
SosBill(t) ==
  LET owed == Total(t.owed)
      callOut == OrElse(t.callOut, CallOutFee)
      quoted == Assigned(t) /\ t.fix # None /\ t.status \in {"RESOLVED", "READY", "QUOTED"}
      amount == IF quoted THEN owed + callOut + OrZero(t.travel) + t.fix
                ELSE IF t.status \in {"UNFIXABLE", "RESOLVED_UNFIXABLE"}
                THEN owed + (IF Assigned(t) THEN callOut ELSE 0)
                ELSE owed + (IF Assigned(t) THEN callOut + OrZero(t.travel) ELSE 0)
  IN IF \/ ~Assigned(t) /\ owed = 0
        \/ ~quoted /\ t.status \notin {"UNFIXABLE", "RESOLVED_UNFIXABLE"} /\ ~RiderCancelled(t)
     THEN None ELSE amount

\* billableAmountFor of a repair: the invoice the rider approved, or the quote;
\* nothing for a rework under warranty.  (finalAmount, its last resort, is never written
\* of a repair without the quote.)
ShopBill(t) == IF t.rework THEN None
               ELSE IF t.approval = "APPROVED" /\ t.invoice # None THEN t.invoice ELSE t.quote

-----------------------------------------------------------------------------
(* What of it is paid.  A charge p is a record, or None.                   *)

Unpayable == {"CANCELLED", "DECLINED", "RESOLVED_UNFIXABLE", "UNFIXABLE"}

\* buildItem: a closed repair is void, a visit by a mobile shop never, a tow that the
\* rider called off neither.
Voided(kind, t) ==
  t.status \in Unpayable /\ kind # "SOS" /\ ~(kind = "TOW" /\ RiderCancelled(t))

\* Mutant of ItemStatus: a repair that is called off still waits for its charge.
ItemStatusPending(p, amount, credit, voided) ==
  IF p = None THEN "UNPAID"
  ELSE IF p.status \in {"HELD", "CONFIRMED"} THEN "PAID"
  ELSE IF p.status = "CANCELLED" THEN "UNPAID" ELSE p.status

\* billStatusFor: what was received comes first, then that there is nothing to pay, then
\* the charge that waits.  A deposit alone pays a part.
ItemStatus(p, amount, credit, voided) ==
  LET status == IF p = None THEN None ELSE p.status
      due == Most(0, amount - credit)
  IN CASE status \in {"HELD", "CONFIRMED"} /\ (~p.deposit \/ due = 0) -> "PAID"
       [] status \in {"HELD", "CONFIRMED"} /\ p.deposit /\ due > 0 -> IF credit > 0 THEN "PARTIAL" ELSE "PENDING"
       [] status \in {"REFUNDED", "PARTIAL"} -> status
       [] OTHER -> IF voided THEN "VOID"
                   ELSE IF status = "PENDING" THEN "PENDING"
                   ELSE IF p = None /\ credit > 0 /\ due = 0 THEN "PAID" ELSE "UNPAID"

\* buildBill of the one item, none if there is nothing to pay; an item paid in part
\* counts neither as paid nor as due.
BillOf(amount, credit, status) ==
  LET waits == status \in {"UNPAID", "PENDING"}
      paid == IF status = "PAID" THEN amount ELSE IF waits THEN Least(credit, amount) ELSE 0
      due == IF waits THEN Most(0, amount - credit) ELSE 0
  IN IF amount <= 0 THEN [total |-> 0, paid |-> 0, due |-> 0, status |-> "VOID"]
     ELSE [total |-> amount, paid |-> paid, due |-> due,
           status |-> IF due > 0 THEN (IF paid > 0 THEN "PARTIAL" ELSE "UNPAID")
                      ELSE IF paid > 0 THEN "PAID" ELSE "VOID"]

-----------------------------------------------------------------------------
(* The lines of a bill.                                                    *)

Line(code, amount) == <<[code |-> code, amount |-> amount]>>
Sum(lines) == FoldLeft(LAMBDA a, l : a + l.amount, 0, lines)
If(condition, lines) == IF condition THEN lines ELSE <<>>

WaitingLine(fare) == If(OrZero(fare.waitingFee) > 0, Line("WAITING", OrZero(fare.waitingFee)))

PartialLines(fare, amount, prior) ==
  Line("TRAVELED", Most(0, amount - prior - OrZero(fare.waitingFee))) \o WaitingLine(fare)

\* The multiplier of a night is three halves.
NormalLines(fare, amount, prior) ==
  LET base == OrZero(fare.base)
      known == fare.perKm # None /\ fare.billable # None
      way == IF known THEN fare.perKm * fare.billable ELSE 0
      night == RoundFare(base * 100 + way, 200)
  IN Line("BASE", base)
     \o Line("DISTANCE", IF known THEN RoundFare(way, 100)
                         ELSE Most(0, amount - base - OrZero(fare.waitingFee) - prior))
     \o If(fare.night /\ night # 0, Line("NIGHT", night))
     \o WaitingLine(fare)

\* What the lines miss or exceed is one more line, named for its likely cause.
AdjustmentLine(amount, computed, ceiling) ==
  LET off == amount - computed
      code == IF computed > ceiling /\ amount = ceiling THEN "CEILING"
              ELSE IF off \in -5..5 THEN "ROUNDING" ELSE "ADJUSTMENT"
  IN If(off # 0, Line(code, off))

TowLines(t, amount) ==
  LET prior == Total(t.history)
      own == IF t.fare = None THEN <<>>
             ELSE IF t.fare.partial THEN PartialLines(t.fare, amount, prior)
             ELSE NormalLines(t.fare, amount, prior)
      lines == own \o If(prior > 0, Line("PRIOR_TOW", prior))
  IN IF lines = <<>> THEN Line("VISIT", amount)
     ELSE lines \o AdjustmentLine(amount, Sum(lines), IF t.fare = None THEN amount ELSE t.fare.ceiling)

\* sosBreakdown: a close as unfixable leaves the call-out alone.
SosLines(t, amount) ==
  LET unfixable == t.status \in {"UNFIXABLE", "RESOLVED_UNFIXABLE"}
      due == SelectSeq(t.owed, LAMBDA visit : visit > 0)
      lines == [i \in DOMAIN due |-> Line("PRIOR_VISIT", due[i])[1]]
               \o If(OrZero(t.callOut) > 0, Line("CALLOUT", OrZero(t.callOut)))
               \o If(~unfixable /\ OrZero(t.travel) > 0, Line("TRAVEL", OrZero(t.travel)))
               \o If(~unfixable /\ OrZero(t.fix) > 0, Line("REPAIR", OrZero(t.fix)))
  IN IF lines = <<>> THEN Line("VISIT", amount) ELSE lines
=============================================================================
