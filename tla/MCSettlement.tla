---------------------------- MODULE MCSettlement ----------------------------
(* Instances of Settlement for TLC. *)
EXTENDS Settlement, TLC

CONSTANTS r1, r2

OneSlot == {r1}
TwoSlots == {r1, r2}
SlotSymmetry == Permutations(TwoSlots)

\* A cash charge and, after it, one paid through SePay.
Paid == [p \in Payments |-> IF p = 1 THEN 3 ELSE 2]
Share == [p \in Payments |-> IF p = 1 THEN 2 ELSE 1]
\* Bounds: refunds and withdrawals are not both filed, for they share nothing
\* but the batches, nor is a charge stamped twice that is also refunded or whose
\* payee withdraws; next to refunds one batch is enough when nothing overlaps.
RefundsOrRepeats ==
  /\ refunds = <<>> \/ asks = <<>>
  /\ (\E p \in Payments : pay[p].at > 1) => refunds = <<>> /\ asks = <<>>
RefundsAndOneBatch == refunds = <<>> \/ (asks = <<>> /\ Len(batches) <= 1)
=============================================================================
