---------------------------- MODULE PayoutBatches ----------------------------
(***************************************************************************)
(* What the payout flow promises.  The batches are an audit record, neither *)
(* edited nor removed; each lists charges that were received and that       *)
(* nothing had paid, and pays all of them in the same step.  An             *)
(* administrator's payout of one charge asks nothing of what was paid       *)
(* before: it is the only step that may pay a charge again.                 *)
(***************************************************************************)
EXTENDS Sequences, Naturals

CONSTANT Payments
VARIABLES
  received,  \* charges whose money is there
  times,     \* times[p]: how often charge p was paid out
  batches    \* the charges each batch lists

Init == received = {} /\ times = [p \in Payments |-> 0] /\ batches = <<>>

Unpaid == {p \in Payments : times[p] = 0}
Pay(S) == times' = [p \in Payments |-> IF p \in S THEN times[p] + 1 ELSE times[p]]

\* Charges are received, and refunded.
Move(S) == received' = S /\ UNCHANGED <<times, batches>>

PayOne(p) == Pay({p}) /\ UNCHANGED <<received, batches>>

Settle(S) ==
  /\ S # {} /\ S \subseteq received \intersect Unpaid
  /\ batches' = Append(batches, S)
  /\ Pay(S)
  /\ UNCHANGED received

Next ==
  \/ \E S \in SUBSET Payments : Move(S) \/ Settle(S)
  \/ \E p \in Payments : PayOne(p)

Spec == Init /\ [][Next]_<<received, times, batches>>
=============================================================================
