--------------------------- MODULE MCSubscription ---------------------------
(* An instance of Subscription for TLC. *)
EXTENDS Subscription

CONSTANTS r1, r2, WEEKLY

TwoSlots == {r1, r2}
Weekly == {WEEKLY}
Terms == [p \in PlanIds |-> 2]
=============================================================================
