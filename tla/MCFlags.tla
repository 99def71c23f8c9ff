------------------------------ MODULE MCFlags -------------------------------
(* Instances of Flags for TLC. *)
EXTENDS Flags, TLC

CONSTANTS f1, v1, v2, r1, r2, s1

OneFlag == {f1}
TwoVoters == {v1, v2}
TwoSlots == {r1, r2}
OneSweep == {s1}
Symmetry == Permutations(TwoVoters) \union Permutations(TwoSlots)
=============================================================================
