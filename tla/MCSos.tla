-------------------------------- MODULE MCSos --------------------------------
(* A rider and three mobile shops: two away, one next door. *)
EXTENDS Sos, TLC

CONSTANTS s1, s2, s3

MCFee == s1 :> [callOut |-> 500, travel |-> 170] @@ s2 :> [callOut |-> 0, travel |-> 10] @@ s3 :> [callOut |-> 400, travel |-> 0]
=============================================================================
