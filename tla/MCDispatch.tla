---------------------------- MODULE MCDispatch -----------------------------
(* Instances of Dispatch for TLC. *)
EXTENDS Dispatch, TLC

CONSTANTS t1, t2, w1, w2, r1, r2

TwoTickets == {t1, t2}
OnlyFirst == {t1}
TwoTowers == {w1, w2}
TwoSlots == {r1, r2}

\* A tow that went astray is not followed further.  Of the requests about one tower,
\* accepts and cancels overlap, with two tows about and nothing dead.  With two tows
\* about, the first is filed first (tows are alike) and one request at a time goes on
\* after a death.
Followed ==
  /\ clash = {}
  /\ rough = {} \/ /\ bustle = "many" /\ faults = 0
                   /\ \A r \in Requests : req[r].kind \in {"none", "accept", "cancel"}
  /\ bustle = "many" => /\ Is(t2, {"NONE"}) \/ ~Is(t1, {"NONE"})
                        /\ faults = 0 \/ At(r1, "idle") \/ At(r2, "idle")
=============================================================================
