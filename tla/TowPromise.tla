----------------------------- MODULE TowPromise -----------------------------
(***************************************************************************)
(* What the tow service promises the riders and the towers, without the     *)
(* documents, requests and sweeps that keep it: a filed tow is searched     *)
(* for, a tower that serves nobody asks for it, one of those who asked gets *)
(* it, and once it is over it is over.  The promise is not kept for a tow   *)
(* that went astray.                                                        *)
(***************************************************************************)
CONSTANTS
  Tickets,  \* tows that may be filed
  Towers,   \* tow trucks, each of another operator
  None      \* no tower

VARIABLES
  stage,    \* how far each tow is
  helper,   \* who serves it, or served it last
  asking,   \* <<t, w>>: tower w asked for tow t and is not answered yet
  astray    \* tows two callers decided on at once

Stages == {"unfiled", "searching", "engaged", "delivered", "withdrawn"}
Serving(w) == {t \in Tickets : stage[t] = "engaged" /\ helper[t] = w}

Init ==
  /\ stage = [t \in Tickets |-> "unfiled"]
  /\ helper = [t \in Tickets |-> None]
  /\ asking = {} /\ astray = {}

Becomes(t, next) == stage' = [stage EXCEPT ![t] = next]
Names(t, w) == helper' = [helper EXCEPT ![t] = w]

File(t) ==
  /\ stage[t] = "unfiled" /\ Becomes(t, "searching")
  /\ UNCHANGED <<helper, asking, astray>>

\* Only a tower that serves nobody asks; it may ask for two tows at once.
Ask(t, w) ==
  /\ stage[t] = "searching" /\ Serving(w) = {}
  /\ asking' = asking \union {<<t, w>>}
  /\ UNCHANGED <<stage, helper, astray>>

Forget == asking' \in SUBSET asking /\ UNCHANGED <<stage, helper, astray>>

\* The first to be answered gets the tow, and may have asked for it twice.
Engage(t, w) ==
  /\ stage[t] = "searching" /\ <<t, w>> \in asking
  /\ Becomes(t, "engaged") /\ Names(t, w)
  /\ asking' \in {asking, asking \ {<<t, w>>}}
  /\ UNCHANGED astray

\* The tower gives the tow back, and the search begins again.
Leave(t) ==
  /\ stage[t] = "engaged"
  /\ Becomes(t, "searching") /\ Names(t, None)
  /\ UNCHANGED <<asking, astray>>

Deliver(t) ==
  /\ stage[t] = "engaged" /\ Becomes(t, "delivered")
  /\ UNCHANGED <<helper, asking, astray>>

Withdraw(t) ==
  /\ stage[t] \in {"searching", "engaged"} /\ Becomes(t, "withdrawn")
  /\ UNCHANGED <<helper, asking, astray>>

\* Two callers decide on t at once; from then on nothing is said of its stage.
Stray(t) == astray' = astray \union {t} /\ UNCHANGED <<stage, helper, asking>>
Drift(t) ==
  /\ t \in astray
  /\ \E next \in Stages \ {"unfiled"} : Becomes(t, next)
  /\ \E w \in {helper[t], None} : Names(t, w)
  /\ UNCHANGED <<asking, astray>>

Next ==
  \/ Forget
  \/ \E t \in Tickets :
       \/ File(t) \/ Leave(t) \/ Deliver(t) \/ Withdraw(t) \/ Stray(t) \/ Drift(t)
       \/ \E w \in Towers : Ask(t, w) \/ Engage(t, w)

Spec == Init /\ [][Next]_<<stage, helper, asking, astray>>
=============================================================================
