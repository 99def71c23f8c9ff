---------------------------- MODULE MCBookings -----------------------------
(* Instances for TLC of Bookings and of Reminders: two specifications that share *)
(* no variable, checked in one run.                                          *)
EXTENDS Bookings, Reminders, TLC

CONSTANTS b1, b2, r1, r2

TwoBookings == {b1, b2}
OnlyFirst == {b1}
OnlySecond == {b2}
TwoSlots == {r1, r2}
\* Each booking has a request slot of its own, so none overlaps with another of the
\* same booking; the sweep's list may cross a request of the first one, as long as
\* nothing died and the second was never made.  The second booking is accepted and
\* cancelled, the first goes through all of its life.
Apart ==
  /\ rough = {} \/ (faults = 0 /\ booking[b2] = Unmade)
  /\ req[r1].b # b2 /\ req[r2].b # b1
  /\ req[r2].kind \in {"none", "accept", "cancel"}

\* Which of the two a behaviour is about.
VARIABLE side

OfLife(A) == side = "life" /\ A /\ UNCHANGED <<remVars, side>>
OfReminders(A) == side = "reminders" /\ A /\ UNCHANGED <<vars, side>>
all == <<vars, remVars, side>>

MCInit ==
  /\ Init /\ RemInit /\ side \in {"life", "reminders"}
  /\ side = "life" => subject = "bill" /\ planner.at = 0

MCNext == OfLife(Next) \/ OfReminders(RemNext)

\* The fairness of FairSpec and of RemSpec.
MCFairness ==
  /\ WF_all(OfLife(SweepStep)) /\ WF_all(OfLife(Tick))
  /\ WF_all(OfReminders(Passes)) /\ WF_all(OfReminders(ArmReminder))
  /\ \A c \in Couriers : WF_all(OfReminders(Push(c) \/ Mark(c) \/ ClearReminder(c)))
  /\ WF_all(OfReminders(\E c \in Couriers : SweepReminder(c) \/ SweepPayment(c)))

MCSpec == MCInit /\ [][MCNext]_all /\ MCFairness
=============================================================================
