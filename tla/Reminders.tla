----------------------------- MODULE Reminders -----------------------------
(***************************************************************************)
(* What people are reminded of: a rider, that it is time to leave for a    *)
(* booking (booking/reminders, bookingService, the Cloud Tasks queue and the *)
(* sweep behind it), and a rider again, that a closed ticket is to be paid  *)
(* (paymentReminderService).                                               *)
(*                                                                         *)
(* A courier delivers: it reads, pushes, and writes what it read with a mark *)
(* that it was sent.  A behaviour has one subject, the booking or the bill.  *)
(* The booking's own life is module Bookings; here its status changes in one *)
(* step (named bound).                                                     *)
(***************************************************************************)
EXTENDS Integers, FiniteSets, Sequences

CONSTANTS Couriers,   \* deliveries of tasks, and runs of the sweep
          Horizon,    \* bound: the last instant, which stands for all later ones
          MaxPlans,   \* bound: times a booking is planned
          MaxLosses   \* bound: tasks lost, deliveries that die

ASSUME RemindersAssumption == Horizon \in Nat /\ MaxPlans \in Nat \ {0} /\ MaxLosses \in Nat

Instants == 0..Horizon
Never == Horizon + 1

VARIABLES subject,   \* bound: "booking" or "bill"
          now,
          plan,      \* the booking: its status, when its reminder is due and whether it is
                     \* marked sent, and, as history, which plan this is
                     \* and whether a tow was filed for it
          planner,   \* the request that is planning: "arm" or "enqueue", and for when
          tasks,     \* Cloud Tasks: the reminders queued
          names,     \* Cloud Tasks: the names in use, also of tasks that are done
          bill,      \* the ticket: paymentDueAt, paymentReminderCount, what is owed and paid
          courier,   \* deliveries in flight
          told,      \* history: how often the rider was told, of each plan or of the bill
          losses,
          mixed      \* history: a delivery overlapped another writer, or died after its push

remVars == <<subject, now, plan, planner, tasks, names, bill, courier, told, losses, mixed>>

AtRest == [pc |-> "idle", plan |-> 0, at |-> Never, task |-> Never, count |-> 0]
Planning(pc, at) == [pc |-> pc, at |-> at]

\* createBooking has stored the request without a time, and computes it.
RemInit ==
  /\ subject \in {"booking", "bill"} /\ now = 0
  /\ plan = [status |-> "REQUESTED", at |-> Never, sent |-> FALSE, version |-> 1, towed |-> FALSE]
  /\ planner \in {Planning("arm", at) : at \in Instants}
  /\ tasks = {} /\ names = {}
  /\ bill = [due |-> Never, count |-> 0, payable |-> FALSE, owed |-> TRUE, paid |-> FALSE]
  /\ courier = [c \in Couriers |-> AtRest]
  /\ told = [v \in 0..MaxPlans |-> 0] /\ losses = 0 /\ mixed = FALSE

OnBooking == subject = "booking"
Busied == \E c \in Couriers : courier[c].pc # "idle"
Send(c, delivery) == courier' = [courier EXCEPT ![c] = delivery]

Passes ==
  /\ now < Horizon /\ now' = now + 1
  /\ UNCHANGED <<subject, plan, planner, tasks, names, bill, courier, told, losses, mixed>>

-----------------------------------------------------------------------------
(* The reminder of a booking.                                              *)

\* updateBookingPlan, until its write; reminderAtFor works out the time.
UpdatePlan(at) ==
  /\ OnBooking /\ planner.pc = "idle" /\ plan.status \in {"REQUESTED", "CONFIRMED"}
  /\ plan.version < MaxPlans
  /\ planner' = Planning("arm", at)
  /\ UNCHANGED <<subject, now, plan, tasks, names, bill, courier, told, losses, mixed>>

\* The new time, and no mark; a delivery that is under way knows the old one.
ArmReminder ==
  /\ OnBooking /\ planner.pc = "arm"
  /\ plan' = [plan EXCEPT !.at = planner.at, !.sent = FALSE, !.towed = FALSE,
                          !.version = IF plan.at = Never THEN 1 ELSE @ + 1]
  /\ planner' = Planning("enqueue", planner.at) /\ mixed' = (mixed \/ Busied)
  /\ UNCHANGED <<subject, now, tasks, names, bill, courier, told, losses>>

\* enqueueBookingReminder: the task is named by its time, a name in use is taken for
\* queued, and a failure is only logged.
EnqueueReminder ==
  /\ OnBooking /\ planner.pc = "enqueue"
  /\ planner' = Planning("idle", Never)
  /\ \/ planner.at \notin names /\ names' = names \cup {planner.at} /\ tasks' = tasks \cup {planner.at}
        /\ UNCHANGED losses
     \/ planner.at \in names /\ UNCHANGED <<names, tasks, losses>>
     \/ losses < MaxLosses /\ losses' = losses + 1 /\ UNCHANGED <<names, tasks>>
  /\ UNCHANGED <<subject, now, plan, bill, courier, told, mixed>>

Rests(c) == courier[c].pc = "idle"
Setting == mixed' = (mixed \/ Busied \/ (OnBooking /\ planner.pc = "arm"))

\* Mutant of Remindable: the mark is not looked at.
RemindableAgain == plan.status = "CONFIRMED" /\ plan.at # Never

\* sendReminderForBooking goes on for a booking that is not marked.
Remindable == plan.status = "CONFIRMED" /\ ~plan.sent

\* deliverBookingReminder: the queue calls when the time has come, again if a call
\* dies; the time the booking has now is not compared.
DeliverTask(c, at) ==
  /\ OnBooking /\ Rests(c) /\ at \in tasks /\ at <= now
  /\ tasks' = tasks \ {at}
  /\ IF Remindable
     THEN Send(c, [AtRest EXCEPT !.pc = "push", !.plan = plan.version, !.at = plan.at, !.task = at])
          /\ Setting
     ELSE UNCHANGED <<courier, mixed>>
  /\ UNCHANGED <<subject, now, plan, planner, names, bill, told, losses>>

\* Mutant of ReminderDue: only what became due since the last run is looked up.
ReminderDueNow == plan.status = "CONFIRMED" /\ plan.at = now /\ ~plan.sent

\* findReminderDueV2
ReminderDue == plan.status = "CONFIRMED" /\ plan.at <= now /\ ~plan.sent

SweepReminder(c) ==
  /\ OnBooking /\ Rests(c) /\ ReminderDue
  /\ Send(c, [AtRest EXCEPT !.pc = "push", !.plan = plan.version, !.at = plan.at])
  /\ Setting
  /\ UNCHANGED <<subject, now, plan, planner, tasks, names, bill, told, losses>>

\* createBookingTow, once the tow is filed: the rider need not be told.
TowInstead ==
  /\ OnBooking /\ plan.status = "CONFIRMED" /\ plan.at # Never /\ ~plan.sent
  /\ plan' = [plan EXCEPT !.sent = TRUE, !.towed = TRUE]
  /\ UNCHANGED <<subject, now, planner, tasks, names, bill, courier, told, losses, mixed>>

\* The shop accepts; the booking is declined, cancelled, arrived or completed.
Answer(status) ==
  /\ OnBooking
  /\ \/ plan.status = "REQUESTED" /\ status \in {"CONFIRMED", "CLOSED"}
     \/ plan.status = "CONFIRMED" /\ status = "CLOSED"
  /\ plan' = [plan EXCEPT !.status = status]
  /\ UNCHANGED <<subject, now, planner, tasks, names, bill, courier, told, losses, mixed>>

-----------------------------------------------------------------------------
(* The reminder of a bill.  An instant stands for each of the delays.      *)

\* A ticket closes payable, and schedulePaymentReminder sees no charge received.
SchedulePaymentReminder ==
  /\ ~OnBooking /\ ~bill.payable /\ bill.due = Never
  /\ bill' = [bill EXCEPT !.payable = TRUE,
                          !.due = IF bill.owed /\ ~bill.paid /\ now < Horizon THEN now + 1 ELSE Never]
  /\ UNCHANGED <<subject, now, plan, planner, tasks, names, courier, told, losses, mixed>>

\* A charge is received, or the amount becomes zero, at any time.
Settle ==
  /\ ~OnBooking
  /\ \/ ~bill.paid /\ bill' = [bill EXCEPT !.paid = TRUE]
     \/ bill.owed /\ bill' = [bill EXCEPT !.owed = FALSE]
  /\ UNCHANGED <<subject, now, plan, planner, tasks, names, courier, told, losses, mixed>>

\* sweepPaymentReminders up to its push: the ticket was listed as due.
SweepPayment(c) ==
  /\ ~OnBooking /\ Rests(c) /\ bill.due <= now
  /\ Send(c, [AtRest EXCEPT !.pc = IF bill.paid \/ ~bill.owed THEN "clear" ELSE "push", !.count = bill.count])
  /\ Setting
  /\ UNCHANGED <<subject, now, plan, planner, tasks, names, bill, told, losses>>

\* clearReminder
ClearReminder(c) ==
  /\ courier[c].pc = "clear" /\ Send(c, AtRest)
  /\ bill' = [bill EXCEPT !.due = Never, !.count = 0]
  /\ UNCHANGED <<subject, now, plan, planner, tasks, names, told, losses, mixed>>

\* Mutant of NextDelay: there is always another reminder.
NextDelayAlways(count) == IF now < Horizon THEN now + 1 ELSE now

\* After the first reminder and the second there is another; after the third none.
NextDelay(count) == IF count \in {1, 2} THEN (IF now < Horizon THEN now + 1 ELSE now) ELSE Never

-----------------------------------------------------------------------------
(* The couriers.                                                           *)

Push(c) ==
  /\ courier[c].pc = "push" /\ Send(c, [courier[c] EXCEPT !.pc = "mark"])
  /\ told' = [told EXCEPT ![courier[c].plan] = @ + 1]
  /\ UNCHANGED <<subject, now, plan, planner, tasks, names, bill, losses, mixed>>

\* The reminder as it was read, marked as sent; or the bill's next reminder.
Mark(c) ==
  /\ courier[c].pc = "mark" /\ Send(c, AtRest)
  /\ IF OnBooking
     THEN plan' = [plan EXCEPT !.at = courier[c].at, !.sent = TRUE] /\ UNCHANGED bill
     ELSE /\ bill' = [bill EXCEPT !.due = NextDelay(courier[c].count + 1), !.count = courier[c].count + 1]
          /\ UNCHANGED plan
  /\ UNCHANGED <<subject, now, planner, tasks, names, told, losses, mixed>>

\* A delivery dies; the queue will call again, the sweep comes anyway.
Lose(c) ==
  /\ ~Rests(c) /\ losses < MaxLosses /\ losses' = losses + 1 /\ Send(c, AtRest)
  /\ tasks' = tasks \cup ({courier[c].task} \ {Never})
  /\ mixed' = (mixed \/ courier[c].pc = "mark")
  /\ UNCHANGED <<subject, now, plan, planner, names, bill, told>>

-----------------------------------------------------------------------------
RemNext ==
  \/ Passes \/ ArmReminder \/ EnqueueReminder \/ TowInstead \/ SchedulePaymentReminder \/ Settle
  \/ \E at \in Instants : UpdatePlan(at)
  \/ \E status \in {"CONFIRMED", "CLOSED"} : Answer(status)
  \/ \E c \in Couriers :
       \/ \E at \in tasks : DeliverTask(c, at)
       \/ SweepReminder(c) \/ SweepPayment(c) \/ ClearReminder(c) \/ Push(c) \/ Mark(c) \/ Lose(c)

\* Time passes, a delivery goes on, and the sweep runs every five minutes; that a
\* task is delivered is not counted on.
RemFairness ==
  /\ WF_remVars(Passes) /\ WF_remVars(ArmReminder)
  /\ \A c \in Couriers : WF_remVars(Push(c) \/ Mark(c) \/ ClearReminder(c))
  /\ WF_remVars(\E c \in Couriers : SweepReminder(c) \/ SweepPayment(c))

RemSpec == RemInit /\ [][RemNext]_remVars /\ RemFairness

-----------------------------------------------------------------------------
(* Properties.                                                             *)

\* A rider is told once of each plan for a booking, although a task and the sweep both
\* see to it, and at most three times of a bill, unless deliveries overlapped each
\* other or a new plan, or died between the push and the mark (sendReminderForBooking,
\* sweepPaymentReminders).
ToldEnough ==
  mixed \/ IF OnBooking THEN \A v \in DOMAIN told : told[v] <= 1 ELSE told[0] <= 3

\* Whatever tasks are lost or taken for queued, the rider of a confirmed booking is
\* told of the last plan (the sweep is the fallback), unless it closes, a tow is filed or a delivery is
\* mixed up with the change, and even then the booking is marked; and a bill that is settled is sooner or later left alone
\* (booking/reminders, taskQueueService, paymentReminderService).
Untold == OnBooking /\ plan.status = "CONFIRMED" /\ plan.at # Never /\ told[plan.version] = 0 /\ ~plan.towed /\ ~mixed
Unmarked == OnBooking /\ plan.status = "CONFIRMED" /\ plan.at # Never /\ ~plan.sent
Dunned == ~OnBooking /\ bill.due # Never /\ (bill.paid \/ ~bill.owed)
RemindersEnd == []<>~Untold /\ []<>~Unmarked /\ []<>~Dunned
=============================================================================
