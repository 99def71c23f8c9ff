---------------------------- MODULE Subscription ----------------------------
(***************************************************************************)
(* A rider's VIP subscription: plan charges created behind a guard, paid   *)
(* at the SePay gateway, and turned into days by the payment notification  *)
(* (subscriptionService and its half of paymentService.handleSepayIpn).    *)
(*                                                                         *)
(* The gateway repeats a notification until it is answered, so a handler   *)
(* may run several times for a charge, at once or after a crash.           *)
(***************************************************************************)
EXTENDS Naturals, Sequences, FiniteSets

CONSTANTS
  Requests,    \* slots for notifications being handled
  PlanIds,     \* the plans on sale
  Days,        \* Days[plan]
  History,     \* how many paymentIds a subscription remembers
  MaxCharges,  \* bound: plan charges ever created
  MaxDay,      \* bound: the last day of the clock
  MaxFailures  \* bound: calls that throw and instances that die

ASSUME SubscriptionAssumption ==
  /\ Days \in [PlanIds -> Nat \ {0}]
  /\ {History, MaxCharges, MaxDay, MaxFailures} \subseteq Nat

Charges == 1..MaxCharges
NoCharge == 0

ReceivedStatuses == {"HELD", "PARTIAL"}
ActiveStatuses == ReceivedStatuses \union {"PENDING"}

VARIABLES
  renewal,   \* the subscription payments: plan and status, in order of createdAt
  guard,     \* guard[plan]: the charge payment_guards/SUB-{uid}-{plan} names
  sub,       \* users/{uid}.subscription: expiresAt and paymentIds
  gateway,   \* gateway[c]: whether the order is paid, and its notification answered
  granted,   \* granted[c]: how often the charge extended the subscription (history)
  now,       \* the clock
  failures,  \* how many failures there were
  ipn        \* ipn[r]: the notification being handled in slot r

subVars == <<renewal, guard, sub, gateway, granted, now, failures, ipn>>

Idle == [pc |-> "idle", c |-> NoCharge, day |-> 0]

SubInit ==
  /\ renewal = <<>>
  /\ guard = [p \in PlanIds |-> NoCharge]
  /\ sub = [expires |-> 0, ids |-> <<>>]
  /\ gateway = [c \in Charges |-> "unpaid"]
  /\ granted = [c \in Charges |-> 0]
  /\ now = 0 /\ failures = 0
  /\ ipn = [r \in Requests |-> Idle]

-----------------------------------------------------------------------------
At(r, pc) == ipn[r].pc = pc
Goto(r, next) == ipn' = [ipn EXCEPT ![r] = next]
PlanOf(c) == renewal[c].plan

Guarded(p) == \E c \in DOMAIN renewal : guard[p] = c /\ renewal[c].status \in ActiveStatuses

\* POST /payments/create with a planId: createGuarded is one transaction, and
\* an active charge that the guard names is returned instead of a new one.
CreateRenewal(p) ==
  /\ Len(renewal) < MaxCharges /\ ~Guarded(p)
  /\ renewal' = Append(renewal, [plan |-> p, status |-> "PENDING"])
  /\ guard' = [guard EXCEPT ![p] = Len(renewal) + 1]
  /\ UNCHANGED <<sub, gateway, granted, now, failures, ipn>>

\* The rider pays the order at the gateway.
Pay(c) ==
  /\ gateway[c] = "unpaid"
  /\ gateway' = [gateway EXCEPT ![c] = "paid"]
  /\ UNCHANGED <<renewal, guard, sub, granted, now, failures, ipn>>

\* A refund of a received charge (module Payments has its steps).  A full one clears
\* the guard that names the charge, unless the instance dies before.
Refund(c, to) ==
  /\ renewal[c].status \in ReceivedStatuses
  /\ renewal' = [renewal EXCEPT ![c].status = to]
  /\ \/ UNCHANGED guard
     \/ /\ to = "REFUNDED" /\ guard[PlanOf(c)] = c
        /\ guard' = [guard EXCEPT ![PlanOf(c)] = NoCharge]
  /\ UNCHANGED <<sub, gateway, granted, now, failures, ipn>>

Tick ==
  /\ now < MaxDay
  /\ now' = now + 1
  /\ UNCHANGED <<renewal, guard, sub, gateway, granted, failures, ipn>>

-----------------------------------------------------------------------------
(* handleSepayIpn for a subscription charge.                               *)

\* Mutant of IpnRead: a charge that is HELD is answered at once.
IpnReadHeldDone(r, c) ==
  /\ At(r, "idle") /\ gateway[c] # "unpaid"
  /\ IF renewal[c].status = "HELD"
     THEN gateway' = [gateway EXCEPT ![c] = "answered"] /\ UNCHANGED ipn
     ELSE renewal[c].status = "PENDING" /\ Goto(r, [Idle EXCEPT !.pc = "hold", !.c = c])
          /\ UNCHANGED gateway
  /\ UNCHANGED <<renewal, guard, sub, granted, now, failures>>

\* Mutant of IpnRead: only a PENDING charge is accepted.
IpnReadPending(r, c) ==
  /\ At(r, "idle") /\ gateway[c] # "unpaid"
  /\ renewal[c].status = "PENDING"
  /\ Goto(r, [Idle EXCEPT !.c = c, !.pc = "hold"])
  /\ UNCHANGED <<renewal, guard, sub, gateway, granted, now, failures>>

\* A HELD charge is activated again, a PENDING one is held first; any other
\* status is an error, and the notification stays unanswered.
IpnRead(r, c) ==
  /\ At(r, "idle") /\ gateway[c] # "unpaid"
  /\ renewal[c].status \in {"HELD", "PENDING"}
  /\ Goto(r, [Idle EXCEPT !.c = c, !.pc = IF renewal[c].status = "HELD" THEN "clock" ELSE "hold"])
  /\ UNCHANGED <<renewal, guard, sub, gateway, granted, now, failures>>

IpnHold(r) ==
  /\ At(r, "hold")
  /\ renewal' = [renewal EXCEPT ![ipn[r].c].status = "HELD"]
  /\ Goto(r, [ipn[r] EXCEPT !.pc = "clock"])
  /\ UNCHANGED <<guard, sub, gateway, granted, now, failures>>

\* activate takes the time before its transaction ...
ReadClock(r) ==
  /\ At(r, "clock")
  /\ Goto(r, [ipn[r] EXCEPT !.pc = "activate", !.day = now])
  /\ UNCHANGED <<renewal, guard, sub, gateway, granted, now, failures>>

\* Mutant of Activated: only the last charge is looked at.
ActivatedLast(c) == sub.ids # <<>> /\ sub.ids[Len(sub.ids)] = c

Activated(c) == \E i \in DOMAIN sub.ids : sub.ids[i] = c

\* What is left of the current term is kept.
Base(day) == IF sub.expires > day THEN sub.expires ELSE day

\* The newest History entries of the list with c appended.
Remember(ids, c) ==
  LET longer == Append(ids, c) IN
  IF Len(longer) > History THEN SubSeq(longer, Len(longer) - History + 1, Len(longer)) ELSE longer

\* ... and the transaction extends the subscription, unless it knows the charge.
Activate(r) ==
  /\ At(r, "activate")
  /\ LET c == ipn[r].c IN
     IF Activated(c) THEN UNCHANGED <<sub, granted>>
     ELSE /\ sub' = [expires |-> Base(ipn[r].day) + Days[PlanOf(c)], ids |-> Remember(sub.ids, c)]
          /\ granted' = [granted EXCEPT ![c] = @ + 1]
  /\ Goto(r, [ipn[r] EXCEPT !.pc = "guard"])
  /\ UNCHANGED <<renewal, guard, gateway, now, failures>>

\* clearGuard reads the guard and deletes it later; then the answer is 200.
Answer(r) ==
  /\ Goto(r, Idle)
  /\ gateway' = [gateway EXCEPT ![ipn[r].c] = "answered"]

GuardRead(r) ==
  /\ At(r, "guard")
  /\ IF guard[PlanOf(ipn[r].c)] = ipn[r].c
     THEN Goto(r, [ipn[r] EXCEPT !.pc = "delete"]) /\ UNCHANGED gateway
     ELSE Answer(r)
  /\ UNCHANGED <<renewal, guard, sub, granted, now, failures>>

\* Mutant of GuardDelete: the guard of the activated charge is left behind.
GuardKeep(r) ==
  /\ At(r, "delete")
  /\ Answer(r)
  /\ UNCHANGED <<renewal, guard, sub, granted, now, failures>>

GuardDelete(r) ==
  /\ At(r, "delete")
  /\ guard' = [guard EXCEPT ![PlanOf(ipn[r].c)] = NoCharge]
  /\ Answer(r)
  /\ UNCHANGED <<renewal, sub, granted, now, failures>>

Fail == failures < MaxFailures /\ failures' = failures + 1

\* clearGuard threw; activateFromPayment ignores that, and the answer is 200.
GuardFails(r) ==
  /\ At(r, "guard") \/ At(r, "delete")
  /\ Fail /\ Answer(r)
  /\ UNCHANGED <<renewal, guard, sub, granted, now>>

\* Any other call threw, or the instance died: there is no answer.
Abort(r) ==
  /\ ~At(r, "idle")
  /\ Fail /\ Goto(r, Idle)
  /\ UNCHANGED <<renewal, guard, sub, gateway, granted, now>>

-----------------------------------------------------------------------------
Handle(r) == IpnHold(r) \/ ReadClock(r) \/ Activate(r) \/ GuardRead(r) \/ GuardDelete(r)

SubNext ==
  \/ Tick
  \/ \E p \in PlanIds : CreateRenewal(p)
  \/ \E c \in DOMAIN renewal :
       \/ Pay(c)
       \/ \E to \in {"PARTIAL", "REFUNDED"} : Refund(c, to)
       \/ \E r \in Requests : IpnRead(r, c)
  \/ \E r \in Requests : Handle(r) \/ GuardFails(r) \/ Abort(r)

SubSpec == SubInit /\ [][SubNext]_subVars

\* An unanswered notification is sent again; a handler that was started runs.
Redeliver(r, c) == c \in DOMAIN renewal /\ gateway[c] = "paid" /\ IpnRead(r, c)
SubFairness ==
  /\ \A r \in Requests : WF_subVars(Handle(r))
  /\ \A c \in Charges : SF_subVars(\E r \in Requests : Redeliver(r, c))
FairSpec == SubSpec /\ SubFairness

-----------------------------------------------------------------------------
TypeOK ==
  /\ Len(renewal) <= MaxCharges
  /\ \A c \in DOMAIN renewal : /\ renewal[c].plan \in PlanIds
                              /\ renewal[c].status \in ActiveStatuses \union {"REFUNDED"}
  /\ guard \in [PlanIds -> 0..Len(renewal)]
  /\ sub.expires \in Nat /\ Len(sub.ids) <= History /\ sub.ids \in Seq(1..Len(renewal))
  /\ \A i, j \in DOMAIN sub.ids : sub.ids[i] = sub.ids[j] => i = j
  /\ gateway \in [Charges -> {"unpaid", "paid", "answered"}]
  /\ granted \in [Charges -> Nat]
  /\ now \in 0..MaxDay /\ failures \in 0..MaxFailures
  /\ \A r \in Requests :
       /\ ipn[r].pc \in {"idle", "hold", "clock", "activate", "guard", "delete"}
       /\ ipn[r].c \in 0..Len(renewal) /\ ipn[r].pc # "idle" => ipn[r].c # NoCharge
       /\ ipn[r].day \in 0..MaxDay

\* One payment extends the subscription once, however often, how late and how
\* concurrently its notification is delivered.
GrantedOnce == \A c \in Charges : granted[c] <= 1

\* A notification that was answered did extend the subscription: there is no
\* failure after which the gateway stops and the rider has paid for nothing.
AnsweredIsGranted == \A c \in Charges : gateway[c] = "answered" => granted[c] > 0

\* What was paid is granted, or refunded before it could be.  Then the plan's guard
\* stops naming the charge, so that the rider can renew it, as long as no call fails:
\* nothing repeats clearGuard.
PaidIsGranted ==
  /\ \A c \in Charges :
       gateway[c] = "paid" ~>
         granted[c] > 0 \/ (c \in DOMAIN renewal /\ renewal[c].status \in {"PARTIAL", "REFUNDED"})
  /\ [](failures = 0) =>
       \A c \in Charges :
         granted[c] > 0 ~>
           /\ c \in DOMAIN renewal
           /\ guard[PlanOf(c)] # c \/ renewal[c].status \in {"PARTIAL", "REFUNDED"}
=============================================================================
