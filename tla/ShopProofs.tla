----------------------------- MODULE ShopProofs -----------------------------
(***************************************************************************)
(* Theorems about what a shop does: about Subscription, for any plans, charges and *)
(* histories, and about its repairs (Shop and Aftercare), for any prices, any  *)
(* number of charges, tows and faults, and any number of calls.               *)
(***************************************************************************)
EXTENDS Subscription, Aftercare, FiniteSetTheorems, SequenceTheorems, WellFoundedInduction, TLAPS

Points == {"idle", "hold", "clock", "activate", "guard", "delete"}
ChargeDoc == [plan : PlanIds, status : ActiveStatuses \union {"REFUNDED"}]
RequestDoc == [pc : Points, c : Nat, day : 0..MaxDay]

Shape ==
  /\ renewal \in Seq(ChargeDoc) /\ Len(renewal) <= MaxCharges
  /\ guard \in [PlanIds -> 0..Len(renewal)]
  /\ sub \in [expires : Nat, ids : Seq(1..Len(renewal))]
  /\ gateway \in [Charges -> {"unpaid", "paid", "answered"}]
  /\ granted \in [Charges -> Nat]
  /\ now \in 0..MaxDay /\ failures \in 0..MaxFailures
  /\ ipn \in [Requests -> RequestDoc]

Distinct(ids) == \A i, j \in 1..Len(ids) : ids[i] = ids[j] => i = j

\* new is the end of ids followed by c.
EndOf(new, ids, c) ==
  \E k \in Nat : \A i \in 1..Len(new) :
    /\ i + k \in 1..(Len(ids) + 1)
    /\ new[i] = IF i + k = Len(ids) + 1 THEN c ELSE ids[i + k]

Lacks(ids, c) == \A i \in 1..Len(ids) : ids[i] # c
NamesOnly(new, ids, c) == \A i \in 1..Len(new) : new[i] = c \/ \E j \in 1..Len(ids) : new[i] = ids[j]

\* The subscription lists a charge once, and no more than it may remember.
IdsInv ==
  /\ Len(sub.ids) <= History
  /\ Distinct(sub.ids)
  /\ \A i \in 1..Len(sub.ids) : granted[sub.ids[i]] > 0

\* A handler works on a charge that exists; past its transaction the charge is granted.
Sound(q) ==
  /\ q.pc # "idle" => q.c \in 1..Len(renewal)
  /\ q.c \in 0..Len(renewal)
  /\ q.pc \in {"guard", "delete"} => granted[q.c] > 0
RequestInv == \A r \in Requests : Sound(ipn[r])

IInv == Shape /\ IdsInv /\ RequestInv /\ AnsweredIsGranted

-----------------------------------------------------------------------------
LEMMA Facts ==
  ASSUME Shape
  PROVE  /\ Len(renewal) \in Nat /\ DOMAIN renewal = 1..Len(renewal) /\ 1..Len(renewal) \subseteq Charges
         /\ Len(sub.ids) \in Nat /\ DOMAIN sub.ids = 1..Len(sub.ids)
         /\ sub.ids \in Seq(1..Len(renewal)) /\ sub.expires \in Nat
         /\ \A c \in 1..Len(renewal) : renewal[c] \in ChargeDoc /\ Days[PlanOf(c)] \in Nat \ {0}
<1>1. Len(renewal) \in Nat /\ DOMAIN renewal = 1..Len(renewal) /\ Len(renewal) <= MaxCharges
  BY LenProperties DEF Shape
<1>2. sub.ids \in Seq(1..Len(renewal)) /\ sub.expires \in Nat
  BY DEF Shape
<1>3. Len(sub.ids) \in Nat /\ DOMAIN sub.ids = 1..Len(sub.ids)
  BY <1>2, LenProperties
<1>4. ASSUME NEW c \in 1..Len(renewal) PROVE renewal[c] \in ChargeDoc /\ Days[PlanOf(c)] \in Nat \ {0}
  <2>1. renewal[c] \in ChargeDoc
    BY ElementOfSeq DEF Shape
  <2> QED
    BY <2>1, SubscriptionAssumption DEF ChargeDoc, PlanOf
<1> QED
  BY <1>1, <1>2, <1>3, <1>4, SubscriptionAssumption DEF Charges

LEMMA InitIInv == SubInit => IInv
<1> SUFFICES ASSUME SubInit PROVE IInv
  OBVIOUS
<1>1. Idle \in RequestDoc /\ Len(<<>>) = 0 /\ \A S : <<>> \in Seq(S)
  BY EmptySeq, SubscriptionAssumption DEF Idle, RequestDoc, Points, NoCharge
<1>2. Shape
  BY <1>1, SubscriptionAssumption DEF SubInit, Shape, NoCharge
<1>3. IdsInv /\ RequestInv /\ AnsweredIsGranted
  BY <1>1, SubscriptionAssumption
     DEF SubInit, IdsInv, RequestInv, Sound, Idle, NoCharge, AnsweredIsGranted, Distinct
<1> QED
  BY <1>2, <1>3 DEF IInv

\* A step of a request that forgets nothing and changes no document but its charge's status.
LEMMA RequestMoves ==
  ASSUME IInv, NEW r \in Requests, NEW q \in RequestDoc, Sound(q), Goto(r, q),
         renewal' \in Seq(ChargeDoc), Len(renewal') = Len(renewal),
         guard' \in [PlanIds -> 0..Len(renewal)],
         gateway' \in [Charges -> {"unpaid", "paid", "answered"}],
         AnsweredIsGranted', failures' \in 0..MaxFailures,
         UNCHANGED <<sub, granted, now>>
  PROVE  IInv'
<1>1. ipn' \in [Requests -> RequestDoc] /\ RequestInv'
  BY DEF IInv, Shape, Goto, RequestInv, Sound
<1>2. Shape' /\ IdsInv'
  BY <1>1 DEF IInv, Shape, IdsInv
<1> QED
  BY <1>1, <1>2 DEF IInv

LEMMA IdleIsRequest == ASSUME IInv PROVE Idle \in RequestDoc /\ Sound(Idle)
  BY Facts, SubscriptionAssumption DEF IInv, Idle, RequestDoc, Points, Sound, NoCharge

\* What the rider, the gateway and the clock do.
LEMMA OutsideStep ==
  ASSUME IInv,
         \/ Tick
         \/ \E p \in PlanIds : CreateRenewal(p)
         \/ \E c \in DOMAIN renewal : Pay(c) \/ \E to \in {"PARTIAL", "REFUNDED"} : Refund(c, to)
  PROVE  IInv'
<1>0. /\ Len(renewal) \in Nat /\ DOMAIN renewal = 1..Len(renewal) /\ 1..Len(renewal) \subseteq Charges
      /\ renewal \in Seq(ChargeDoc) /\ Len(renewal) <= MaxCharges
  BY Facts DEF IInv, Shape
<1>1. CASE Tick
  <2>1. now' \in 0..MaxDay
    BY <1>1, SubscriptionAssumption DEF Tick, IInv, Shape
  <2>2. UNCHANGED <<renewal, guard, sub, gateway, granted, failures, ipn>>
    BY <1>1 DEF Tick
  <2>3. Shape'
    BY <2>1, <2>2 DEF IInv, Shape
  <2>4. IdsInv' /\ RequestInv' /\ AnsweredIsGranted'
    BY <2>2 DEF IInv, IdsInv, RequestInv, Sound, AnsweredIsGranted
  <2> QED
    BY <2>3, <2>4 DEF IInv
<1>2. ASSUME NEW p \in PlanIds, CreateRenewal(p) PROVE IInv'
  <2> DEFINE d == [plan |-> p, status |-> "PENDING"]
             n == Len(renewal) + 1
  <2>1. d \in ChargeDoc
    BY DEF ChargeDoc, ActiveStatuses
  <2> HIDE DEF d
  <2>2. renewal' \in Seq(ChargeDoc) /\ Len(renewal') = n /\ Len(renewal) < MaxCharges
    BY <1>0, <1>2, <2>1, AppendProperties DEF CreateRenewal, d
  <2>3. n \in Nat /\ n <= MaxCharges /\ 1..Len(renewal) \subseteq 1..n /\ 0..Len(renewal) \subseteq 0..n
    BY <1>0, <2>2, SubscriptionAssumption
  <2> HIDE DEF n
  <2>4. guard' \in [PlanIds -> 0..n]
    <3>1. guard' = [guard EXCEPT ![p] = n]
      BY <1>2 DEF CreateRenewal, n
    <3> QED
      BY <2>3, <3>1 DEF IInv, Shape
  <2>5. sub' \in [expires : Nat, ids : Seq(1..n)]
    <3>1. sub.ids \in Seq(1..n)
      BY <2>3, Facts, SeqMonotonic DEF IInv
    <3> QED
      BY <1>2, <3>1 DEF CreateRenewal, IInv, Shape
  <2>6. Shape'
    BY <1>2, <2>2, <2>3, <2>4, <2>5 DEF CreateRenewal, IInv, Shape
  <2>7. RequestInv'
    BY <1>2, <2>2, <2>3 DEF CreateRenewal, IInv, RequestInv, Sound
  <2>8. IdsInv' /\ AnsweredIsGranted'
    BY <1>2 DEF CreateRenewal, IInv, IdsInv, AnsweredIsGranted
  <2> QED
    BY <2>6, <2>7, <2>8 DEF IInv
<1>3. ASSUME NEW c \in DOMAIN renewal, Pay(c) PROVE IInv'
  BY <1>0, <1>3 DEF Pay, IInv, Shape, IdsInv, RequestInv, Sound, AnsweredIsGranted
<1>4. ASSUME NEW c \in DOMAIN renewal, NEW to \in {"PARTIAL", "REFUNDED"}, Refund(c, to) PROVE IInv'
  <2> DEFINE d == [renewal[c] EXCEPT !.status = to]
  <2>1. renewal[c] \in ChargeDoc
    BY <1>0, Facts DEF IInv
  <2>2. d \in ChargeDoc
    BY <2>1 DEF ChargeDoc, ActiveStatuses, ReceivedStatuses
  <2>3. renewal' = [renewal EXCEPT ![c] = d]
    BY <1>4 DEF Refund
  <2> HIDE DEF d
  <2>4. renewal' \in Seq(ChargeDoc) /\ Len(renewal') = Len(renewal)
    BY <1>0, <2>2, <2>3, ExceptSeq
  <2>5. guard' \in [PlanIds -> 0..Len(renewal)]
    BY <1>0, <1>4 DEF Refund, NoCharge, IInv, Shape
  <2>6. UNCHANGED <<sub, gateway, granted, now, failures, ipn>>
    BY <1>4 DEF Refund
  <2>7. Shape'
    BY <2>4, <2>5, <2>6 DEF IInv, Shape
  <2> QED
    BY <2>4, <2>6, <2>7 DEF IInv, IdsInv, RequestInv, Sound, AnsweredIsGranted
<1> QED
  BY <1>1, <1>2, <1>3, <1>4

\* The notification up to the transaction, and after it.
LEMMA NotificationStep ==
  ASSUME IInv, NEW r \in Requests,
         \/ \E c \in DOMAIN renewal : IpnRead(r, c)
         \/ IpnHold(r) \/ ReadClock(r) \/ GuardRead(r) \/ GuardDelete(r)
         \/ GuardFails(r) \/ Abort(r)
  PROVE  IInv'
<1>0. /\ ipn[r] \in RequestDoc /\ Sound(ipn[r]) /\ Idle \in RequestDoc /\ Sound(Idle)
      /\ Len(renewal) \in Nat /\ DOMAIN renewal = 1..Len(renewal) /\ 1..Len(renewal) \subseteq Charges
      /\ renewal \in Seq(ChargeDoc) /\ guard \in [PlanIds -> 0..Len(renewal)]
      /\ gateway \in [Charges -> {"unpaid", "paid", "answered"}] /\ AnsweredIsGranted
      /\ failures \in 0..MaxFailures
  BY Facts, IdleIsRequest DEF IInv, Shape, RequestInv
<1>1. ASSUME NEW c \in DOMAIN renewal, IpnRead(r, c) PROVE IInv'
  <2> DEFINE pc == IF renewal[c].status = "HELD" THEN "clock" ELSE "hold"
             q == [Idle EXCEPT !.c = c, !.pc = pc]
  <2>1. q \in RequestDoc /\ Sound(q)
    <3>1. c \in 1..Len(renewal) /\ c \in 0..Len(renewal) /\ c \in Nat /\ pc \in {"clock", "hold"}
      BY <1>0
    <3> HIDE DEF pc
    <3> QED
      BY <1>0, <3>1 DEF RequestDoc, Sound, Points, Idle
  <2>2. Goto(r, q) /\ UNCHANGED <<renewal, guard, sub, gateway, granted, now, failures>>
    BY <1>1 DEF IpnRead
  <2> HIDE DEF q
  <2> QED
    BY <1>0, <2>1, <2>2, RequestMoves DEF AnsweredIsGranted
<1>2. CASE IpnHold(r)
  <2> DEFINE d == [renewal[ipn[r].c] EXCEPT !.status = "HELD"]
             q == [ipn[r] EXCEPT !.pc = "clock"]
  <2>1. ipn[r].c \in 1..Len(renewal)
    BY <1>0, <1>2 DEF IpnHold, At, Sound
  <2>2. renewal[ipn[r].c] \in ChargeDoc
    BY <2>1, Facts DEF IInv
  <2>3. d \in ChargeDoc
    BY <2>2 DEF ChargeDoc, ActiveStatuses, ReceivedStatuses
  <2>4. renewal' = [renewal EXCEPT ![ipn[r].c] = d] /\ Goto(r, q)
        /\ UNCHANGED <<guard, sub, gateway, granted, now, failures>>
    BY <1>2 DEF IpnHold
  <2>5. q \in RequestDoc /\ Sound(q)
    BY <1>0, <1>2 DEF IpnHold, At, RequestDoc, Sound, Points
  <2> HIDE DEF d, q
  <2>6. renewal' \in Seq(ChargeDoc) /\ Len(renewal') = Len(renewal)
    BY <1>0, <2>1, <2>3, <2>4, ExceptSeq
  <2> QED
    BY <1>0, <2>4, <2>5, <2>6, RequestMoves DEF AnsweredIsGranted
<1>3. CASE ReadClock(r)
  <2> DEFINE q == [ipn[r] EXCEPT !.pc = "activate", !.day = now]
  <2>1. q \in RequestDoc /\ Sound(q)
    BY <1>0, <1>3 DEF ReadClock, At, RequestDoc, Sound, Points, IInv, Shape
  <2>2. Goto(r, q) /\ UNCHANGED <<renewal, guard, sub, gateway, granted, now, failures>>
    BY <1>3 DEF ReadClock
  <2> HIDE DEF q
  <2> QED
    BY <1>0, <2>1, <2>2, RequestMoves DEF AnsweredIsGranted
\* A request that ends, with an answer or without.
<1>a. ASSUME At(r, "guard") \/ At(r, "delete"), Answer(r)
      PROVE  /\ gateway' \in [Charges -> {"unpaid", "paid", "answered"}]
             /\ UNCHANGED granted => AnsweredIsGranted'
  <2>1. granted[ipn[r].c] > 0
    BY <1>0, <1>a DEF At, Sound
  <2> QED
    BY <1>0, <1>a, <2>1 DEF Answer, AnsweredIsGranted
<1>4. CASE GuardRead(r)
  <2> DEFINE q == [ipn[r] EXCEPT !.pc = "delete"]
  <2>1. q \in RequestDoc /\ Sound(q)
    BY <1>0, <1>4 DEF GuardRead, At, RequestDoc, Sound, Points
  <2>2. UNCHANGED <<renewal, guard, sub, granted, now, failures>> /\ At(r, "guard")
    BY <1>4 DEF GuardRead
  <2>3. CASE Goto(r, q) /\ UNCHANGED gateway
    <3> HIDE DEF q
    <3> QED
      BY <1>0, <2>1, <2>2, <2>3, RequestMoves DEF AnsweredIsGranted
  <2>4. CASE Answer(r)
    BY <1>0, <1>a, <2>2, <2>4, RequestMoves DEF Answer
  <2> QED
    BY <1>4, <2>3, <2>4 DEF GuardRead
<1>5. CASE GuardDelete(r)
  <2>1. guard' \in [PlanIds -> 0..Len(renewal)]
    <3>1. guard' = [guard EXCEPT ![PlanOf(ipn[r].c)] = 0] /\ 0 \in 0..Len(renewal)
      BY <1>0, <1>5 DEF GuardDelete, NoCharge
    <3> QED
      BY <1>0, <3>1
  <2> QED
    BY <1>0, <1>5, <1>a, <2>1, RequestMoves DEF Answer, GuardDelete
<1>6. CASE GuardFails(r)
  <2>1. failures' \in 0..MaxFailures
    BY <1>0, <1>6, SubscriptionAssumption DEF GuardFails, Fail
  <2> QED
    BY <1>0, <1>6, <1>a, <2>1, RequestMoves DEF Answer, GuardFails
<1>7. CASE Abort(r)
  <2>1. failures' \in 0..MaxFailures
    BY <1>0, <1>7, SubscriptionAssumption DEF Abort, Fail
  <2> QED
    BY <1>0, <1>7, <2>1, RequestMoves DEF Abort, AnsweredIsGranted
<1> QED
  BY <1>1, <1>2, <1>3, <1>4, <1>5, <1>6, <1>7

\* The list after the transaction: c is last, and the newest entries before it are kept.
LEMMA Remembered ==
  ASSUME NEW S, NEW ids \in Seq(S), NEW c \in S
  PROVE  /\ Remember(ids, c) \in Seq(S)
         /\ Len(Remember(ids, c)) = IF Len(ids) + 1 > History THEN History ELSE Len(ids) + 1
         /\ EndOf(Remember(ids, c), ids, c)
         /\ Len(ids) < History => Remember(ids, c) = Append(ids, c)
<1> DEFINE longer == Append(ids, c)
           n == Len(ids) + 1
<1>1. /\ longer \in Seq(S) /\ Len(longer) = n /\ n \in Nat
      /\ \A i \in 1..n : longer[i] = IF i = n THEN c ELSE ids[i]
  BY AppendProperties, LenProperties
<1>2. CASE n > History
  <2> DEFINE kept == SubSeq(longer, n - History + 1, n)
  <2>1. History \in Nat /\ n - History + 1 \in 1..n + 1 /\ n - History \in Nat
    BY <1>1, <1>2, SubscriptionAssumption
  <2>2. \A i \in n - History + 1..n : longer[i] \in S
    BY <1>1, <2>1, ElementOfSeq
  <2>3. /\ kept \in Seq(S)
        /\ Len(kept) = IF n - History + 1 <= n THEN n - (n - History + 1) + 1 ELSE 0
        /\ \A i \in 1..(n - (n - History + 1) + 1) : kept[i] = longer[n - History + 1 + i - 1]
    <3>1. n - History + 1 \in Int /\ n \in Int
      BY <1>1, <2>1
    <3> HIDE DEF longer, n
    <3> QED
      BY <2>2, <3>1, SubSeqProperties
  <2>4. Len(kept) = History /\ \A i \in 1..History : kept[i] = longer[i + (n - History)]
    <3>1. n - (n - History + 1) + 1 = History /\ \A i \in 1..History : n - History + 1 + i - 1 = i + (n - History)
      BY <1>1, <2>1
    <3>2. n - History + 1 <= n <=> History >= 1
      BY <1>1, <2>1
    <3>3. Len(kept) = History
      BY <2>1, <2>3, <3>1, <3>2
    <3> HIDE DEF kept, longer, n
    <3> QED
      BY <2>3, <3>1, <3>3
  <2>5. Remember(ids, c) = kept
    BY <1>1, <1>2 DEF Remember
  <2>6. \A i \in 1..History : /\ i + (n - History) \in 1..n
                               /\ kept[i] = IF i + (n - History) = n THEN c ELSE ids[i + (n - History)]
    <3>1. \A i \in 1..History : i + (n - History) \in 1..n
      BY <1>1, <2>1
    <3> HIDE DEF kept, longer, n
    <3> QED
      BY <1>1, <2>4, <3>1
  <2>7. ~(Len(ids) < History) /\ Len(ids) + 1 > History
    BY <1>1, <1>2, <2>1, LenProperties
  <2> HIDE DEF kept
  <2> QED
    BY <2>1, <2>3, <2>4, <2>5, <2>6, <2>7 DEF EndOf
<1>3. CASE ~(n > History)
  <2>1. Remember(ids, c) = longer
    BY <1>1, <1>3 DEF Remember
  <2>2. \A i \in 1..n : i + 0 \in 1..n /\ longer[i] = IF i + 0 = n THEN c ELSE ids[i + 0]
    BY <1>1
  <2>3. 0 \in Nat
    OBVIOUS
  <2> HIDE DEF longer
  <2>4. EndOf(longer, ids, c)
    BY <1>1, <2>2, <2>3 DEF EndOf
  <2> QED
    BY <1>1, <1>3, <2>1, <2>4 DEF longer
<1> QED
  BY <1>2, <1>3

\* The list stays free of repetitions, and names nothing but c that it did not name before.
LEMMA ListGrows ==
  ASSUME NEW S, NEW ids \in Seq(S), NEW c \in S,
         Len(ids) <= History, Lacks(ids, c), Distinct(ids)
  PROVE  /\ Remember(ids, c) \in Seq(S) /\ Len(Remember(ids, c)) <= History
         /\ Distinct(Remember(ids, c)) /\ NamesOnly(Remember(ids, c), ids, c)
<1> DEFINE new == Remember(ids, c)
<1>1. Len(ids) \in Nat
  BY LenProperties
<1>2. new \in Seq(S) /\ Len(new) <= History
  BY <1>1, Remembered, SubscriptionAssumption
<1>3. EndOf(new, ids, c)
  BY Remembered
<1> HIDE DEF new
<1>4. PICK k \in Nat : \A i \in 1..Len(new) :
             /\ i + k \in 1..(Len(ids) + 1)
             /\ new[i] = IF i + k = Len(ids) + 1 THEN c ELSE ids[i + k]
  BY <1>3 DEF EndOf
<1>5. ASSUME NEW i \in 1..Len(new)
      PROVE  \/ i + k = Len(ids) + 1 /\ new[i] = c
             \/ i + k \in 1..Len(ids) /\ new[i] = ids[i + k] /\ new[i] # c
  <2>1. i + k \in 1..(Len(ids) + 1) /\ new[i] = IF i + k = Len(ids) + 1 THEN c ELSE ids[i + k]
    BY <1>4
  <2>2. CASE i + k = Len(ids) + 1
    BY <2>1, <2>2
  <2>3. CASE i + k # Len(ids) + 1
    <3>1. i + k \in 1..Len(ids)
      BY <1>1, <2>1, <2>3
    <3> QED
      BY <2>1, <2>3, <3>1 DEF Lacks
  <2> QED
    BY <2>2, <2>3
<1>6. ASSUME NEW i \in 1..Len(new), NEW j \in 1..Len(new), new[i] = new[j] PROVE i = j
  <2>1. i + k = j + k
    BY <1>5, <1>6 DEF Distinct
  <2> QED
    BY <2>1, <1>4
<1> QED
  BY <1>2, <1>5, <1>6 DEF new, Distinct, NamesOnly

\* The transaction's outcome when it extends the subscription.
LEMMA Extension ==
  ASSUME IInv, NEW r \in Requests, Activate(r), ~Activated(ipn[r].c)
  PROVE  /\ ipn[r].c \in 1..Len(renewal) /\ ipn[r].c \in Charges
         /\ sub' = [expires |-> Base(ipn[r].day) + Days[PlanOf(ipn[r].c)],
                    ids |-> Remember(sub.ids, ipn[r].c)]
         /\ Base(ipn[r].day) \in Nat /\ Base(ipn[r].day) >= sub.expires
         /\ Days[PlanOf(ipn[r].c)] \in Nat
         /\ granted' = [granted EXCEPT ![ipn[r].c] = granted[ipn[r].c] + 1]
<1>1. ipn[r] \in RequestDoc /\ Sound(ipn[r]) /\ ipn[r].pc = "activate"
  BY DEF IInv, Shape, RequestInv, Activate, At
<1>2. ipn[r].c \in 1..Len(renewal) /\ ipn[r].day \in Nat
  BY <1>1, SubscriptionAssumption DEF Sound, RequestDoc
<1>3. Base(ipn[r].day) \in Nat /\ Base(ipn[r].day) >= sub.expires
  BY <1>2, Facts DEF Base, IInv
<1> QED
  BY <1>2, <1>3, Facts DEF Activate, IInv

LEMMA ActivateStep ==
  ASSUME IInv, NEW r \in Requests, Activate(r)
  PROVE  IInv'
<1> DEFINE c == ipn[r].c
           q == [ipn[r] EXCEPT !.pc = "guard"]
<1>1. ipn[r] \in RequestDoc /\ Sound(ipn[r]) /\ ipn[r].pc = "activate"
  BY DEF IInv, Shape, RequestInv, Activate, At
<1>2. c \in 1..Len(renewal) /\ c \in Charges /\ granted \in [Charges -> Nat]
  BY <1>1, Facts DEF Sound, IInv, Shape
<1>3. UNCHANGED <<renewal, guard, gateway, now, failures>> /\ Goto(r, q) /\ q \in RequestDoc
  BY <1>1 DEF Activate, RequestDoc, Points
<1>4. CASE Activated(c)
  <2>1. granted[c] > 0
    BY <1>4, Facts DEF Activated, IInv, IdsInv
  <2>2. Sound(q)
    BY <1>1, <1>2, <2>1 DEF Sound, RequestDoc
  <2>3. UNCHANGED <<sub, granted>>
    BY <1>4 DEF Activate
  <2> HIDE DEF q, c
  <2> QED
    BY <1>3, <2>2, <2>3, RequestMoves DEF IInv, Shape, AnsweredIsGranted
<1>5. CASE ~Activated(c)
  <2> DEFINE ids == sub.ids
             new == Remember(ids, c)
  <2>1. /\ sub' = [expires |-> Base(ipn[r].day) + Days[PlanOf(c)], ids |-> new]
        /\ Base(ipn[r].day) + Days[PlanOf(c)] \in Nat
        /\ granted' = [granted EXCEPT ![c] = granted[c] + 1]
    BY <1>5, Extension
  <2>2. granted' \in [Charges -> Nat] /\ granted'[c] > 0 /\ \A d \in Charges : granted'[d] >= granted[d]
    BY <1>2, <2>1
  <2>3. /\ ids \in Seq(1..Len(renewal)) /\ Len(ids) \in Nat /\ Len(ids) <= History
        /\ Lacks(ids, c) /\ Distinct(ids)
        /\ \A i \in 1..Len(ids) : ids[i] \in 1..Len(renewal) /\ granted[ids[i]] > 0
    <3>1. ids \in Seq(1..Len(renewal)) /\ Len(ids) \in Nat /\ DOMAIN ids = 1..Len(ids)
      BY Facts DEF IInv
    <3>2. Lacks(ids, c)
      BY <1>5, <3>1 DEF Activated, Lacks
    <3>3. \A i \in 1..Len(ids) : ids[i] \in 1..Len(renewal)
      BY <3>1, ElementOfSeq
    <3> QED
      BY <3>1, <3>2, <3>3 DEF IInv, IdsInv
  <2>4. /\ new \in Seq(1..Len(renewal)) /\ Len(new) <= History
        /\ Distinct(new) /\ NamesOnly(new, ids, c)
    <3> HIDE DEF ids, c
    <3> QED
      BY <1>2, <2>3, ListGrows
  <2>5. PICK x \in Charges : x = c /\ x \in 1..Len(renewal)
    BY <1>2
  <2>6. granted' \in [Charges -> Nat] /\ granted'[x] > 0 /\ \A d \in Charges : granted'[d] >= granted[d]
    BY <2>2, <2>5
  <2>7. \A i \in 1..Len(new) : granted'[new[i]] > 0
    <3>1. 1..Len(renewal) \subseteq Charges
      BY Facts DEF IInv
    <3> HIDE DEF new, ids, c
    <3> SUFFICES ASSUME NEW i \in 1..Len(new) PROVE granted'[new[i]] > 0
      OBVIOUS
    <3>2. CASE new[i] = c
      BY <2>5, <2>6, <3>2
    <3>3. CASE \E j \in 1..Len(ids) : new[i] = ids[j]
      <4>1. new[i] \in Charges /\ granted[new[i]] > 0
        BY <2>3, <3>1, <3>3
      <4>2. granted'[new[i]] \in Nat /\ granted'[new[i]] >= granted[new[i]] /\ granted[new[i]] \in Nat
        BY <1>2, <2>6, <4>1
      <4> QED
        BY <4>1, <4>2
    <3> QED
      BY <2>4, <3>2, <3>3 DEF NamesOnly
  <2>8. IdsInv'
    <3>1. sub'.ids = new
      BY <2>1
    <3> HIDE DEF new, ids, c
    <3> QED
      BY <2>4, <2>7, <3>1 DEF IdsInv
  <2>9. ipn' \in [Requests -> RequestDoc] /\ RequestInv'
    <3>1. q.pc = "guard" /\ q.c = x /\ x \in 0..Len(renewal) /\ renewal' = renewal
      BY <1>1, <1>3, <2>5 DEF RequestDoc
    <3>2. ipn' = [ipn EXCEPT ![r] = q] /\ ipn \in [Requests -> RequestDoc]
      BY <1>3 DEF Goto, IInv, Shape
    <3>3. ipn' \in [Requests -> RequestDoc] /\ ipn'[r] = q /\ \A s \in Requests : s # r => ipn'[s] = ipn[s]
      BY <1>3, <3>2
    <3> HIDE DEF q, c
    <3>4. /\ ipn'[r].pc # "idle" => ipn'[r].c \in 1..Len(renewal')
          /\ ipn'[r].c \in 0..Len(renewal')
          /\ ipn'[r].pc \in {"guard", "delete"} => granted'[ipn'[r].c] > 0
      BY <2>5, <2>6, <3>1, <3>3
    <3>5. ASSUME NEW s \in Requests, s # r
          PROVE  /\ ipn'[s].pc # "idle" => ipn'[s].c \in 1..Len(renewal')
                 /\ ipn'[s].c \in 0..Len(renewal')
                 /\ ipn'[s].pc \in {"guard", "delete"} => granted'[ipn'[s].c] > 0
      <4>1. Sound(ipn[s]) /\ ipn'[s] = ipn[s] /\ 1..Len(renewal) \subseteq Charges
        BY <3>3, <3>5, Facts DEF IInv, RequestInv
      <4>2. ipn[s].pc \in {"guard", "delete"} => ipn[s].c \in Charges /\ granted[ipn[s].c] \in Nat
        BY <1>2, <4>1 DEF Sound
      <4>3. ipn[s].pc \in {"guard", "delete"} => granted'[ipn[s].c] > 0
        <5> SUFFICES ASSUME ipn[s].pc \in {"guard", "delete"} PROVE granted'[ipn[s].c] > 0
          OBVIOUS
        <5>1. granted'[ipn[s].c] \in Nat /\ granted'[ipn[s].c] >= granted[ipn[s].c] /\ granted[ipn[s].c] > 0
          BY <2>6, <4>1, <4>2 DEF Sound
        <5> QED
          BY <4>2, <5>1
      <4> QED
        BY <3>1, <4>1, <4>3 DEF Sound
    <3>6. ASSUME NEW s \in Requests PROVE Sound(ipn[s])'
      BY <3>4, <3>5 DEF Sound
    <3> QED
      BY <3>3, <3>6 DEF RequestInv
  <2>10. AnsweredIsGranted'
    BY <1>2, <1>3, <2>2 DEF IInv, AnsweredIsGranted
  <2>11. Shape'
    BY <1>3, <2>1, <2>2, <2>4, <2>9 DEF IInv, Shape
  <2> QED
    BY <2>8, <2>9, <2>10, <2>11 DEF IInv
<1> QED
  BY <1>4, <1>5

LEMMA Invariance == SubSpec => []IInv
<1>1. IInv /\ [SubNext]_subVars => IInv'
  <2> SUFFICES ASSUME IInv, [SubNext]_subVars PROVE IInv'
    OBVIOUS
  <2>1. CASE UNCHANGED subVars
    BY <2>1 DEF subVars, IInv, Shape, IdsInv, RequestInv, Sound, AnsweredIsGranted
  <2>2. ASSUME NEW r \in Requests, Handle(r) PROVE IInv'
    BY <2>2, NotificationStep, ActivateStep DEF Handle
  <2> QED
    BY <2>1, <2>2, OutsideStep, NotificationStep DEF SubNext
<1> QED
  BY <1>1, InitIInv, PTL DEF SubSpec

-----------------------------------------------------------------------------
(* The theorems. *)

\* Every document keeps its type, and the remembered charges are distinct and
\* no more than activate's slice keeps.
THEOREM Typing == SubSpec => []TypeOK
<1>1. IInv => TypeOK
  <2> SUFFICES ASSUME IInv PROVE TypeOK
    OBVIOUS
  <2>1. /\ \A c \in DOMAIN renewal : /\ renewal[c].plan \in PlanIds
                                    /\ renewal[c].status \in ActiveStatuses \union {"REFUNDED"}
        /\ Len(renewal) <= MaxCharges /\ guard \in [PlanIds -> 0..Len(renewal)]
    BY Facts DEF IInv, Shape, ChargeDoc
  <2>2. /\ sub.expires \in Nat /\ Len(sub.ids) <= History /\ sub.ids \in Seq(1..Len(renewal))
        /\ \A i, j \in DOMAIN sub.ids : sub.ids[i] = sub.ids[j] => i = j
    BY Facts DEF IInv, IdsInv, Distinct
  <2>3. ASSUME NEW r \in Requests
        PROVE  /\ ipn[r].pc \in {"idle", "hold", "clock", "activate", "guard", "delete"}
               /\ ipn[r].c \in 0..Len(renewal) /\ ipn[r].pc # "idle" => ipn[r].c # NoCharge
               /\ ipn[r].day \in 0..MaxDay
    <3>1. ipn[r] \in RequestDoc /\ Sound(ipn[r]) /\ Len(renewal) \in Nat
      BY Facts DEF IInv, Shape, RequestInv
    <3> QED
      BY <3>1 DEF RequestDoc, Points, Sound, NoCharge
  <2> QED
    BY <2>1, <2>2, <2>3 DEF TypeOK, IInv, Shape
<1> QED
  BY <1>1, Invariance, PTL

\* A notification is answered only after its charge extended the subscription,
\* whatever fails on the way: SePay goes on repeating it until then.
THEOREM PaidNotLost == SubSpec => []AnsweredIsGranted
<1>1. IInv => AnsweredIsGranted
  BY DEF IInv
<1> QED
  BY <1>1, Invariance, PTL

\* Where a subscription remembers every charge there will be, none that
\* extended it is ever forgotten.
Kept ==
  /\ \A c \in Charges : granted[c] \in {0, 1}
  /\ \A c \in Charges : granted[c] = 1 => ~Lacks(sub.ids, c)

\* A list of distinct charges other than c leaves room for c.
LEMMA RoomForOne ==
  ASSUME NEW ids \in Seq(Charges), NEW c \in Charges, Lacks(ids, c), Distinct(ids)
  PROVE  Len(ids) < MaxCharges
<1> DEFINE f == [i \in 1..Len(ids) |-> ids[i]]
           T == Charges \ {c}
<1>1. Len(ids) \in Nat /\ \A i \in 1..Len(ids) : ids[i] \in Charges
  BY LenProperties, ElementOfSeq
<1>2. f \in Injection(1..Len(ids), T)
  BY <1>1 DEF Injection, IsInjective, Lacks, Distinct
<1>3. IsFiniteSet(Charges) /\ Cardinality(Charges) = MaxCharges
  <2>1. /\ IsFiniteSet(1..MaxCharges)
        /\ Cardinality(1..MaxCharges) = IF 1 > MaxCharges THEN 0 ELSE MaxCharges - 1 + 1
    <3>1. MaxCharges \in Int /\ 1 \in Int
      BY SubscriptionAssumption
    <3> QED
      BY <3>1, FS_Interval
  <2> QED
    BY <2>1, SubscriptionAssumption DEF Charges
<1>4. IsFiniteSet(T) /\ Cardinality(T) = MaxCharges - 1
  BY <1>3, FS_RemoveElement
<1>5. Cardinality(1..Len(ids)) = Len(ids)
  <2>1. Cardinality(1..Len(ids)) = IF 1 > Len(ids) THEN 0 ELSE Len(ids) - 1 + 1
    BY <1>1, FS_Interval
  <2> QED
    BY <1>1, <2>1
<1> HIDE DEF f, T
<1>6. Cardinality(1..Len(ids)) <= Cardinality(T)
  BY <1>2, <1>4, FS_Injection
<1> QED
  BY <1>1, <1>4, <1>5, <1>6, SubscriptionAssumption

LEMMA Appended ==
  ASSUME NEW S, NEW ids \in Seq(S), NEW c \in S
  PROVE  /\ ~Lacks(Append(ids, c), c)
         /\ \A d \in S : ~Lacks(ids, d) => ~Lacks(Append(ids, c), d)
<1>1. /\ Len(ids) \in Nat /\ Len(Append(ids, c)) = Len(ids) + 1
      /\ \A i \in 1..Len(ids) : Append(ids, c)[i] = ids[i]
      /\ Append(ids, c)[Len(ids) + 1] = c
  BY AppendProperties, LenProperties
<1> QED
  BY <1>1 DEF Lacks

\* The transaction counts a charge once and puts it on the list.
LEMMA ActivateKeeps ==
  ASSUME IInv, Kept, History >= MaxCharges, NEW r \in Requests, Activate(r), ~Activated(ipn[r].c)
  PROVE  Kept'
<1>1. PICK x \in Charges : x = ipn[r].c
  BY Extension
<1>2. /\ sub'.ids = Remember(sub.ids, x) /\ x \in 1..Len(renewal)
      /\ granted' = [granted EXCEPT ![x] = granted[x] + 1] /\ granted \in [Charges -> Nat]
  BY <1>1, Extension DEF IInv, Shape
<1>3. /\ sub.ids \in Seq(Charges) /\ Distinct(sub.ids) /\ Len(sub.ids) \in Nat
      /\ sub.ids \in Seq(1..Len(renewal)) /\ Lacks(sub.ids, x)
  <2>1. sub.ids \in Seq(1..Len(renewal)) /\ Len(sub.ids) \in Nat
        /\ DOMAIN sub.ids = 1..Len(sub.ids) /\ 1..Len(renewal) \subseteq Charges
    BY Facts DEF IInv
  <2>2. sub.ids \in Seq(Charges)
    BY <2>1, SeqMonotonic
  <2>3. ~Activated(x)
    BY <1>1
  <2> QED
    BY <2>1, <2>2, <2>3 DEF IInv, IdsInv, Activated, Lacks
<1>4. sub'.ids = Append(sub.ids, x)
  <2>1. Len(sub.ids) < History
    BY <1>3, RoomForOne, SubscriptionAssumption
  <2> QED
    BY <1>2, <1>3, <2>1, Remembered
<1>5. ~Lacks(sub'.ids, x) /\ \A d \in Charges : ~Lacks(sub.ids, d) => ~Lacks(sub'.ids, d)
  BY <1>3, <1>4, Appended
<1>6. granted[x] = 0
  BY <1>3 DEF Kept
<1>7. ASSUME NEW d \in Charges PROVE granted'[d] \in {0, 1} /\ (granted'[d] = 1 => ~Lacks(sub'.ids, d))
  BY <1>2, <1>5, <1>6 DEF Kept
<1> QED
  BY <1>7 DEF Kept

\* A paid plan is granted once, however many handlers its notification gets, as
\* long as the payments a subscription remembers are not fewer than its charges.
THEOREM GrantedAtMostOnce == ASSUME History >= MaxCharges PROVE SubSpec => []GrantedOnce
<1>1. SubInit => Kept
  BY EmptySeq, SubscriptionAssumption DEF SubInit, Kept
<1>2. IInv /\ Kept /\ [SubNext]_subVars => Kept'
  <2> SUFFICES ASSUME IInv, Kept, [SubNext]_subVars PROVE Kept'
    OBVIOUS
  <2>1. CASE UNCHANGED <<sub, granted>>
    BY <2>1 DEF Kept
  <2>2. ASSUME NEW r \in Requests, Activate(r) PROVE Kept'
    <3>1. CASE Activated(ipn[r].c)
      BY <2>1, <2>2, <3>1 DEF Activate
    <3> QED
      BY <2>2, <3>1, ActivateKeeps
  <2>3. ASSUME NEW c \in DOMAIN renewal,
               \/ Pay(c) \/ \E to \in {"PARTIAL", "REFUNDED"} : Refund(c, to)
               \/ \E r \in Requests : IpnRead(r, c)
        PROVE  UNCHANGED <<sub, granted>>
    BY <2>3 DEF Pay, Refund, IpnRead
  <2>4. ASSUME NEW r \in Requests,
               \/ IpnHold(r) \/ ReadClock(r) \/ GuardRead(r) \/ GuardDelete(r)
               \/ GuardFails(r) \/ Abort(r)
        PROVE  UNCHANGED <<sub, granted>>
    BY <2>4 DEF IpnHold, ReadClock, GuardRead, GuardDelete, GuardFails, Abort
  <2> QED
    BY <2>1, <2>2, <2>3, <2>4 DEF SubNext, Handle, Tick, CreateRenewal, subVars
<1>3. Kept => GrantedOnce
  BY DEF Kept, GrantedOnce
<1> QED
  BY <1>1, <1>2, <1>3, Invariance, PTL DEF SubSpec

-----------------------------------------------------------------------------
(* Repairs: the writes of a handler of Shop, one after the other.          *)

LEMMA SmallestIn ==
  ASSUME NEW n \in Nat, NEW bad \in SUBSET (0..n), bad # {}
  PROVE  \E m \in bad : \A k \in bad : m <= k
<1> DEFINE T == {s \in SUBSET (0..n) : \E k \in bad : s = 0..k}
<1>1. IsFiniteSet(0..n)
  BY FS_Interval
<1>2. IsWellFoundedOn(StrictSubsetOrdering(0..n), FiniteSubsetsOf(0..n)) /\ FiniteSubsetsOf(0..n) = SUBSET (0..n)
  BY <1>1, FS_StrictSubsetOrderingWellFounded, FS_FiniteSubsetsOfFinite
<1>3. \A k \in bad : 0..k \in T
  OBVIOUS
<1>4. T \subseteq SUBSET (0..n) /\ T # {}
  BY <1>3
<1>5. PICK s \in T : \A y \in T : ~ (<<y, s>> \in StrictSubsetOrdering(0..n))
  <2> HIDE DEF T
  <2> QED
    BY <1>2, <1>4, WFMin
<1>6. PICK m \in bad : s = 0..m
  OBVIOUS
<1>7. ASSUME NEW k \in bad PROVE m <= k
  <2>1. ~ (<<0..k, 0..m>> \in StrictSubsetOrdering(0..n))
    BY <1>3, <1>5, <1>6
  <2>2. SUFFICES ASSUME k < m PROVE FALSE
    OBVIOUS
  <2>3. 0..k \subseteq 0..m /\ 0..k # 0..m /\ 0..k \subseteq 0..n /\ 0..m \subseteq 0..n
    <3>1. m \in 0..m /\ m \notin 0..k
      BY <2>2
    <3> QED
      BY <2>2, <3>1
  <2> QED
    BY <2>1, <2>3 DEF StrictSubsetOrdering
<1> QED
  BY <1>7

\* Steps that start in good and never leave it stay there.
LEMMA Stays ==
  ASSUME NEW n \in Nat, NEW good \in SUBSET (0..n), 0 \in good, \A k \in 1..n : k - 1 \in good => k \in good
  PROVE  n \in good
<1>1. SUFFICES ASSUME n \notin good PROVE FALSE
  OBVIOUS
<1>2. PICK m \in (0..n) \ good : \A k \in (0..n) \ good : m <= k
  <2>1. (0..n) \ good \in SUBSET (0..n) /\ (0..n) \ good # {}
    BY <1>1
  <2> QED
    BY <2>1, SmallestIn
<1>3. m \in 1..n /\ m - 1 \in 0..n /\ ~ (m <= m - 1)
  OBVIOUS
<1>4. m - 1 \in good
  BY <1>2, <1>3
<1> QED
  BY <1>2, <1>3, <1>4

Path(x, s, w, n) == x = [k \in 0..n |-> IF k = 0 THEN s ELSE Apply(x[k - 1], w[k])]

LEMMA PathExists ==
  ASSUME NEW s, NEW w, NEW n \in Nat
  PROVE  \E x : Path(x, s, w, n)
<1> DEFINE good == {k \in 0..n : \E x : Path(x, s, w, k)}
<1>1. 0 \in good
  <2>1. Path([k \in 0..0 |-> s], s, w, 0)
    BY DEF Path
  <2> QED
    BY <2>1
<1>2. ASSUME NEW k \in 1..n, k - 1 \in good PROVE k \in good
  <2>1. PICK y : Path(y, s, w, k - 1)
    BY <1>2
  <2> DEFINE x == [j \in 0..k |-> IF j = k THEN Apply(y[k - 1], w[k]) ELSE y[j]]
  <2>2. ASSUME NEW j \in 0..k PROVE x[j] = IF j = 0 THEN s ELSE Apply(x[j - 1], w[j])
    <3>1. CASE j = k
      <4>1. x[j] = Apply(y[k - 1], w[k]) /\ x[k - 1] = y[k - 1]
        BY <3>1
      <4> QED
        BY <3>1, <4>1
    <3>2. CASE j # k
      <4>1. j \in 0..(k - 1) /\ x[j] = y[j]
        BY <3>2
      <4>2. y[j] = IF j = 0 THEN s ELSE Apply(y[j - 1], w[j])
        BY <2>1, <4>1 DEF Path
      <4>3. j # 0 => x[j - 1] = y[j - 1]
        BY <4>1
      <4> QED
        BY <4>1, <4>2, <4>3
    <3> QED
      BY <3>1, <3>2
  <2>3. Path(x, s, w, k)
    BY <2>2 DEF Path
  <2> QED
    BY <2>3
<1>3. good \in SUBSET (0..n)
  OBVIOUS
<1>4. n \in good
  <2> HIDE DEF good
  <2> QED
    BY <1>1, <1>2, <1>3, Stays
<1> QED
  BY <1>4

LEMMA AfterIsPath ==
  ASSUME NEW w, Len(w) \in Nat
  PROVE  \E x : Path(x, Store, w, Len(w)) /\ After(w) = x[Len(w)]
<1>1. PICK s : s = Store
  OBVIOUS
<1>2. \E x : Path(x, s, w, Len(w))
  BY PathExists
<1>3. Path(CHOOSE x : Path(x, s, w, Len(w)), s, w, Len(w))
  BY <1>2
<1>4. After(w) = (CHOOSE x : Path(x, s, w, Len(w)))[Len(w)]
  BY <1>1 DEF After, Path
<1> QED
  BY <1>1, <1>3, <1>4

-----------------------------------------------------------------------------
(* What the handlers of Shop write.                                        *)

Kinds == {"ticket", "status", "ask", "void", "cancel", "create", "adjust", "pay", "tow"}
TowFields == {"status", "linked"}
TowValues == {"OPEN", "ARRIVED", "RESOLVED", "CANCELLED"} \cup BOOLEAN
TowDoc == [TowFields -> TowValues]
TicketFields == {"status", "offer", "hold", "openDispute", "dispute"}
Asked == {"hold", "openDispute", "dispute"}

ChargeList(list) ==
  /\ list \in Seq({list[c] : c \in DOMAIN list})
  /\ \A c \in DOMAIN list : "status" \in DOMAIN list[c]

Shaped(s) ==
  /\ DOMAIN s = {"ticket", "charge", "tow"} /\ s = [x \in DOMAIN s |-> s[x]]
  /\ TicketFields \subseteq DOMAIN s.ticket /\ s.ticket = [x \in DOMAIN s.ticket |-> s.ticket[x]]
  /\ ChargeList(s.charge) /\ s.tow \in Seq(TowDoc)

\* A write of Shop to ticket t: what is asked afterwards is not its business, and a
\* ticket on hold gets no charge.
ShopWrite(w, t) ==
  /\ w.to \in Kinds
  /\ w.to = "ticket" => DOMAIN w.fields \cap Asked = {}
  /\ w.to = "create" => ~t.hold /\ "status" \in DOMAIN w.new
  /\ w.to = "pay" => w.status # "PENDING"
  /\ w.to = "tow" => /\ DOMAIN w.fields \subseteq TowFields
                     /\ \A x \in DOMAIN w.fields : w.fields[x] \in TowValues

\* Only what is being created starts a tow.
TowInPlace(w, s) == w.to = "tow" => w.i \in DOMAIN s.tow \/ w.fields \in TowDoc

LEMMA OneChargeWritten ==
  ASSUME NEW list, ChargeList(list), NEW c, NEW f, NEW v
  PROVE  ChargeList([list EXCEPT ![c] = [@ EXCEPT ![f] = v]])
<1> DEFINE new == [list EXCEPT ![c] = [@ EXCEPT ![f] = v]]
<1>1. Len(list) \in Nat /\ DOMAIN list = 1..Len(list)
  BY LenProperties DEF ChargeList
<1>2. DOMAIN new = 1..Len(list) /\ \A d \in DOMAIN new : DOMAIN new[d] = DOMAIN list[d]
  BY <1>1
<1>3. new = [d \in 1..Len(list) |-> new[d]]
  BY <1>1
<1>4. new \in Seq({new[d] : d \in DOMAIN new})
  <2> HIDE DEF new
  <2> QED
    BY <1>1, <1>2, <1>3
<1> QED
  BY <1>1, <1>2, <1>4 DEF ChargeList

LEMMA ChargesVoided ==
  ASSUME NEW list, ChargeList(list)
  PROVE  /\ ChargeList(VoidPending(list)) /\ DOMAIN VoidPending(list) = DOMAIN list
         /\ \A c \in DOMAIN list : VoidPending(list)[c].status # "PENDING"
<1> DEFINE new == VoidPending(list)
<1>1. Len(list) \in Nat /\ DOMAIN list = 1..Len(list)
  BY LenProperties DEF ChargeList
<1>2. /\ DOMAIN new = 1..Len(list) /\ new = [d \in 1..Len(list) |-> new[d]]
      /\ \A d \in 1..Len(list) : DOMAIN new[d] = DOMAIN list[d] /\ new[d].status # "PENDING"
  BY <1>1 DEF VoidPending, ChargeList
<1>3. new \in Seq({new[d] : d \in DOMAIN new})
  <2> HIDE DEF new
  <2> QED
    BY <1>1, <1>2
<1> QED
  BY <1>1, <1>2, <1>3 DEF ChargeList

LEMMA ChargeAdded ==
  ASSUME NEW list, ChargeList(list), NEW new, "status" \in DOMAIN new
  PROVE  ChargeList(Append(list, new))
<1> DEFINE R == {list[c] : c \in DOMAIN list} \cup {new}
           all2 == Append(list, new)
<1>1. list \in Seq(R)
  <2>1. Len(list) \in Nat /\ DOMAIN list = 1..Len(list) /\ list = [d \in 1..Len(list) |-> list[d]]
    BY LenProperties DEF ChargeList
  <2> QED
    BY <2>1
<1>2. /\ all2 \in Seq(R) /\ Len(all2) = Len(list) + 1
      /\ \A i \in 1..Len(list) : all2[i] = list[i]
      /\ all2[Len(list) + 1] = new /\ Len(list) \in Nat /\ DOMAIN list = 1..Len(list)
  <2>1. new \in R
    OBVIOUS
  <2> HIDE DEF R
  <2> QED
    BY <1>1, <2>1, AppendProperties, LenProperties
<1>3. DOMAIN all2 = 1..(Len(list) + 1) /\ all2 = [d \in 1..Len(all2) |-> all2[d]]
  <2> HIDE DEF R, all2
  <2> QED
    BY <1>2, LenProperties
<1>4. all2 \in Seq({all2[d] : d \in DOMAIN all2})
  <2> HIDE DEF R, all2
  <2> QED
    BY <1>2, <1>3
<1>5. \A d \in DOMAIN all2 : "status" \in DOMAIN all2[d]
  <2> HIDE DEF R, all2
  <2> QED
    BY <1>2, <1>3 DEF ChargeList
<1> QED
  BY <1>4, <1>5 DEF ChargeList

NoneAdded(new, old) ==
  \A c \in DOMAIN new : new[c].status = "PENDING" => c \in DOMAIN old /\ old[c].status = "PENDING"

LEMMA TicketWritten ==
  ASSUME NEW s, Shaped(s), NEW w, w.to = "ticket"
  PROVE  /\ Shaped(Apply(s, w)) /\ Apply(s, w).tow = s.tow /\ Apply(s, w).charge = s.charge
         /\ DOMAIN Apply(s, w).ticket = DOMAIN s.ticket
         /\ \A x \in DOMAIN s.ticket :
              Apply(s, w).ticket[x] = IF x \in DOMAIN w.fields THEN w.fields[x] ELSE s.ticket[x]
<1> DEFINE r == [s EXCEPT !.ticket = With(w.fields, s.ticket)]
<1>1. Apply(s, w) = r
  BY DEF Apply
<1>2. /\ DOMAIN r = DOMAIN s /\ r.ticket = With(w.fields, s.ticket) /\ r.tow = s.tow /\ r.charge = s.charge
      /\ r = [x \in DOMAIN r |-> r[x]]
  BY DEF Shaped
<1>3. /\ DOMAIN r.ticket = DOMAIN s.ticket /\ r.ticket = [x \in DOMAIN r.ticket |-> r.ticket[x]]
      /\ \A x \in DOMAIN s.ticket : r.ticket[x] = IF x \in DOMAIN w.fields THEN w.fields[x] ELSE s.ticket[x]
  <2> HIDE DEF r
  <2> QED
    BY <1>2 DEF With
<1>4. Shaped(r)
  <2> HIDE DEF r
  <2> QED
    BY <1>2, <1>3 DEF Shaped
<1> HIDE DEF r
<1> QED
  BY <1>1, <1>2, <1>3, <1>4

LEMMA StatusWritten ==
  ASSUME NEW s, Shaped(s), NEW w, w.to = "status"
  PROVE  /\ Shaped(Apply(s, w)) /\ Apply(s, w).tow = s.tow /\ Apply(s, w).charge = s.charge
         /\ DOMAIN Apply(s, w).ticket = DOMAIN s.ticket /\ Apply(s, w).ticket.status = w.status
         /\ \A x \in DOMAIN s.ticket : x # "status" => Apply(s, w).ticket[x] = s.ticket[x]
<1> DEFINE r == [s EXCEPT !.ticket.status = w.status]
<1>1. Apply(s, w) = r
  BY DEF Apply
<1>2. /\ DOMAIN r = DOMAIN s /\ r.ticket = [s.ticket EXCEPT !.status = w.status] /\ r.tow = s.tow
      /\ r.charge = s.charge /\ r = [x \in DOMAIN r |-> r[x]]
  BY DEF Shaped
<1>3. /\ DOMAIN r.ticket = DOMAIN s.ticket /\ r.ticket = [x \in DOMAIN r.ticket |-> r.ticket[x]]
      /\ r.ticket.status = w.status
      /\ \A x \in DOMAIN s.ticket : x # "status" => r.ticket[x] = s.ticket[x]
  <2> HIDE DEF r
  <2> QED
    BY <1>2 DEF Shaped, TicketFields
<1>4. Shaped(r)
  <2> HIDE DEF r
  <2> QED
    BY <1>2, <1>3 DEF Shaped
<1> HIDE DEF r
<1> QED
  BY <1>1, <1>2, <1>3, <1>4

LEMMA ChargesReplaced ==
  ASSUME NEW s, Shaped(s), NEW new, ChargeList(new), NEW r, r = [s EXCEPT !.charge = new]
  PROVE  Shaped(r) /\ r.tow = s.tow /\ r.ticket = s.ticket /\ r.charge = new
BY DEF Shaped

LEMMA OneChargeSet ==
  ASSUME NEW list, ChargeList(list), NEW c, NEW f, NEW v, f = "status" => v # "PENDING",
         NEW new, new = [list EXCEPT ![c] = [list[c] EXCEPT ![f] = v]]
  PROVE  ChargeList(new) /\ NoneAdded(new, list)
<1>1. ChargeList(new)
  BY OneChargeWritten
<1>2. DOMAIN new = DOMAIN list
  OBVIOUS
<1>3. ASSUME NEW d \in DOMAIN list, new[d].status = "PENDING" PROVE list[d].status = "PENDING"
  <2>1. "status" \in DOMAIN list[d]
    BY DEF ChargeList
  <2>2. CASE d = c
    <3>1. new[d] = [list[d] EXCEPT ![f] = v]
      BY <2>2
    <3>2. f # "status"
      BY <1>3, <2>1, <3>1
    <3> QED
      BY <1>3, <2>1, <3>1, <3>2
  <2>3. CASE d # c
    BY <1>3, <2>3
  <2> QED
    BY <2>2, <2>3
<1> QED
  BY <1>1, <1>2, <1>3 DEF NoneAdded

LEMMA ChargesWritten ==
  ASSUME NEW s, Shaped(s), NEW w, w.to \in {"ask", "void", "cancel", "create", "adjust", "pay"},
         w.to = "create" => "status" \in DOMAIN w.new, w.to = "pay" => w.status # "PENDING"
  PROVE  /\ Shaped(Apply(s, w)) /\ Apply(s, w).tow = s.tow /\ Apply(s, w).ticket = s.ticket
         /\ w.to # "create" => NoneAdded(Apply(s, w).charge, s.charge)
         /\ w.to = "void" => \A c \in DOMAIN Apply(s, w).charge : Apply(s, w).charge[c].status # "PENDING"
<1>1. PICK list : list = s.charge
  OBVIOUS
<1>2. ChargeList(list)
  BY <1>1 DEF Shaped
<1>3. \E new : /\ ChargeList(new) /\ Apply(s, w) = [s EXCEPT !.charge = new]
               /\ w.to # "create" => NoneAdded(new, list)
               /\ w.to = "void" => \A c \in DOMAIN new : new[c].status # "PENDING"
  <2>1. CASE w.to = "void"
    <3>1. Apply(s, w) = [s EXCEPT !.charge = VoidPending(list)]
      BY <1>1, <2>1 DEF Apply
    <3>2. NoneAdded(VoidPending(list), list) /\ ChargeList(VoidPending(list))
          /\ \A c \in DOMAIN VoidPending(list) : VoidPending(list)[c].status # "PENDING"
      BY <1>2, ChargesVoided DEF NoneAdded
    <3> QED
      BY <3>1, <3>2
  <2>2. CASE w.to = "create"
    <3>1. Apply(s, w) = [s EXCEPT !.charge = Append(list, w.new)]
      BY <1>1, <2>2 DEF Apply
    <3>2. ChargeList(Append(list, w.new))
      BY <1>2, <2>2, ChargeAdded
    <3> QED
      BY <2>2, <3>1, <3>2
  <2>3. CASE w.to = "ask"
    <3>1. Apply(s, w) = [s EXCEPT !.charge = [list EXCEPT ![w.c] = [list[w.c] EXCEPT !["asked"] = TRUE]]]
      BY <1>1, <2>3 DEF Apply
    <3>2. PICK new : new = [list EXCEPT ![w.c] = [list[w.c] EXCEPT !["asked"] = TRUE]]
      OBVIOUS
    <3>3. ChargeList(new) /\ NoneAdded(new, list)
      BY <1>2, <2>3, <3>2, OneChargeSet
    <3> QED
      BY <2>3, <3>1, <3>2, <3>3
  <2>4. CASE w.to = "cancel"
    <3>1. Apply(s, w) = [s EXCEPT !.charge = [list EXCEPT ![w.c] = [list[w.c] EXCEPT !["status"] = "CANCELLED"]]]
      BY <1>1, <2>4 DEF Apply
    <3>2. PICK new : new = [list EXCEPT ![w.c] = [list[w.c] EXCEPT !["status"] = "CANCELLED"]]
      OBVIOUS
    <3>3. ChargeList(new) /\ NoneAdded(new, list)
      BY <1>2, <2>4, <3>2, OneChargeSet
    <3> QED
      BY <2>4, <3>1, <3>2, <3>3
  <2>5. CASE w.to = "adjust"
    <3>1. Apply(s, w) = [s EXCEPT !.charge = [list EXCEPT ![w.c] = [list[w.c] EXCEPT !["amount"] = w.amount]]]
      BY <1>1, <2>5 DEF Apply
    <3>2. PICK new : new = [list EXCEPT ![w.c] = [list[w.c] EXCEPT !["amount"] = w.amount]]
      OBVIOUS
    <3>3. ChargeList(new) /\ NoneAdded(new, list)
      BY <1>2, <2>5, <3>2, OneChargeSet
    <3> QED
      BY <2>5, <3>1, <3>2, <3>3
  <2>6. CASE w.to = "pay"
    <3>1. Apply(s, w) = [s EXCEPT !.charge = [list EXCEPT ![w.c] = [list[w.c] EXCEPT !["status"] = w.status]]]
      BY <1>1, <2>6 DEF Apply
    <3>2. PICK new : new = [list EXCEPT ![w.c] = [list[w.c] EXCEPT !["status"] = w.status]]
      OBVIOUS
    <3>3. ChargeList(new) /\ NoneAdded(new, list)
      BY <1>2, <2>6, <3>2, OneChargeSet
    <3> QED
      BY <2>6, <3>1, <3>2, <3>3
  <2> QED
    BY <2>1, <2>2, <2>3, <2>4, <2>5, <2>6
<1>4. PICK new : /\ ChargeList(new) /\ Apply(s, w) = [s EXCEPT !.charge = new]
                 /\ w.to # "create" => NoneAdded(new, list)
                 /\ w.to = "void" => \A c \in DOMAIN new : new[c].status # "PENDING"
  BY <1>3
<1>5. /\ Shaped(Apply(s, w)) /\ Apply(s, w).tow = s.tow /\ Apply(s, w).ticket = s.ticket
      /\ Apply(s, w).charge = new
  BY <1>4, ChargesReplaced
<1> QED
  BY <1>1, <1>4, <1>5

LEMMA TowWritten ==
  ASSUME NEW s, Shaped(s), NEW w, w.to = "tow", TowInPlace(w, s),
         DOMAIN w.fields \subseteq TowFields, \A x \in DOMAIN w.fields : w.fields[x] \in TowValues
  PROVE  /\ Shaped(Apply(s, w)) /\ Apply(s, w).charge = s.charge /\ Apply(s, w).ticket = s.ticket
         /\ DOMAIN s.tow = 1..Len(s.tow) /\ Len(s.tow) \in Nat
         /\ \A i \in DOMAIN s.tow : i # w.i => Apply(s, w).tow[i] = s.tow[i]
         /\ w.i \in DOMAIN s.tow =>
              /\ DOMAIN Apply(s, w).tow = DOMAIN s.tow
              /\ Apply(s, w).tow[w.i].status
                   = IF "status" \in DOMAIN w.fields THEN w.fields["status"] ELSE s.tow[w.i].status
         /\ w.i \notin DOMAIN s.tow =>
              DOMAIN Apply(s, w).tow = 1..(Len(s.tow) + 1) /\ \A i \in DOMAIN s.tow : Apply(s, w).tow[i] = s.tow[i]
<1>1. PICK old : old = s.tow
  OBVIOUS
<1>2. old \in Seq(TowDoc) /\ Len(old) \in Nat /\ DOMAIN old = 1..Len(old)
  BY <1>1, LenProperties DEF Shaped
<1>3. ASSUME NEW new \in Seq(TowDoc), Apply(s, w) = [s EXCEPT !.tow = new]
      PROVE  /\ Shaped(Apply(s, w)) /\ Apply(s, w).charge = s.charge /\ Apply(s, w).ticket = s.ticket
             /\ Apply(s, w).tow = new
  BY <1>3 DEF Shaped
<1>4. CASE w.i \in DOMAIN old
  <2> DEFINE doc == With(w.fields, old[w.i])
             new == [old EXCEPT ![w.i] = doc]
  <2>1. Apply(s, w) = [s EXCEPT !.tow = new]
    BY <1>1, <1>4 DEF Apply
  <2>2. old[w.i] \in TowDoc
    BY <1>2, <1>4, ElementOfSeq
  <2>3. doc \in TowDoc /\ doc.status = IF "status" \in DOMAIN w.fields THEN w.fields["status"] ELSE old[w.i].status
    BY <2>2 DEF With, TowDoc, TowFields
  <2>4. new \in Seq(TowDoc) /\ DOMAIN new = DOMAIN old /\ new[w.i] = doc
        /\ \A i \in DOMAIN old : i # w.i => new[i] = old[i]
    <3> HIDE DEF doc
    <3> QED
      BY <1>2, <1>4, <2>3
  <2>5. /\ Shaped(Apply(s, w)) /\ Apply(s, w).charge = s.charge /\ Apply(s, w).ticket = s.ticket
        /\ Apply(s, w).tow = new
    <3> HIDE DEF new
    <3> QED
      BY <1>3, <2>1, <2>4
  <2> HIDE DEF doc, new
  <2> QED
    BY <1>1, <1>2, <1>4, <2>3, <2>4, <2>5
<1>5. CASE w.i \notin DOMAIN old
  <2> DEFINE new == Append(old, w.fields)
  <2>1. Apply(s, w) = [s EXCEPT !.tow = new] /\ w.fields \in TowDoc
    BY <1>1, <1>5 DEF Apply, TowInPlace
  <2>2. new \in Seq(TowDoc) /\ DOMAIN new = 1..(Len(old) + 1) /\ \A i \in 1..Len(old) : new[i] = old[i]
    <3>1. new \in Seq(TowDoc) /\ Len(new) = Len(old) + 1 /\ \A i \in 1..Len(old) : new[i] = old[i]
      BY <1>2, <2>1, AppendProperties
    <3> QED
      BY <3>1, LenProperties
  <2>3. /\ Shaped(Apply(s, w)) /\ Apply(s, w).charge = s.charge /\ Apply(s, w).ticket = s.ticket
        /\ Apply(s, w).tow = new
    <3> HIDE DEF new
    <3> QED
      BY <1>3, <2>1, <2>2
  <2> HIDE DEF new
  <2> QED
    BY <1>1, <1>2, <1>5, <2>2, <2>3
<1> QED
  BY <1>4, <1>5, <1>1
-----------------------------------------------------------------------------
(* All the writes of a handler, or those it reached.                       *)

LEMMA Performed ==
  ASSUME NEW R, NEW W \in Seq(R), Perform(W)
  PROVE  /\ faults' = faults \/ faults' = faults + 1
         /\ scope' = scope /\ late' = late
         /\ \E V \in Seq(R) : Reached(V)
<1>1. Len(W) \in Nat /\ \A i \in 1..Len(W) : W[i] \in R
  BY LenProperties, ElementOfSeq
<1>2. \A n \in 1..(Len(W) - 1) : SubSeq(W, 1, n) \in Seq(R)
  BY <1>1, SubSeqProperties
<1>3. ASSUME NEW i \in DOMAIN W PROVE Without(W, i) \in Seq(R)
  <2>1. i \in 1..Len(W)
    BY LenProperties
  <2>2. SubSeq(W, 1, i - 1) \in Seq(R) /\ SubSeq(W, i + 1, Len(W)) \in Seq(R)
    BY <1>1, <2>1, SubSeqProperties
  <2> QED
    BY <2>2, ConcatProperties DEF Without
<1> QED
  BY Zenon, <1>2, <1>3 DEF Perform

\* What the handlers of Shop leave as it is, from store s0 to store s.
Spares(s, s0) ==
  /\ Shaped(s) /\ \A x \in Asked : s.ticket[x] = s0.ticket[x]
  /\ s0.ticket.hold => NoneAdded(s.charge, s0.charge)
  /\ DOMAIN s0.tow \subseteq DOMAIN s.tow

ShopWrites(R, s0) ==
  \A w \in R : ShopWrite(w, s0.ticket) /\ TowInPlace(w, s0)

LEMMA AppliedKeeps ==
  ASSUME NEW s0, Shaped(s0), NEW s, Spares(s, s0), NEW w, ShopWrite(w, s0.ticket), TowInPlace(w, s)
  PROVE  Spares(Apply(s, w), s0)
<1>0. Shaped(s) /\ Asked \subseteq TicketFields /\ TicketFields \subseteq DOMAIN s.ticket
  BY DEF Spares, Shaped, Asked, TicketFields
<1>1. CASE w.to = "ticket"
  <2>1. DOMAIN w.fields \cap Asked = {}
    BY <1>1 DEF ShopWrite
  <2> QED
    BY <1>0, <1>1, <2>1, TicketWritten DEF Spares
<1>2. CASE w.to = "status"
  <2>1. "status" \notin Asked
    BY DEF Asked
  <2> QED
    BY <1>0, <1>2, <2>1, StatusWritten DEF Spares
<1>3. CASE w.to \in {"ask", "void", "cancel", "create", "adjust", "pay"}
  <2>1. /\ w.to = "create" => ~s0.ticket.hold /\ "status" \in DOMAIN w.new
        /\ w.to = "pay" => w.status # "PENDING"
    BY DEF ShopWrite
  <2>2. /\ Shaped(Apply(s, w)) /\ Apply(s, w).tow = s.tow /\ Apply(s, w).ticket = s.ticket
        /\ w.to # "create" => NoneAdded(Apply(s, w).charge, s.charge)
    BY <1>0, <1>3, <2>1, ChargesWritten
  <2>3. s0.ticket.hold => NoneAdded(Apply(s, w).charge, s0.charge)
    BY <2>1, <2>2 DEF Spares, NoneAdded
  <2> QED
    BY <2>2, <2>3 DEF Spares
<1>4. CASE w.to = "tow"
  <2>1. DOMAIN w.fields \subseteq TowFields /\ \A x \in DOMAIN w.fields : w.fields[x] \in TowValues
    BY <1>4 DEF ShopWrite
  <2>2. /\ Shaped(Apply(s, w)) /\ Apply(s, w).charge = s.charge /\ Apply(s, w).ticket = s.ticket
        /\ DOMAIN s.tow = 1..Len(s.tow) /\ Len(s.tow) \in Nat
        /\ w.i \in DOMAIN s.tow => DOMAIN Apply(s, w).tow = DOMAIN s.tow
        /\ w.i \notin DOMAIN s.tow => DOMAIN Apply(s, w).tow = 1..(Len(s.tow) + 1)
    BY <1>0, <1>4, <2>1, TowWritten
  <2>3. DOMAIN s.tow \subseteq DOMAIN Apply(s, w).tow
    BY <2>2
  <2> QED
    BY <2>2, <2>3 DEF Spares
<1> QED
  BY <1>1, <1>2, <1>3, <1>4 DEF ShopWrite, Kinds

LEMMA StoreIs ==
  /\ Store.ticket = ticket /\ Store.charge = charge /\ Store.tow = tow
  /\ DOMAIN Store = {"ticket", "charge", "tow"} /\ Store = [x \in DOMAIN Store |-> Store[x]]
BY DEF Store

LEMMA KeptAlong ==
  ASSUME Shaped(Store), NEW R, ShopWrites(R, Store), NEW V \in Seq(R)
  PROVE  Spares(After(V), Store)
<1>1. Len(V) \in Nat /\ \A i \in 1..Len(V) : V[i] \in R
  BY LenProperties, ElementOfSeq
<1>2. PICK x : Path(x, Store, V, Len(V)) /\ After(V) = x[Len(V)]
  BY <1>1, AfterIsPath
<1> DEFINE good == {k \in 0..Len(V) : Spares(x[k], Store)}
<1>3. x[0] = Store /\ \A k \in 1..Len(V) : x[k] = Apply(x[k - 1], V[k])
  BY <1>1, <1>2 DEF Path
<1>4. 0 \in good
  BY <1>1, <1>3 DEF Spares, NoneAdded
<1>5. ASSUME NEW k \in 1..Len(V), k - 1 \in good PROVE k \in good
  <2>1. Spares(x[k - 1], Store) /\ x[k] = Apply(x[k - 1], V[k]) /\ V[k] \in R
    BY <1>1, <1>3, <1>5
  <2>2. ShopWrite(V[k], Store.ticket) /\ TowInPlace(V[k], x[k - 1])
    BY <2>1 DEF ShopWrites, Spares, TowInPlace
  <2>3. Spares(x[k], Store)
    BY <2>1, <2>2, AppliedKeeps
  <2> QED
    BY <2>3
<1>6. Len(V) \in good
  <2>1. good \in SUBSET (0..Len(V))
    OBVIOUS
  <2> HIDE DEF good
  <2> QED
    BY <1>1, <1>4, <1>5, <2>1, Stays
<1> QED
  BY <1>2, <1>6
-----------------------------------------------------------------------------
(* The tow back.                                                           *)

Going(list) == {i \in DOMAIN list : list[i].status \in {"OPEN", "ARRIVED"}}

Over == {"RESOLVED", "CANCELLED", "DECLINED"}

\* No tow can be asked for any more: the visit is over, or the offer is answered.
Answered(t) ==
  \/ t.status \in Over
  \/ t.status \in {"READY", "UNFIXABLE"} /\ t.offer \notin {None, "PENDING"}
MayAsk(t) == IF Answered(t) THEN 0 ELSE 1

\* One tow is under way or can be asked for, but for handlers that died.
TowInv == Cardinality(Going(tow)) + MayAsk(ticket) <= 1 + faults

\* A write that neither starts a tow nor lets one be asked for.
CalmWrite(w, s0) ==
  /\ w.to = "ticket" => DOMAIN w.fields \cap {"status", "offer"} = {}
  /\ w.to = "status" => w.status \in Over
  /\ w.to = "tow" => w.i \in Going(s0.tow)

Calmer(s, s0) ==
  /\ Going(s.tow) \subseteq Going(s0.tow) /\ DOMAIN s.tow = DOMAIN s0.tow
  /\ Answered(s0.ticket) => Answered(s.ticket)

LEMMA TowsWritten ==
  ASSUME NEW list \in Seq(TowDoc)
  PROVE  DOMAIN list = 1..Len(list) /\ Len(list) \in Nat /\ IsFiniteSet(Going(list)) /\ Cardinality(Going(list)) \in Nat
<1>1. DOMAIN list = 1..Len(list) /\ Len(list) \in Nat
  BY LenProperties
<1>2. IsFiniteSet(1..Len(list))
  BY <1>1, FS_Interval
<1>3. Going(list) \subseteq 1..Len(list)
  BY <1>1 DEF Going
<1> QED
  BY <1>1, <1>2, <1>3, FS_Subset, FS_CardinalityType

LEMMA AppliedCalms ==
  ASSUME NEW s0, Shaped(s0), NEW s, Spares(s, s0), Calmer(s, s0), NEW w, ShopWrite(w, s0.ticket), TowInPlace(w, s),
         CalmWrite(w, s0)
  PROVE  Calmer(Apply(s, w), s0)
<1>0. Shaped(s) /\ {"status", "offer"} \subseteq DOMAIN s.ticket
  BY DEF Spares, Shaped, TicketFields
<1>1. CASE w.to = "ticket"
  <2>1. /\ Apply(s, w).tow = s.tow /\ Apply(s, w).ticket.status = s.ticket.status
        /\ Apply(s, w).ticket.offer = s.ticket.offer
    BY <1>0, <1>1, TicketWritten DEF CalmWrite
  <2> QED
    BY <2>1 DEF Calmer, Answered
<1>2. CASE w.to = "status"
  <2>1. Apply(s, w).tow = s.tow /\ Apply(s, w).ticket.status \in Over
    BY <1>0, <1>2, StatusWritten DEF CalmWrite
  <2> QED
    BY <2>1 DEF Calmer, Answered
<1>3. CASE w.to \in {"ask", "void", "cancel", "create", "adjust", "pay"}
  <2>1. /\ w.to = "create" => "status" \in DOMAIN w.new
        /\ w.to = "pay" => w.status # "PENDING"
    BY DEF ShopWrite
  <2>2. Apply(s, w).tow = s.tow /\ Apply(s, w).ticket = s.ticket
    BY <1>0, <1>3, <2>1, ChargesWritten
  <2> QED
    BY <2>2 DEF Calmer
<1>4. CASE w.to = "tow"
  <2>1. DOMAIN w.fields \subseteq TowFields /\ \A x \in DOMAIN w.fields : w.fields[x] \in TowValues
    BY <1>4 DEF ShopWrite
  <2>2. w.i \in Going(s0.tow) /\ w.i \in DOMAIN s.tow
    BY <1>4 DEF CalmWrite, Calmer, Going
  <2>3. /\ Apply(s, w).ticket = s.ticket /\ DOMAIN Apply(s, w).tow = DOMAIN s.tow
        /\ \A i \in DOMAIN s.tow : i # w.i => Apply(s, w).tow[i] = s.tow[i]
    BY <1>0, <1>4, <2>1, <2>2, TowWritten
  <2>4. Going(Apply(s, w).tow) \subseteq Going(s.tow) \cup {w.i}
    BY <2>3 DEF Going
  <2> QED
    BY <2>2, <2>3, <2>4 DEF Calmer
<1> QED
  BY <1>1, <1>2, <1>3, <1>4 DEF ShopWrite, Kinds

LEMMA CalmAlong ==
  ASSUME Shaped(Store), NEW R, ShopWrites(R, Store), \A w \in R : CalmWrite(w, Store), NEW V \in Seq(R)
  PROVE  Calmer(After(V), Store)
<1>1. Len(V) \in Nat /\ \A i \in 1..Len(V) : V[i] \in R
  BY LenProperties, ElementOfSeq
<1>2. PICK x : Path(x, Store, V, Len(V)) /\ After(V) = x[Len(V)]
  BY <1>1, AfterIsPath
<1> DEFINE good == {k \in 0..Len(V) : Spares(x[k], Store) /\ Calmer(x[k], Store)}
<1>3. x[0] = Store /\ \A k \in 1..Len(V) : x[k] = Apply(x[k - 1], V[k])
  BY <1>1, <1>2 DEF Path
<1>4. 0 \in good
  BY <1>1, <1>3 DEF Spares, NoneAdded, Calmer
<1>5. ASSUME NEW k \in 1..Len(V), k - 1 \in good PROVE k \in good
  <2>1. /\ Spares(x[k - 1], Store) /\ Calmer(x[k - 1], Store) /\ x[k] = Apply(x[k - 1], V[k]) /\ V[k] \in R
    BY <1>1, <1>3, <1>5
  <2>2. ShopWrite(V[k], Store.ticket) /\ TowInPlace(V[k], x[k - 1]) /\ CalmWrite(V[k], Store)
    BY <2>1 DEF ShopWrites, Spares, TowInPlace
  <2>3. Spares(x[k], Store)
    BY <2>1, <2>2, AppliedKeeps
  <2>4. Calmer(x[k], Store)
    BY <2>1, <2>2, AppliedCalms
  <2> QED
    BY <2>3, <2>4
<1>6. Len(V) \in good
  <2>1. good \in SUBSET (0..Len(V))
    OBVIOUS
  <2> HIDE DEF good
  <2> QED
    BY <1>1, <1>4, <1>5, <2>1, Stays
<1> QED
  BY <1>2, <1>6

\* Writes that touch no tow.
LEMMA TowAlong ==
  ASSUME Shaped(Store), NEW R, ShopWrites(R, Store), \A w \in R : w.to # "tow", NEW V \in Seq(R)
  PROVE  After(V).tow = tow
<1>1. Len(V) \in Nat /\ \A i \in 1..Len(V) : V[i] \in R
  BY LenProperties, ElementOfSeq
<1>2. PICK x : Path(x, Store, V, Len(V)) /\ After(V) = x[Len(V)]
  BY <1>1, AfterIsPath
<1> DEFINE good == {k \in 0..Len(V) : Spares(x[k], Store) /\ x[k].tow = tow}
<1>3. x[0] = Store /\ \A k \in 1..Len(V) : x[k] = Apply(x[k - 1], V[k])
  BY <1>1, <1>2 DEF Path
<1>4. 0 \in good
  BY <1>1, <1>3, StoreIs DEF Spares, NoneAdded
<1>5. ASSUME NEW k \in 1..Len(V), k - 1 \in good PROVE k \in good
  <2>1. Spares(x[k - 1], Store) /\ x[k - 1].tow = tow /\ x[k] = Apply(x[k - 1], V[k]) /\ V[k] \in R
    BY <1>1, <1>3, <1>5
  <2>2. ShopWrite(V[k], Store.ticket) /\ TowInPlace(V[k], x[k - 1]) /\ V[k].to # "tow"
    BY <2>1 DEF ShopWrites, Spares, TowInPlace
  <2>3. Spares(x[k], Store)
    BY <2>1, <2>2, AppliedKeeps
  <2>4. /\ V[k].to = "create" => "status" \in DOMAIN V[k].new
        /\ V[k].to = "pay" => V[k].status # "PENDING"
        /\ V[k].to \in Kinds /\ Shaped(x[k - 1])
    BY <2>1, <2>2 DEF ShopWrite, Spares
  <2>5. x[k].tow = tow
    <3>1. CASE V[k].to = "ticket"
      BY <2>1, <2>4, <3>1, TicketWritten
    <3>2. CASE V[k].to = "status"
      BY <2>1, <2>4, <3>2, StatusWritten
    <3>3. CASE V[k].to \in {"ask", "void", "cancel", "create", "adjust", "pay"}
      BY <2>1, <2>4, <3>3, ChargesWritten
    <3> QED
      BY <2>2, <2>4, <3>1, <3>2, <3>3 DEF Kinds
  <2> QED
    BY <2>3, <2>5
<1>6. Len(V) \in good
  <2>1. good \in SUBSET (0..Len(V))
    OBVIOUS
  <2> HIDE DEF good
  <2> QED
    BY <1>1, <1>4, <1>5, <2>1, Stays
<1> QED
  BY <1>2, <1>6
-----------------------------------------------------------------------------
(* The two kinds of plan: one of a visit that may still ask for a tow, which *)
(* touches none, and one that only calms things down.                      *)

EarlyWrite(w, s0) == ShopWrite(w, s0.ticket) /\ w.to # "tow"
EarlyPlan(W, s0) == \E R : W \in Seq(R) /\ \A w \in R : EarlyWrite(w, s0)

LateWrite(w, s0) == ShopWrite(w, s0.ticket) /\ TowInPlace(w, s0) /\ CalmWrite(w, s0)
CalmPlan(W, s0) == \E R : W \in Seq(R) /\ \A w \in R : LateWrite(w, s0)

ShopState == Shaped(Store) /\ faults \in Nat /\ TowInv

Result ==
  /\ Spares(Store', Store) /\ faults' \in Nat /\ faults' >= faults
  /\ TowInv'

LEMMA ReachedStore ==
  ASSUME NEW V, Reached(V), Shaped(After(V))
  PROVE  Store' = After(V)
<1>1. PICK s : s = After(V)
  OBVIOUS
<1>2. Store' = [ticket |-> s.ticket, charge |-> s.charge, tow |-> s.tow]
  BY <1>1 DEF Reached, Store
<1>3. DOMAIN s = {"ticket", "charge", "tow"} /\ s = [x \in DOMAIN s |-> s[x]]
  BY <1>1 DEF Shaped
<1>4. s = [ticket |-> s.ticket, charge |-> s.charge, tow |-> s.tow]
  BY <1>3
<1> QED
  BY <1>1, <1>2, <1>4

LEMMA TowInvKept ==
  ASSUME NEW g, NEW h, IsFiniteSet(g), h \subseteq g, NEW m \in {0, 1}, NEW n \in {0, 1}, n <= m,
         NEW f \in Nat, NEW e \in Nat, f <= e, Cardinality(g) + m <= 1 + f
  PROVE  Cardinality(h) + n <= 1 + e
<1>1. Cardinality(h) <= Cardinality(g) /\ IsFiniteSet(h)
  BY FS_Subset
<1>2. Cardinality(g) \in Nat /\ Cardinality(h) \in Nat
  BY <1>1, FS_CardinalityType
<1> QED
  BY <1>1, <1>2

LEMMA EarlyReached ==
  ASSUME ShopState, NEW R, NEW V \in Seq(R), \A w \in R : EarlyWrite(w, Store), Reached(V),
         \/ ~Answered(ticket) /\ (faults' = faults \/ faults' = faults + 1)
         \/ faults' = faults + 1
  PROVE  Result
<1>1. ShopWrites(R, Store) /\ \A w \in R : w.to # "tow"
  BY DEF ShopWrites, EarlyWrite, TowInPlace
<1>2. Spares(After(V), Store) /\ After(V).tow = tow
  BY <1>1, KeptAlong, TowAlong DEF ShopState
<1>3. Store' = After(V) /\ tow' = tow
  BY <1>2, ReachedStore DEF Spares, Reached
<1>4. Cardinality(Going(tow)) \in Nat
  BY TowsWritten, StoreIs DEF ShopState, Shaped
<1>5. TowInv'
  <2>1. MayAsk(ticket) \in {0, 1} /\ MayAsk(ticket') \in {0, 1} /\ (~Answered(ticket) => MayAsk(ticket) = 1)
    BY DEF MayAsk
  <2>2. Cardinality(Going(tow)) + MayAsk(ticket') <= 1 + faults'
    BY <1>4, <2>1 DEF ShopState, TowInv
  <2> QED
    BY <1>3, <2>2 DEF TowInv
<1> QED
  BY <1>2, <1>3, <1>5 DEF ShopState, Result

LEMMA EarlyStep ==
  ASSUME ShopState, ~Answered(ticket), NEW W, EarlyPlan(W, Store), Perform(W)
  PROVE  Result
<1>1. PICK R : W \in Seq(R) /\ \A w \in R : EarlyWrite(w, Store)
  BY DEF EarlyPlan
<1>2. (faults' = faults \/ faults' = faults + 1) /\ \E V \in Seq(R) : Reached(V)
  BY <1>1, Performed
<1> QED
  BY <1>1, <1>2, EarlyReached

LEMMA CalmStep ==
  ASSUME ShopState, NEW W, CalmPlan(W, Store), Perform(W)
  PROVE  Result
<1>1. PICK R : W \in Seq(R) /\ \A w \in R : LateWrite(w, Store)
  BY DEF CalmPlan
<1>2. (faults' = faults \/ faults' = faults + 1) /\ \E V \in Seq(R) : Reached(V)
  BY <1>1, Performed
<1>3. PICK V \in Seq(R) : Reached(V)
  BY <1>2
<1>4. ShopWrites(R, Store) /\ \A w \in R : CalmWrite(w, Store)
  BY <1>1 DEF ShopWrites, LateWrite
<1>5. Spares(After(V), Store) /\ Calmer(After(V), Store)
  BY <1>4, KeptAlong, CalmAlong DEF ShopState
<1>6. Store' = After(V)
  BY <1>3, <1>5, ReachedStore DEF Spares
<1>7. Going(tow') \subseteq Going(tow) /\ (Answered(ticket) => Answered(ticket'))
  BY <1>3, <1>5, StoreIs DEF Calmer, Reached
<1>8. TowInv'
  <2>1. MayAsk(ticket) \in {0, 1} /\ MayAsk(ticket') \in {0, 1} /\ MayAsk(ticket') <= MayAsk(ticket)
    BY <1>7 DEF MayAsk
  <2>2. IsFiniteSet(Going(tow))
    BY TowsWritten, StoreIs DEF ShopState, Shaped
  <2>3. faults \in Nat /\ faults' \in Nat /\ faults <= faults' /\ Cardinality(Going(tow)) + MayAsk(ticket) <= 1 + faults
    BY <1>2 DEF ShopState, TowInv
  <2>4. PICK g, h, m, n, f, e : /\ g = Going(tow) /\ h = Going(tow') /\ m = MayAsk(ticket) /\ n = MayAsk(ticket')
                                /\ f = faults /\ e = faults'
    OBVIOUS
  <2>5. /\ IsFiniteSet(g) /\ h \subseteq g /\ m \in {0, 1} /\ n \in {0, 1} /\ n <= m
        /\ f \in Nat /\ e \in Nat /\ f <= e /\ Cardinality(g) + m <= 1 + f
    BY <1>7, <2>1, <2>2, <2>3, <2>4
  <2>6. Cardinality(h) + n <= 1 + e
    BY <2>5, TowInvKept
  <2> QED
    BY <2>4, <2>6 DEF TowInv
<1> QED
  BY <1>2, <1>5, <1>6, <1>8 DEF ShopState, Result

-----------------------------------------------------------------------------
(* Lists of writes.                                                        *)

LEMMA Joined ==
  ASSUME NEW A, NEW B, NEW a \in Seq(A), NEW b \in Seq(B)
  PROVE  a \o b \in Seq(A \cup B)
<1> DEFINE C == A \cup B
<1>1. Len(a) \in Nat /\ Len(b) \in Nat /\ a = [i \in 1..Len(a) |-> a[i]] /\ b = [i \in 1..Len(b) |-> b[i]]
      /\ (\A i \in 1..Len(a) : a[i] \in A) /\ (\A i \in 1..Len(b) : b[i] \in B)
  BY LenProperties, ElementOfSeq
<1>2. a \in Seq(C) /\ b \in Seq(C)
  BY <1>1
<1> HIDE DEF C
<1>3. a \o b \in Seq(C)
  BY <1>2, ConcatProperties
<1> QED
  BY <1>3 DEF C

LEMMA EarlyJoined ==
  ASSUME NEW s0, NEW a, NEW b, EarlyPlan(a, s0), EarlyPlan(b, s0)
  PROVE  EarlyPlan(a \o b, s0)
<1>1. PICK A : a \in Seq(A) /\ \A w \in A : EarlyWrite(w, s0)
  BY DEF EarlyPlan
<1>2. PICK B : b \in Seq(B) /\ \A w \in B : EarlyWrite(w, s0)
  BY DEF EarlyPlan
<1>3. a \o b \in Seq(A \cup B) /\ \A w \in A \cup B : EarlyWrite(w, s0)
  BY <1>1, <1>2, Joined
<1> QED
  BY <1>3 DEF EarlyPlan

LEMMA CalmJoined ==
  ASSUME NEW s0, NEW a, NEW b, CalmPlan(a, s0), CalmPlan(b, s0)
  PROVE  CalmPlan(a \o b, s0)
<1>1. PICK A : a \in Seq(A) /\ \A w \in A : LateWrite(w, s0)
  BY DEF CalmPlan
<1>2. PICK B : b \in Seq(B) /\ \A w \in B : LateWrite(w, s0)
  BY DEF CalmPlan
<1>3. a \o b \in Seq(A \cup B) /\ \A w \in A \cup B : LateWrite(w, s0)
  BY <1>1, <1>2, Joined
<1> QED
  BY <1>3 DEF CalmPlan

LEMMA EarlyFew ==
  ASSUME NEW s0, NEW a, NEW b, NEW c, EarlyWrite(a, s0), EarlyWrite(b, s0), EarlyWrite(c, s0)
  PROVE  EarlyPlan(<<>>, s0) /\ EarlyPlan(<<a>>, s0) /\ EarlyPlan(<<a, b>>, s0) /\ EarlyPlan(<<a, b, c>>, s0)
<1>1. <<>> \in Seq({a, b, c}) /\ <<a>> \in Seq({a, b, c}) /\ <<a, b>> \in Seq({a, b, c}) /\ <<a, b, c>> \in Seq({a, b, c})
  OBVIOUS
<1>2. PICK R : R = {a, b, c}
  OBVIOUS
<1>3. \A w \in R : EarlyWrite(w, s0)
  BY <1>2
<1>4. EarlyPlan(<<>>, s0)
  BY <1>1, <1>2, <1>3 DEF EarlyPlan
<1>5. EarlyPlan(<<a>>, s0)
  BY <1>1, <1>2, <1>3 DEF EarlyPlan
<1>6. EarlyPlan(<<a, b>>, s0)
  BY <1>1, <1>2, <1>3 DEF EarlyPlan
<1>7. EarlyPlan(<<a, b, c>>, s0)
  BY <1>1, <1>2, <1>3 DEF EarlyPlan
<1> QED
  BY <1>4, <1>5, <1>6, <1>7

LEMMA CalmFew ==
  ASSUME NEW s0, NEW a, NEW b, LateWrite(a, s0), LateWrite(b, s0)
  PROVE  CalmPlan(<<>>, s0) /\ CalmPlan(<<a>>, s0) /\ CalmPlan(<<a, b>>, s0)
<1>1. <<>> \in Seq({a, b}) /\ <<a>> \in Seq({a, b}) /\ <<a, b>> \in Seq({a, b})
  OBVIOUS
<1>2. PICK R : R = {a, b}
  OBVIOUS
<1>3. \A w \in R : LateWrite(w, s0)
  BY <1>2
<1>4. CalmPlan(<<>>, s0)
  BY <1>1, <1>2, <1>3 DEF CalmPlan
<1>5. CalmPlan(<<a>>, s0)
  BY <1>1, <1>2, <1>3 DEF CalmPlan
<1>6. CalmPlan(<<a, b>>, s0)
  BY <1>1, <1>2, <1>3 DEF CalmPlan
<1> QED
  BY <1>4, <1>5, <1>6

LEMMA AsksListed ==
  ASSUME NEW S, IsFiniteSet(S)
  PROVE  \E R : Asks(S) \in Seq(R) /\ \A w \in R : w.to = "ask"
<1> DEFINE n == Cardinality(S)
           A(k) == Ask(CHOOSE c \in S : Cardinality({d \in S : d > c}) = k - 1)
           R == {A(k) : k \in 1..n}
<1>1. n \in Nat
  BY FS_CardinalityType
<1>2. Asks(S) = [k \in 1..n |-> A(k)]
  BY DEF Asks
<1>3. Asks(S) \in Seq(R)
  <2> HIDE DEF n, A
  <2> QED
    BY <1>1, <1>2
<1>4. \A w \in R : w.to = "ask"
  <2>1. \A k : A(k).to = "ask"
    BY DEF Ask
  <2> HIDE DEF A
  <2> QED
    BY <2>1
<1> QED
  BY <1>3, <1>4

LEMMA AskAllPlan ==
  ASSUME ShopState
  PROVE  EarlyPlan(AskAll, Store) /\ CalmPlan(AskAll, Store)
<1>1. DOMAIN charge = 1..Len(charge) /\ Len(charge) \in Nat
  BY StoreIs, LenProperties DEF ShopState, Shaped, ChargeList
<1>2. PICK S : S = Having(charge, IsReceived)
  OBVIOUS
<1>3. IsFiniteSet(S)
  <2>1. IsFiniteSet(1..Len(charge)) /\ S \subseteq 1..Len(charge)
    BY <1>1, <1>2, FS_Interval DEF Having
  <2> QED
    BY <2>1, FS_Subset
<1>4. PICK R : Asks(S) \in Seq(R) /\ \A w \in R : w.to = "ask"
  BY <1>3, AsksListed
<1>5. \A w \in R : EarlyWrite(w, Store) /\ LateWrite(w, Store)
  BY <1>4 DEF EarlyWrite, LateWrite, ShopWrite, TowInPlace, CalmWrite, Kinds
<1>6. AskAll = Asks(S)
  BY <1>2 DEF AskAll
<1> QED
  BY <1>4, <1>5, <1>6 DEF EarlyPlan, CalmPlan

\* The charges made for ticket t are made for one that is not on hold.
LEMMA PaysPlan ==
  ASSUME NEW t, NEW method, ~Refused(t, method), NEW s0, s0.ticket.hold = t.hold
  PROVE  EarlyPlan(Pays(t, method), s0) /\ CalmPlan(Pays(t, method), s0)
<1>1. ~s0.ticket.hold
  BY DEF Refused, Payable
<1>2. ASSUME NEW c PROVE EarlyWrite(Cancel(c), s0) /\ LateWrite(Cancel(c), s0)
  BY DEF Cancel, EarlyWrite, LateWrite, ShopWrite, TowInPlace, CalmWrite, Kinds
<1>3. ASSUME NEW amount PROVE EarlyWrite(Create(method, amount), s0) /\ LateWrite(Create(method, amount), s0)
  BY <1>1 DEF Create, Charge, EarlyWrite, LateWrite, ShopWrite, TowInPlace, CalmWrite, Kinds
<1>4. PICK c, amount : c = Newest(Having(charge, OpenBalance)) /\ amount = Owed(t)
  OBVIOUS
<1>5. Pays(t, method) \in {<<>>, <<Cancel(c), Create(method, amount)>>, <<Create(method, amount)>>}
  BY <1>4 DEF Pays
<1>6. /\ EarlyPlan(<<>>, s0) /\ EarlyPlan(<<Create(method, amount)>>, s0)
      /\ EarlyPlan(<<Cancel(c), Create(method, amount)>>, s0)
  BY <1>2, <1>3, EarlyFew
<1>7. /\ CalmPlan(<<>>, s0) /\ CalmPlan(<<Create(method, amount)>>, s0)
      /\ CalmPlan(<<Cancel(c), Create(method, amount)>>, s0)
  BY <1>2, <1>3, CalmFew
<1> QED
  BY <1>5, <1>6, <1>7

LEMMA StatusWrite ==
  ASSUME NEW s0, NEW v
  PROVE  EarlyWrite(Status(v), s0) /\ (v \in Over => LateWrite(Status(v), s0))
BY DEF Status, EarlyWrite, LateWrite, ShopWrite, TowInPlace, CalmWrite, Kinds

LEMMA VoidWrite ==
  ASSUME NEW s0
  PROVE  EarlyWrite(Void, s0) /\ LateWrite(Void, s0)
BY DEF Void, EarlyWrite, LateWrite, ShopWrite, TowInPlace, CalmWrite, Kinds

LEMMA SetWrite ==
  ASSUME NEW s0, NEW f, DOMAIN f \cap Asked = {}
  PROVE  /\ EarlyWrite(Set(f), s0)
         /\ DOMAIN f \cap {"status", "offer"} = {} => LateWrite(Set(f), s0)
BY DEF Set, EarlyWrite, LateWrite, ShopWrite, TowInPlace, CalmWrite, Kinds

LEMMA ChargeWrite ==
  ASSUME NEW s0, NEW c, NEW amount, NEW v, v # "PENDING"
  PROVE  /\ EarlyWrite(Adjust(c, amount), s0) /\ LateWrite(Cancel(c), s0) /\ LateWrite(Paid(c, v), s0)
BY DEF Adjust, Cancel, Paid, EarlyWrite, LateWrite, ShopWrite, TowInPlace, CalmWrite, Kinds

\* A handler that only moves the ticket.
LEMMA MovesEarly ==
  ASSUME ShopState, ~Answered(ticket), NEW v, Perform(<<Status(v)>>)
  PROVE  Result
<1>1. EarlyPlan(<<Status(v)>>, Store)
  BY StatusWrite, EarlyFew
<1> QED
  BY <1>1, EarlyStep

\* A visit that is not over and whose work is not done may still ask for a tow.
LEMMA StillEarly ==
  ASSUME ticket.status \notin Over \cup {"READY", "UNFIXABLE"}
  PROVE  ~Answered(ticket)
BY DEF Answered

LEMMA VisitSteps ==
  ASSUME ShopState,
         Accept \/ DeclineDispatch \/ SweepStaleWalkIns \/ Arrive \/ Receive \/ StartWork
  PROVE  Result
<1>1. ~Answered(ticket)
  BY StillEarly DEF Accept, DeclineDispatch, SweepStaleWalkIns, Arrive, Receive, StartWork, Open, Over
<1>2. CASE Accept
  BY <1>1, <1>2, MovesEarly DEF Accept
<1>3. CASE DeclineDispatch
  BY <1>1, <1>3, MovesEarly DEF DeclineDispatch
<1>4. CASE SweepStaleWalkIns
  BY <1>1, <1>4, MovesEarly DEF SweepStaleWalkIns
<1>5. CASE Arrive
  BY <1>1, <1>5, MovesEarly DEF Arrive
<1>6. CASE Receive
  BY <1>1, <1>6, MovesEarly DEF Receive
<1>7. CASE StartWork
  BY <1>1, <1>7, MovesEarly DEF StartWork
<1> QED
  BY <1>2, <1>3, <1>4, <1>5, <1>6, <1>7

LEMMA MarkReadyStep ==
  ASSUME ShopState, MarkReady
  PROVE  Result
<1>1. ~Answered(ticket)
  BY StillEarly DEF MarkReady, Open, Over
<1>2. EarlyPlan(<<Status("READY"), Set([offer |-> "PENDING"])>>, Store)
  <2>1. EarlyWrite(Set([offer |-> "PENDING"]), Store)
    BY SetWrite DEF Asked
  <2> QED
    BY <2>1, StatusWrite, EarlyFew
<1> QED
  BY <1>1, <1>2, EarlyStep DEF MarkReady

LEMMA ResolveStep ==
  ASSUME ShopState, Resolve
  PROVE  Result
<1>1. CalmPlan(<<Status("RESOLVED")>>, Store)
  BY StatusWrite, CalmFew DEF Over
<1> QED
  BY <1>1, CalmStep DEF Resolve

LEMMA RiderCancelsStep ==
  ASSUME ShopState, RiderCancels
  PROVE  Result
<1>1. CalmPlan(<<Void>>, Store) /\ CalmPlan(AskAll, Store)
  BY VoidWrite, CalmFew, AskAllPlan
<1>2. CalmPlan(<<Status("CANCELLED"), Set([cancelledBy |-> "rider"])>>, Store)
  <2>1. LateWrite(Set([cancelledBy |-> "rider"]), Store)
    BY SetWrite DEF Asked
  <2> QED
    BY <2>1, StatusWrite, CalmFew DEF Over
<1>3. CalmPlan(<<Void>> \o AskAll, Store)
  BY <1>1, CalmJoined
<1>4. CalmPlan(<<Void>> \o AskAll \o <<Status("CANCELLED"), Set([cancelledBy |-> "rider"])>>, Store)
  BY <1>2, <1>3, CalmJoined
<1> QED
  BY <1>4, CalmStep DEF RiderCancels

LEMMA ReleaseTicketStep ==
  ASSUME ShopState, ReleaseTicket
  PROVE  Result
<1>1. ~Answered(ticket)
  BY StillEarly DEF ReleaseTicket, Open, Over
<1>2. EarlyPlan(<<Void, Set([released |-> TRUE]), Status("CANCELLED")>>, Store)
  <2>1. EarlyWrite(Set([released |-> TRUE]), Store)
    BY SetWrite DEF Asked
  <2> QED
    BY <2>1, VoidWrite, StatusWrite, EarlyFew
<1> QED
  BY <1>1, <1>2, EarlyStep DEF ReleaseTicket

LEMMA MarkUnfixableStep ==
  ASSUME ShopState, MarkUnfixable
  PROVE  Result
<1>1. ~Answered(ticket)
  BY StillEarly DEF MarkUnfixable, Open, Over
<1>2. EarlyPlan(<<Set([offer |-> "PENDING"]), Status("UNFIXABLE"), Void>>, Store)
  <2>1. EarlyWrite(Set([offer |-> "PENDING"]), Store)
    BY SetWrite DEF Asked
  <2> QED
    BY <2>1, VoidWrite, StatusWrite, EarlyFew
<1> QED
  BY <1>1, <1>2, EarlyStep DEF MarkUnfixable

LEMMA SendQuoteStep ==
  ASSUME ShopState, SendQuote
  PROVE  Result
<1>1. ~Answered(ticket)
  BY StillEarly DEF SendQuote, Open, Over, QuoteStates
<1>2. ASSUME NEW a, NEW n, Perform(<<Set([quote |-> a, clock |-> "running", quoteVersion |-> n])>>)
      PROVE  Result
  <2>1. EarlyWrite(Set([quote |-> a, clock |-> "running", quoteVersion |-> n]), Store)
    BY SetWrite DEF Asked
  <2>2. EarlyPlan(<<Set([quote |-> a, clock |-> "running", quoteVersion |-> n])>>, Store)
    BY <2>1, EarlyFew
  <2> QED
    BY <1>1, <1>2, <2>2, EarlyStep
<1>3. ASSUME NEW a, NEW n, NEW p,
             Perform(<<Set([quote |-> a, clock |-> "running", quoteVersion |-> n, pre |-> p]), Status("QUOTED")>>)
      PROVE  Result
  <2>1. EarlyWrite(Set([quote |-> a, clock |-> "running", quoteVersion |-> n, pre |-> p]), Store)
    BY SetWrite DEF Asked
  <2>2. EarlyPlan(<<Set([quote |-> a, clock |-> "running", quoteVersion |-> n, pre |-> p]), Status("QUOTED")>>, Store)
    BY <2>1, StatusWrite, EarlyFew
  <2> QED
    BY <1>1, <1>3, <2>2, EarlyStep
<1> QED
  BY <1>2, <1>3 DEF SendQuote

LEMMA ApproveQuoteStep ==
  ASSUME ShopState, ApproveQuote
  PROVE  Result
<1>1. ~Answered(ticket)
  BY StillEarly DEF ApproveQuote, Open, Over
<1>2. EarlyPlan(<<Status("IN_PROGRESS")>>, Store)
  BY StatusWrite, EarlyFew
<1>3. ASSUME ~Refused(ticket, "CASH"), Perform(Pays(ticket, "CASH") \o <<Status("IN_PROGRESS")>>)
      PROVE  Result
  <2>1. EarlyPlan(Pays(ticket, "CASH"), Store)
    BY <1>3, PaysPlan, StoreIs
  <2>2. EarlyPlan(Pays(ticket, "CASH") \o <<Status("IN_PROGRESS")>>, Store)
    BY <1>2, <2>1, EarlyJoined
  <2> QED
    BY <1>1, <1>3, <2>2, EarlyStep
<1> QED
  BY <1>1, <1>2, <1>3, EarlyStep DEF ApproveQuote

LEMMA ExpirePlan == EarlyPlan(ExpireWrites, Store)
<1>1. EarlyWrite(Set(NoQuoteNoClock), Store)
  BY SetWrite DEF Asked, NoQuoteNoClock
<1> QED
  BY <1>1, VoidWrite, StatusWrite, EarlyFew DEF ExpireWrites

LEMMA ApproveLateStep ==
  ASSUME ShopState, ApproveLate
  PROVE  Result
<1>1. CASE Open({"QUOTED"})
  <2>1. ~Answered(ticket)
    BY <1>1, StillEarly DEF Open, Over
  <2> QED
    BY <1>1, <2>1, ExpirePlan, EarlyStep DEF ApproveLate
<1>2. CASE ~Open({"QUOTED"})
  <2>1. faults' = faults + 1 /\ Reached(ExpireWrites)
    BY <1>2 DEF ApproveLate
  <2>2. PICK R : ExpireWrites \in Seq(R) /\ \A w \in R : EarlyWrite(w, Store)
    BY ExpirePlan DEF EarlyPlan
  <2> QED
    BY <2>1, <2>2, EarlyReached
<1> QED
  BY <1>1, <1>2

LEMMA DeclineQuoteStep ==
  ASSUME ShopState, DeclineQuote
  PROVE  Result
<1>1. ~Answered(ticket)
  BY StillEarly DEF DeclineQuote, Open, Over
<1>2. EarlyPlan(<<Set(NoQuote), Void>>, Store)
  <2>1. EarlyWrite(Set(NoQuote), Store)
    BY SetWrite DEF Asked, NoQuote
  <2> QED
    BY <2>1, VoidWrite, EarlyFew
<1>3. EarlyPlan(<<Set(NoQuote), Void>> \o AskAll, Store)
  BY <1>2, AskAllPlan, EarlyJoined
<1>4. EarlyPlan(<<Status(BackTo)>>, Store)
  BY StatusWrite, EarlyFew
<1>5. EarlyPlan(<<Set(NoQuote), Void>> \o AskAll \o <<Status(BackTo)>>, Store)
  BY <1>3, <1>4, EarlyJoined
<1> QED
  BY <1>1, <1>5, EarlyStep DEF DeclineQuote

LEMMA SweepExpiredQuotesStep ==
  ASSUME ShopState, SweepExpiredQuotes
  PROVE  Result
<1>1. ~Answered(ticket)
  BY StillEarly DEF SweepExpiredQuotes, Open, Over
<1> QED
  BY <1>1, ExpirePlan, EarlyStep DEF SweepExpiredQuotes

LEMMA QuickFixStep ==
  ASSUME ShopState, QuickFix
  PROVE  Result
<1>1. ~Answered(ticket)
  BY StillEarly DEF QuickFix, Open, Over
<1>2. PICK amount \in Quotes :
        LET quoted == Set([quote |-> amount, pre |-> ticket.status,
                           quoteVersion |-> ticket.quoteVersion + 1])
            then == With(quoted.fields, ticket)
        IN Perform(<<quoted>> \o IF Refused(then, "CASH") THEN <<>>
                                 ELSE Pays(then, "CASH") \o <<Status("IN_PROGRESS")>>)
  BY Zenon DEF QuickFix
<1>3. PICK f : f = [quote |-> amount, pre |-> ticket.status, quoteVersion |-> ticket.quoteVersion + 1]
  OBVIOUS
<1>4. PICK t : t = With(f, ticket)
  OBVIOUS
<1>5. Perform(<<Set(f)>> \o IF Refused(t, "CASH") THEN <<>> ELSE Pays(t, "CASH") \o <<Status("IN_PROGRESS")>>)
  BY <1>2, <1>3, <1>4 DEF Set
<1>6. EarlyPlan(<<Set(f)>>, Store)
  <2>1. EarlyWrite(Set(f), Store)
    BY <1>3, SetWrite DEF Asked
  <2> QED
    BY <2>1, EarlyFew
<1>7. Store.ticket.hold = t.hold
  BY <1>3, <1>4, StoreIs DEF With, ShopState, Shaped, TicketFields
<1>8. EarlyPlan(IF Refused(t, "CASH") THEN <<>> ELSE Pays(t, "CASH") \o <<Status("IN_PROGRESS")>>, Store)
  <2>1. EarlyPlan(<<>>, Store) /\ EarlyPlan(<<Status("IN_PROGRESS")>>, Store)
    BY StatusWrite, EarlyFew
  <2>2. ASSUME ~Refused(t, "CASH") PROVE EarlyPlan(Pays(t, "CASH") \o <<Status("IN_PROGRESS")>>, Store)
    BY <1>7, <2>1, <2>2, PaysPlan, EarlyJoined
  <2> QED
    BY <2>1, <2>2
<1>9. EarlyPlan(<<Set(f)>> \o IF Refused(t, "CASH") THEN <<>> ELSE Pays(t, "CASH") \o <<Status("IN_PROGRESS")>>, Store)
  BY <1>6, <1>8, EarlyJoined
<1> QED
  BY <1>1, <1>5, <1>9, EarlyStep

LEMMA UpdateWorkOrderStep ==
  ASSUME ShopState, UpdateWorkOrder
  PROVE  Result
<1>1. ~Answered(ticket)
  BY StillEarly DEF UpdateWorkOrder, Open, Over
<1>2. PICK total, other, c, due, approval, n :
        Perform((IF other THEN <<Adjust(c, due)>> ELSE <<>>)
                \o <<Set([invoice |-> total, approval |-> approval, invoiceVersion |-> n])>>)
  <2>1. PICK total \in Free(Totals) :
          LET other == ticket.quote # None /\ total # ticket.quote
              cash == Having(charge, PendingCash)
              funded(p) == Fund(p) /\ p.status # "PENDING"
          IN /\ ~(other /\ SomeCharge(funded))
             /\ Perform((IF other /\ cash # {}
                         THEN <<Adjust(Newest(cash), Most(0, total - ticket.credit))>> ELSE <<>>)
                        \o <<Set([invoice |-> total, approval |-> IF other THEN "PENDING" ELSE "APPROVED",
                                   invoiceVersion |-> ticket.invoiceVersion + 1])>>)
    BY Zenon DEF UpdateWorkOrder
  <2> DEFINE cash == Having(charge, PendingCash)
             other == ticket.quote # None /\ total # ticket.quote
  <2>2. Perform((IF other /\ cash # {}
                 THEN <<Adjust(Newest(cash), Most(0, total - ticket.credit))>> ELSE <<>>)
                \o <<Set([invoice |-> total, approval |-> IF other THEN "PENDING" ELSE "APPROVED",
                           invoiceVersion |-> ticket.invoiceVersion + 1])>>)
    BY <2>1
  <2>3. PICK o, c, due, approval, n :
          /\ o = (other /\ cash # {}) /\ c = Newest(cash) /\ due = Most(0, total - ticket.credit)
          /\ approval = (IF other THEN "PENDING" ELSE "APPROVED") /\ n = ticket.invoiceVersion + 1
    OBVIOUS
  <2> HIDE DEF cash, other
  <2>4. Perform((IF o THEN <<Adjust(c, due)>> ELSE <<>>)
                \o <<Set([invoice |-> total, approval |-> approval, invoiceVersion |-> n])>>)
    BY <2>2, <2>3
  <2> QED
    BY <2>4
<1>3. EarlyPlan(<<Set([invoice |-> total, approval |-> approval, invoiceVersion |-> n])>>, Store)
  <2>1. EarlyWrite(Set([invoice |-> total, approval |-> approval, invoiceVersion |-> n]), Store)
    BY SetWrite DEF Asked
  <2> QED
    BY <2>1, EarlyFew
<1>4. EarlyPlan(<<>>, Store) /\ EarlyPlan(<<Adjust(c, due)>>, Store)
  <2>1. EarlyWrite(Adjust(c, due), Store)
    BY ChargeWrite
  <2> QED
    BY <2>1, EarlyFew
<1>5. CASE other
  <2>1. EarlyPlan(<<Adjust(c, due)>> \o <<Set([invoice |-> total, approval |-> approval, invoiceVersion |-> n])>>, Store)
    BY <1>3, <1>4, EarlyJoined
  <2> QED
    BY <1>1, <1>2, <1>5, <2>1, EarlyStep
<1>6. CASE ~other
  <2>1. EarlyPlan(<<>> \o <<Set([invoice |-> total, approval |-> approval, invoiceVersion |-> n])>>, Store)
    BY <1>3, <1>4, EarlyJoined
  <2> QED
    BY <1>1, <1>2, <1>6, <2>1, EarlyStep
<1> QED
  BY <1>5, <1>6

LEMMA ApproveInvoiceStep ==
  ASSUME ShopState, ApproveInvoice
  PROVE  Result
<1>1. LateWrite(Set([approval |-> "APPROVED"]), Store)
  BY SetWrite DEF Asked
<1>2. CalmPlan(<<Set([approval |-> "APPROVED"])>>, Store)
  BY <1>1, CalmFew
<1> QED
  BY <1>2, CalmStep DEF ApproveInvoice

LEMMA CreatePaymentStep ==
  ASSUME ShopState, CreatePayment
  PROVE  Result
<1>1. PICK method : ~Refused(ticket, method) /\ Perform(Pays(ticket, method))
  BY DEF CreatePayment
<1>2. CalmPlan(Pays(ticket, method), Store)
  BY <1>1, PaysPlan, StoreIs
<1> QED
  BY <1>1, <1>2, CalmStep

LEMMA MoneySteps ==
  ASSUME ShopState, NEW c,
         CancelPendingPayment \/ ConfirmCash \/ Ipn(c) \/ RefundSent(c)
  PROVE  Result
<1>1. ASSUME NEW d, NEW v, v # "PENDING", Perform(<<Paid(d, v)>>) PROVE Result
  <2>1. LateWrite(Paid(d, v), Store)
    BY <1>1, ChargeWrite
  <2>2. CalmPlan(<<Paid(d, v)>>, Store)
    BY <2>1, CalmFew
  <2> QED
    BY <1>1, <2>2, CalmStep
<1>2. ASSUME NEW d, Perform(<<Cancel(d)>>) PROVE Result
  <2>1. LateWrite(Cancel(d), Store)
    BY ChargeWrite
  <2>2. CalmPlan(<<Cancel(d)>>, Store)
    BY <2>1, CalmFew
  <2> QED
    BY <1>2, <2>2, CalmStep
<1>3. CASE CancelPendingPayment
  BY <1>2, <1>3 DEF CancelPendingPayment
<1>4. CASE ConfirmCash
  BY <1>1, <1>4 DEF ConfirmCash
<1>5. CASE Ipn(c)
  BY <1>1, <1>5 DEF Ipn
<1>6. CASE RefundSent(c)
  BY <1>1, <1>6 DEF RefundSent
<1> QED
  BY <1>3, <1>4, <1>5, <1>6

-----------------------------------------------------------------------------
(* The steps of a tow.                                                     *)

LEMMA TowMoved ==
  ASSUME ShopState, NEW i \in Going(tow), NEW v \in {"OPEN", "ARRIVED", "RESOLVED", "CANCELLED"}
  PROVE  LateWrite(Tow(i, [status |-> v]), Store)
<1>1. i \in Going(Store.tow) /\ i \in DOMAIN Store.tow
  BY StoreIs DEF Going
<1> QED
  BY <1>1 DEF Tow, LateWrite, ShopWrite, TowInPlace, CalmWrite, Kinds, TowFields, TowValues

LEMMA TowArrivesStep ==
  ASSUME ShopState, NEW i \in DOMAIN tow, TowArrives(i)
  PROVE  Result
<1>1. i \in Going(tow)
  BY DEF TowArrives, Going
<1>2. CalmPlan(<<Tow(i, [status |-> "ARRIVED"])>>, Store)
  BY <1>1, TowMoved, CalmFew
<1> QED
  BY <1>2, CalmStep DEF TowArrives

LEMMA TowDeliveredStep ==
  ASSUME ShopState, NEW i \in DOMAIN tow, TowDelivered(i)
  PROVE  Result
<1>1. i \in Going(tow)
  BY DEF TowDelivered, Going
<1>2. PICK closes : Perform(<<Tow(i, [status |-> "RESOLVED"])>> \o IF closes THEN <<Status("RESOLVED")>> ELSE <<>>)
  BY DEF TowDelivered
<1>3. LateWrite(Tow(i, [status |-> "RESOLVED"]), Store) /\ LateWrite(Status("RESOLVED"), Store)
  BY <1>1, TowMoved, StatusWrite DEF Over
<1>4. /\ CalmPlan(<<Tow(i, [status |-> "RESOLVED"])>>, Store) /\ CalmPlan(<<>>, Store)
      /\ CalmPlan(<<Status("RESOLVED")>>, Store)
  BY <1>3, CalmFew
<1>5. CalmPlan(<<Tow(i, [status |-> "RESOLVED"])>> \o IF closes THEN <<Status("RESOLVED")>> ELSE <<>>, Store)
  BY <1>4, CalmJoined
<1> QED
  BY <1>2, <1>5, CalmStep

\* The documents after three writes, and after the first ones.
LEMMA AfterThree ==
  ASSUME NEW a, NEW b, NEW c
  PROVE  /\ After(<<a>>) = Apply(Store, a)
         /\ After(<<a, b>>) = Apply(Apply(Store, a), b)
         /\ After(<<a, b, c>>) = Apply(Apply(Apply(Store, a), b), c)
<1>1. Len(<<a>>) = 1 /\ Len(<<a, b>>) = 2 /\ Len(<<a, b, c>>) = 3
  OBVIOUS
<1>2. After(<<a>>) = Apply(Store, a)
  <2>1. PICK x : Path(x, Store, <<a>>, 1) /\ After(<<a>>) = x[1]
    BY <1>1, AfterIsPath
  <2>2. x[0] = Store /\ x[1] = Apply(x[0], a)
    BY <2>1 DEF Path
  <2> QED
    BY <2>1, <2>2
<1>3. After(<<a, b>>) = Apply(Apply(Store, a), b)
  <2>1. PICK x : Path(x, Store, <<a, b>>, 2) /\ After(<<a, b>>) = x[2]
    BY <1>1, AfterIsPath
  <2>2. x[0] = Store /\ x[1] = Apply(x[0], a) /\ x[2] = Apply(x[1], b)
    BY <2>1 DEF Path
  <2> QED
    BY <2>1, <2>2
<1>4. After(<<a, b, c>>) = Apply(Apply(Apply(Store, a), b), c)
  <2>1. PICK x : Path(x, Store, <<a, b, c>>, 3) /\ After(<<a, b, c>>) = x[3]
    BY <1>1, AfterIsPath
  <2>2. x[0] = Store /\ x[1] = Apply(x[0], a) /\ x[2] = Apply(x[1], b) /\ x[3] = Apply(x[2], c)
    BY <2>1 DEF Path
  <2> QED
    BY <2>1, <2>2
<1> QED
  BY <1>2, <1>3, <1>4

LEMMA OneLong ==
  ASSUME NEW S, NEW w \in Seq(S), Len(w) = 1
  PROVE  w = <<w[1]>>
OBVIOUS

LEMMA TwoLong ==
  ASSUME NEW S, NEW w \in Seq(S), Len(w) = 2
  PROVE  w = <<w[1], w[2]>>
OBVIOUS

LEMMA PerformedThree ==
  ASSUME NEW a, NEW b, NEW c, ~a.soft, ~b.soft, ~c.soft, Perform(<<a, b, c>>)
  PROVE  \/ Reached(<<a, b, c>>) /\ faults' = faults
         \/ (Reached(<<a>>) \/ Reached(<<a, b>>)) /\ faults' = faults + 1
<1>1. SubSeq(<<a, b, c>>, 1, 1) = <<a>> /\ SubSeq(<<a, b, c>>, 1, 2) = <<a, b>>
  <2>1. PICK S, w : S = {a, b, c} /\ w = <<a, b, c>>
    OBVIOUS
  <2>2. w[1] = a /\ w[2] = b /\ (\A i \in 1..1 : w[i] \in S) /\ (\A i \in 1..2 : w[i] \in S)
    BY <2>1
  <2>3. SubSeq(w, 1, 1) \in Seq(S) /\ Len(SubSeq(w, 1, 1)) = 1 /\ SubSeq(w, 1, 1)[1] = a
    BY <2>2, SubSeqProperties
  <2>4. /\ SubSeq(w, 1, 2) \in Seq(S) /\ Len(SubSeq(w, 1, 2)) = 2
        /\ SubSeq(w, 1, 2)[1] = a /\ SubSeq(w, 1, 2)[2] = b
    BY <2>2, SubSeqProperties
  <2>5. SubSeq(w, 1, 1) = <<a>>
    BY <2>3, OneLong
  <2>6. SubSeq(w, 1, 2) = <<a, b>>
    BY <2>4, TwoLong
  <2> QED
    BY <2>1, <2>5, <2>6
<1>2. \A n \in 1..(Len(<<a, b, c>>) - 1) : n = 1 \/ n = 2
  OBVIOUS
<1>3. \A i \in DOMAIN <<a, b, c>> : ~ <<a, b, c>>[i].soft
  OBVIOUS
<1> QED
  BY <1>1, <1>2, <1>3 DEF Perform

LEMMA PerformedTwo ==
  ASSUME NEW a, NEW b, ~a.soft, ~b.soft, Perform(<<a, b>>)
  PROVE  \/ Reached(<<a, b>>) /\ faults' = faults
         \/ Reached(<<a>>) /\ faults' = faults + 1
<1>1. SubSeq(<<a, b>>, 1, 1) = <<a>>
  <2>1. PICK S, w : S = {a, b} /\ w = <<a, b>>
    OBVIOUS
  <2>2. w[1] = a /\ (\A i \in 1..1 : w[i] \in S)
    BY <2>1
  <2>3. SubSeq(w, 1, 1) \in Seq(S) /\ Len(SubSeq(w, 1, 1)) = 1 /\ SubSeq(w, 1, 1)[1] = a
    BY <2>2, SubSeqProperties
  <2> QED
    BY <2>1, <2>3, OneLong
<1>2. \A n \in 1..(Len(<<a, b>>) - 1) : n = 1
  OBVIOUS
<1>3. \A i \in DOMAIN <<a, b>> : ~ <<a, b>>[i].soft
  OBVIOUS
<1> QED
  BY <1>1, <1>2, <1>3 DEF Perform

LEMMA ResultOf ==
  ASSUME ShopState, NEW V, Reached(V), Spares(After(V), Store), faults' = faults \/ faults' = faults + 1,
         Cardinality(Going(After(V).tow)) + MayAsk(After(V).ticket) <= 1 + faults'
  PROVE  Result
<1>1. Store' = After(V)
  BY ReachedStore DEF Spares
<1>2. tow' = After(V).tow /\ ticket' = After(V).ticket
  BY DEF Reached
<1> QED
  BY <1>1, <1>2 DEF Result, ShopState, TowInv

LEMMA AddedTow ==
  ASSUME NEW g, IsFiniteSet(g), NEW x, NEW h, h \subseteq g \cup {x}
  PROVE  IsFiniteSet(h) /\ Cardinality(h) \in Nat /\ Cardinality(g) \in Nat /\ Cardinality(h) <= Cardinality(g) + 1
<1>0. Cardinality(g) \in Nat
  BY FS_CardinalityType
<1>1. IsFiniteSet(g \cup {x}) /\ Cardinality(g \cup {x}) <= Cardinality(g) + 1
  <2>1. /\ IsFiniteSet(g \cup {x})
        /\ Cardinality(g \cup {x}) = IF x \in g THEN Cardinality(g) ELSE Cardinality(g) + 1
    BY FS_AddElement
  <2> QED
    BY <1>0, <2>1
<1>2. IsFiniteSet(h) /\ Cardinality(h) <= Cardinality(g \cup {x})
  BY <1>1, FS_Subset
<1>3. Cardinality(h) \in Nat /\ Cardinality(g) \in Nat /\ Cardinality(g \cup {x}) \in Nat
  BY <1>1, <1>2, FS_CardinalityType
<1> QED
  BY <1>1, <1>2, <1>3

LEMMA RemovedTow ==
  ASSUME NEW g, IsFiniteSet(g), NEW x \in g, NEW h, h \subseteq g \ {x}
  PROVE  IsFiniteSet(h) /\ Cardinality(h) \in Nat /\ Cardinality(g) \in Nat /\ Cardinality(h) + 1 <= Cardinality(g)
<1>1. IsFiniteSet(g \ {x}) /\ Cardinality(g \ {x}) = Cardinality(g) - 1
  BY FS_RemoveElement
<1>2. IsFiniteSet(h) /\ Cardinality(h) <= Cardinality(g \ {x})
  BY <1>1, FS_Subset
<1> QED
  BY <1>1, <1>2, FS_CardinalityType

LEMMA RespondReturnTowStep ==
  ASSUME ShopState, RespondReturnTow
  PROVE  Result
<1>0. ~Answered(ticket)
  BY DEF RespondReturnTow, Open, Answered, Over
<1>1. CASE Perform(<<Set([offer |-> "DECLINED"])>>)
  <2>1. EarlyWrite(Set([offer |-> "DECLINED"]), Store)
    BY SetWrite DEF Asked
  <2>2. EarlyPlan(<<Set([offer |-> "DECLINED"])>>, Store)
    BY <2>1, EarlyFew
  <2> QED
    BY <1>0, <1>1, <2>2, EarlyStep
<1>2. ASSUME Perform(<<Tow(NextTow, [status |-> "OPEN", linked |-> FALSE]),
                       Set([offer |-> "ACCEPTED", links |-> ticket.links \cup {NextTow}]),
                       Tow(NextTow, [linked |-> TRUE])>>)
      PROVE  Result
  <2>1. PICK n, a, b, c : /\ n = NextTow /\ a = Tow(n, [status |-> "OPEN", linked |-> FALSE])
                          /\ b = Set([offer |-> "ACCEPTED", links |-> ticket.links \cup {n}])
                          /\ c = Tow(n, [linked |-> TRUE])
    OBVIOUS
  <2>2. Perform(<<a, b, c>>) /\ ~a.soft /\ ~b.soft /\ ~c.soft
    BY <1>2, <2>1 DEF Tow, Set
  <2>3. PICK s1, s2, s3 : s1 = Apply(Store, a) /\ s2 = Apply(s1, b) /\ s3 = Apply(s2, c)
    OBVIOUS
  <2>4. /\ Shaped(Store) /\ tow \in Seq(TowDoc) /\ DOMAIN tow = 1..Len(tow) /\ Len(tow) \in Nat
        /\ n = Len(tow) + 1 /\ n \notin DOMAIN tow /\ IsFiniteSet(Going(tow)) /\ Cardinality(Going(tow)) \in Nat
    BY <2>1, StoreIs, TowsWritten DEF ShopState, Shaped, NextTow
  <2>a. /\ a.to = "tow" /\ a.i = n /\ DOMAIN a.fields \subseteq TowFields
        /\ \A x \in DOMAIN a.fields : a.fields[x] \in TowValues
        /\ a.fields \in TowDoc
    <3>1. PICK f : f = [status |-> "OPEN", linked |-> FALSE]
      OBVIOUS
    <3>2. a.to = "tow" /\ a.i = n /\ a.fields = f
      BY <2>1, <3>1 DEF Tow
    <3>3. DOMAIN f = TowFields /\ f["status"] \in TowValues /\ f["linked"] \in TowValues
      BY <3>1 DEF TowFields, TowValues
    <3>4. f = [x \in TowFields |-> f[x]] /\ \A x \in TowFields : f[x] \in TowValues
      BY <3>1, <3>3 DEF TowFields
    <3>5. f \in TowDoc
      BY <3>4 DEF TowDoc
    <3> QED
      BY <3>2, <3>3, <3>4, <3>5
  <2>b. /\ b.to = "ticket" /\ DOMAIN b.fields = {"offer", "links"} /\ b.fields["offer"] = "ACCEPTED"
    BY <2>1 DEF Set
  <2>c. /\ c.to = "tow" /\ c.i = n /\ DOMAIN c.fields = {"linked"} /\ c.fields["linked"] = TRUE
    BY <2>1 DEF Tow
  <2>5. /\ Spares(Store, Store) /\ TowInPlace(a, Store) /\ ShopWrite(a, Store.ticket) /\ ShopWrite(b, Store.ticket)
        /\ ShopWrite(c, Store.ticket)
    <3>1. Spares(Store, Store) /\ TowInPlace(a, Store)
      BY <2>4, <2>a DEF Spares, NoneAdded, TowInPlace
    <3>2. ShopWrite(a, Store.ticket)
      BY <2>a DEF ShopWrite, Kinds
    <3>3. ShopWrite(b, Store.ticket)
      BY <2>b DEF ShopWrite, Kinds, Asked
    <3>4. ShopWrite(c, Store.ticket)
      BY <2>c DEF ShopWrite, Kinds, TowFields, TowValues
    <3> QED
      BY <3>1, <3>2, <3>3, <3>4
  <2>6. Spares(s1, Store) /\ Shaped(s1)
    BY <2>3, <2>4, <2>5, AppliedKeeps DEF Spares
  <2>7. s1.ticket = ticket /\ DOMAIN s1.tow = 1..n /\ \A i \in DOMAIN tow : s1.tow[i] = tow[i]
    BY <2>3, <2>4, <2>5, <2>a, TowWritten, StoreIs
  <2>8. Spares(s2, Store) /\ Shaped(s2)
    BY <2>3, <2>4, <2>5, <2>6, <2>b, AppliedKeeps DEF Spares, TowInPlace
  <2>9. s2.tow = s1.tow /\ s2.ticket.offer = "ACCEPTED" /\ s2.ticket.status = ticket.status
    <3>1. {"offer", "status"} \subseteq DOMAIN s1.ticket
      BY <2>6 DEF Shaped, TicketFields
    <3>2. /\ s2.tow = s1.tow
          /\ \A x \in DOMAIN s1.ticket :
               s2.ticket[x] = IF x \in DOMAIN b.fields THEN b.fields[x] ELSE s1.ticket[x]
      BY <2>3, <2>6, <2>b, TicketWritten
    <3> QED
      BY <2>7, <2>b, <3>1, <3>2
  <2>10. TowInPlace(c, s2) /\ n \in DOMAIN s2.tow
    BY <2>4, <2>7, <2>9, <2>c DEF TowInPlace
  <2>11. Spares(s3, Store)
    BY <2>3, <2>4, <2>5, <2>8, <2>10, AppliedKeeps
  <2>12. /\ s3.ticket = s2.ticket /\ DOMAIN s3.tow = DOMAIN s2.tow
         /\ \A i \in DOMAIN s2.tow : i # n => s3.tow[i] = s2.tow[i]
    <3>1. DOMAIN c.fields \subseteq TowFields /\ \A x \in DOMAIN c.fields : c.fields[x] \in TowValues
      BY <2>c DEF TowFields, TowValues
    <3> QED
      BY <2>3, <2>8, <2>10, <2>c, <3>1, TowWritten
  <2>13. /\ Going(s1.tow) \subseteq Going(tow) \cup {n} /\ Going(s2.tow) \subseteq Going(tow) \cup {n}
         /\ Going(s3.tow) \subseteq Going(tow) \cup {n}
    BY <2>4, <2>7, <2>9, <2>12 DEF Going
  <2>14. MayAsk(ticket) = 1 /\ MayAsk(s1.ticket) = 1 /\ MayAsk(s2.ticket) = 0 /\ MayAsk(s3.ticket) = 0
    <3>1. Answered(s2.ticket)
      BY <1>0, <2>9, ShopAssumption DEF RespondReturnTow, Open, Answered
    <3> QED
      BY <1>0, <2>7, <2>12, <3>1 DEF MayAsk
  <2>15. /\ Cardinality(Going(s1.tow)) \in Nat /\ Cardinality(Going(s1.tow)) <= Cardinality(Going(tow)) + 1
         /\ Cardinality(Going(s2.tow)) \in Nat /\ Cardinality(Going(s2.tow)) <= Cardinality(Going(tow)) + 1
         /\ Cardinality(Going(s3.tow)) \in Nat /\ Cardinality(Going(s3.tow)) <= Cardinality(Going(tow)) + 1
    BY <2>4, <2>13, AddedTow
  <2>16. faults \in Nat /\ Cardinality(Going(tow)) <= faults
    BY <2>4, <2>14 DEF ShopState, TowInv
  <2>17. After(<<a>>) = s1 /\ After(<<a, b>>) = s2 /\ After(<<a, b, c>>) = s3
    BY <2>3, AfterThree
  <2>18. CASE Reached(<<a, b, c>>) /\ faults' = faults
    <3>1. Cardinality(Going(s3.tow)) + MayAsk(s3.ticket) <= 1 + faults'
      BY <2>4, <2>14, <2>15, <2>16, <2>18
    <3> QED
      BY <2>11, <2>17, <2>18, <3>1, ResultOf
  <2>19. CASE Reached(<<a>>) /\ faults' = faults + 1
    <3>1. Cardinality(Going(s1.tow)) + MayAsk(s1.ticket) <= 1 + faults'
      BY <2>4, <2>14, <2>15, <2>16, <2>19
    <3> QED
      BY <2>6, <2>17, <2>19, <3>1, ResultOf
  <2>20. CASE Reached(<<a, b>>) /\ faults' = faults + 1
    <3>1. Cardinality(Going(s2.tow)) + MayAsk(s2.ticket) <= 1 + faults'
      BY <2>4, <2>14, <2>15, <2>16, <2>20
    <3> QED
      BY <2>8, <2>17, <2>20, <3>1, ResultOf
  <2> QED
    BY <2>2, <2>18, <2>19, <2>20, PerformedThree
<1> QED
  BY Zenon, <1>1, <1>2 DEF RespondReturnTow

LEMMA TowCancelledStep ==
  ASSUME ShopState, NEW i \in DOMAIN tow, TowCancelled(i)
  PROVE  Result
<1>1. i \in Going(tow)
  BY DEF TowCancelled, Going
<1>2. PICK again : Perform(<<Tow(i, [status |-> "CANCELLED"])>>
                           \o IF again THEN <<Set([offer |-> "PENDING"])>> ELSE <<>>)
  BY DEF TowCancelled
<1>3. PICK a, b : a = Tow(i, [status |-> "CANCELLED"]) /\ b = Set([offer |-> "PENDING"])
  OBVIOUS
<1>4. LateWrite(a, Store)
  BY <1>1, <1>3, TowMoved
<1>5. CASE ~again
  <2>1. CalmPlan(<<a>>, Store) /\ CalmPlan(<<>>, Store)
    BY <1>4, CalmFew
  <2>2. CalmPlan(<<a>> \o <<>>, Store)
    BY <2>1, CalmJoined
  <2> QED
    BY <1>2, <1>3, <1>5, <2>2, CalmStep
<1>6. CASE again
  <2>1. <<a>> \o <<b>> = <<a, b>>
    <3>1. PICK S : S = {a, b}
      OBVIOUS
    <3>2. <<a>> \in Seq(S) /\ <<b>> \in Seq(S) /\ Len(<<a>>) = 1 /\ Len(<<b>>) = 1
      BY <3>1
    <3>3. PICK w : w = <<a>> \o <<b>>
      OBVIOUS
    <3>4. w \in Seq(S) /\ Len(w) = 2 /\ w[1] = a /\ w[2] = b
      BY <3>2, <3>3, ConcatProperties
    <3> QED
      BY <3>3, <3>4, TwoLong
  <2>2. Perform(<<a, b>>) /\ ~a.soft /\ ~b.soft
    BY <1>2, <1>3, <1>6, <2>1 DEF Tow, Set
  <2>3. PICK s1, s2 : s1 = Apply(Store, a) /\ s2 = Apply(s1, b)
    OBVIOUS
  <2>4. Shaped(Store) /\ tow \in Seq(TowDoc) /\ IsFiniteSet(Going(tow)) /\ Cardinality(Going(tow)) \in Nat
        /\ i \in DOMAIN Store.tow
    BY StoreIs, TowsWritten DEF ShopState, Shaped
  <2>a. /\ a.to = "tow" /\ a.i = i /\ DOMAIN a.fields = {"status"} /\ a.fields["status"] = "CANCELLED"
        /\ b.to = "ticket" /\ DOMAIN b.fields = {"offer"}
    BY <1>3 DEF Tow, Set
  <2>5. Spares(Store, Store) /\ TowInPlace(a, Store) /\ ShopWrite(a, Store.ticket) /\ ShopWrite(b, Store.ticket)
    <3>1. Spares(Store, Store)
      BY <2>4 DEF Spares, NoneAdded
    <3>2. ShopWrite(b, Store.ticket)
      BY <2>a DEF ShopWrite, Kinds, Asked
    <3> QED
      BY <1>4, <3>1, <3>2 DEF LateWrite
  <2>6. Spares(s1, Store) /\ Shaped(s1)
    BY <2>3, <2>4, <2>5, AppliedKeeps DEF Spares
  <2>7. /\ DOMAIN s1.tow = DOMAIN tow /\ s1.tow[i].status = "CANCELLED"
        /\ \A j \in DOMAIN tow : j # i => s1.tow[j] = tow[j]
    <3>1. DOMAIN a.fields \subseteq TowFields /\ \A x \in DOMAIN a.fields : a.fields[x] \in TowValues
      BY <2>a DEF TowFields, TowValues
    <3> QED
      BY <2>3, <2>4, <2>5, <2>a, <3>1, TowWritten, StoreIs
  <2>8. Spares(s2, Store)
    BY <2>3, <2>4, <2>5, <2>6, <2>a, AppliedKeeps DEF TowInPlace
  <2>9. s2.tow = s1.tow
    BY <2>3, <2>6, <2>a, TicketWritten
  <2>10. Going(s1.tow) \subseteq Going(tow) \ {i} /\ Going(s2.tow) \subseteq Going(tow) \ {i}
    BY <2>7, <2>9 DEF Going
  <2>11. /\ Cardinality(Going(s1.tow)) \in Nat /\ Cardinality(Going(s1.tow)) + 1 <= Cardinality(Going(tow))
         /\ Cardinality(Going(s2.tow)) \in Nat /\ Cardinality(Going(s2.tow)) + 1 <= Cardinality(Going(tow))
    BY <1>1, <2>4, <2>10, RemovedTow
  <2>12. faults \in Nat /\ Cardinality(Going(tow)) <= 1 + faults
    BY <2>4 DEF ShopState, TowInv, MayAsk
  <2>13. MayAsk(s1.ticket) \in {0, 1} /\ MayAsk(s2.ticket) \in {0, 1}
    BY DEF MayAsk
  <2>14. After(<<a>>) = s1 /\ After(<<a, b>>) = s2
    BY <2>3, AfterThree
  <2>15. CASE Reached(<<a, b>>) /\ faults' = faults
    <3>1. Cardinality(Going(s2.tow)) + MayAsk(s2.ticket) <= 1 + faults'
      BY <2>4, <2>11, <2>12, <2>13, <2>15
    <3> QED
      BY <2>8, <2>14, <2>15, <3>1, ResultOf
  <2>16. CASE Reached(<<a>>) /\ faults' = faults + 1
    <3>1. Cardinality(Going(s1.tow)) + MayAsk(s1.ticket) <= 1 + faults'
      BY <2>4, <2>11, <2>12, <2>13, <2>16
    <3> QED
      BY <2>6, <2>14, <2>16, <3>1, ResultOf
  <2> QED
    BY <2>2, <2>15, <2>16, PerformedTwo
<1> QED
  BY <1>5, <1>6

LEMMA ShopSteps ==
  ASSUME ShopState, Visit \/ Work \/ Money \/ Return
  PROVE  Result
<1>1. CASE Visit
  BY Zenon, <1>1, VisitSteps, MarkReadyStep, ResolveStep, RiderCancelsStep, ReleaseTicketStep, MarkUnfixableStep DEF Visit
<1>2. CASE Work
  BY Zenon, <1>2, SendQuoteStep, ApproveQuoteStep, ApproveLateStep, DeclineQuoteStep, SweepExpiredQuotesStep, QuickFixStep,
     UpdateWorkOrderStep, ApproveInvoiceStep DEF Work
<1>3. CASE Money
  BY Zenon, <1>3, CreatePaymentStep, MoneySteps DEF Money
<1>4. CASE Return
  BY Zenon, <1>4, RespondReturnTowStep, TowArrivesStep, TowCancelledStep, TowDeliveredStep DEF Return
<1> QED
  BY <1>1, <1>2, <1>3, <1>4
-----------------------------------------------------------------------------
(* The calls of Aftercare.                                                 *)

LEMMA ReachesElsewhere ==
  ASSUME NEW w, Reaches(w), w.to \in {"claim", "rework", "number", "invoice"}
  PROVE  ticket' = ticket /\ charge' = charge /\ tow' = tow /\ dispute' = dispute
BY DEF Reaches, CareApply, Documents

LEMMA ReachesDispute ==
  ASSUME NEW w, Reaches(w), w.to = "dispute"
  PROVE  /\ ticket' = ticket /\ charge' = charge /\ tow' = tow
         /\ DOMAIN dispute' = DOMAIN dispute \cup {w.i}
         /\ \A d \in DOMAIN dispute : d # w.i => dispute'[d] = dispute[d]
         /\ w.i \in DOMAIN dispute => dispute'[w.i] = With(w.fields, dispute[w.i])
         /\ w.i \notin DOMAIN dispute => dispute'[w.i] = w.fields
<1> DEFINE doc == IF w.i \in DOMAIN dispute THEN With(w.fields, dispute[w.i]) ELSE w.fields
           new == [i \in DOMAIN dispute \cup {w.i} |-> IF i = w.i THEN doc ELSE dispute[i]]
<1>1. CareApply(Documents, w) = [Documents EXCEPT !["dispute"] = new]
  BY DEF CareApply, Documents
<1>2. dispute' = new /\ ticket' = ticket /\ charge' = charge /\ tow' = tow
  <2> HIDE DEF new
  <2> QED
    BY <1>1 DEF Reaches, Documents
<1> QED
  BY <1>2

LEMMA ReachesShop ==
  ASSUME NEW w, Reaches(w), w.to \in {"ticket", "ask", "void"}, Shaped(Store)
  PROVE  /\ Store' = Apply(Store, w) /\ dispute' = dispute
<1>1. CareApply(Documents, w) = Apply(Documents, w)
  BY DEF CareApply
<1>2. /\ Apply(Documents, w).ticket = Apply(Store, w).ticket /\ Apply(Documents, w).charge = Apply(Store, w).charge
      /\ Apply(Documents, w).tow = Apply(Store, w).tow /\ Apply(Documents, w).dispute = dispute
  <2>1. CASE w.to = "ticket"
    BY <2>1 DEF Apply, Documents, Store
  <2>2. CASE w.to = "ask"
    BY <2>2 DEF Apply, Documents, Store
  <2>3. CASE w.to = "void"
    BY <2>3 DEF Apply, Documents, Store
  <2> QED
    BY <2>1, <2>2, <2>3
<1>3. Shaped(Apply(Store, w))
  <2>1. CASE w.to = "ticket"
    BY <2>1, TicketWritten
  <2>2. CASE w.to \in {"ask", "void"}
    BY <2>2, ChargesWritten
  <2> QED
    BY <2>1, <2>2
<1>4. PICK s : s = Apply(Store, w)
  OBVIOUS
<1>5. DOMAIN s = {"ticket", "charge", "tow"} /\ s = [x \in DOMAIN s |-> s[x]]
  BY <1>3, <1>4 DEF Shaped
<1>6. s = [ticket |-> s.ticket, charge |-> s.charge, tow |-> s.tow]
  BY <1>5
<1>7. ticket' = s.ticket /\ charge' = s.charge /\ tow' = s.tow /\ dispute' = dispute
  BY <1>1, <1>2, <1>4 DEF Reaches
<1> QED
  BY <1>4, <1>6, <1>7 DEF Store

CareKinds == {"dispute", "claim", "rework", "number", "invoice", "ticket", "ask", "void", "outcome", "due", "complete"}
Reads == {"outcome", "due", "complete"}
Outcomes == {"SHOP", "RIDER", "PARTIAL"}
HoldSet(r, h) == Set([dispute |-> r, hold |-> h, openDispute |-> r])

\* The k-th write left to call r.  A call that files a dispute names it on the ticket
\* after it is there, and a hold is followed by the cancelling of the charges; a
\* dispute that is decided is followed by its outcome.
WriteAt(l, k, r) ==
  /\ l[k].to \in CareKinds
  /\ l[k].to \in Reads => k = Len(l)
  /\ l[k].to = "outcome" => l[k].outcome \in Outcomes
  /\ l[k].to = "ticket" =>
       /\ \E h \in BOOLEAN : l[k] = HoldSet(r, h) /\ (h => k < Len(l) /\ l[k + 1].to = "void")
       /\ k # 1 => l[k - 1].to = "dispute" /\ l[k - 1].i = r
  /\ l[k].to = "dispute" =>
       /\ "status" \in DOMAIN l[k].fields /\ ~l[k].soft
       /\ l[k].i = r => l[k].fields["status"] = "OPEN"
       /\ l[k].i # r => k < Len(l) /\ l[k + 1].to = "outcome" /\ l[k + 1].d = l[k].i

CallList(l, r) == l \in Seq({l[k] : k \in DOMAIN l}) /\ \A k \in DOMAIN l : WriteAt(l, k, r)

CallsInv ==
  /\ req \in Seq({req[r] : r \in DOMAIN req})
  /\ \A r \in DOMAIN req : CallList(req[r], r)
  /\ \A r \in DOMAIN req : \A k \in DOMAIN req[r] :
       req[r][k].to = "dispute" =>
         req[r][k].i = r \/ (req[r][k].i \in DOMAIN req /\ req[req[r][k].i] = <<>>)
  /\ \A r \in DOMAIN req :
       req[r] # <<>> /\ req[r][1].to = "ticket" => r \in DOMAIN dispute /\ dispute[r].status = "OPEN"
  /\ DOMAIN dispute \subseteq DOMAIN req
  /\ \A d \in DOMAIN dispute : "status" \in DOMAIN dispute[d]

\* A hold is one of an open dispute, or its outcome is on its way; what was to be
\* paid meanwhile is cancelled, or about to be.
HoldInv ==
  faults = 0 /\ ticket.hold =>
    /\ ticket.openDispute \in DOMAIN req /\ ticket.openDispute \in DOMAIN dispute
    /\ \/ dispute[ticket.openDispute].status = "OPEN"
       \/ \E r \in DOMAIN req : \E k \in DOMAIN req[r] :
            req[r][k].to = "outcome" /\ req[r][k].d = ticket.openDispute
    /\ \/ \A c \in DOMAIN charge : charge[c].status # "PENDING"
       \/ \E r \in DOMAIN req : \E k \in DOMAIN req[r] : req[r][k].to = "void"

CareInv == ShopState /\ CallsInv /\ HoldInv

LEMMA ListIs ==
  ASSUME NEW l, NEW r, CallList(l, r)
  PROVE  /\ Len(l) \in Nat /\ DOMAIN l = 1..Len(l)
         /\ l # <<>> => /\ Len(l) > 0 /\ 1 \in DOMAIN l /\ Head(l) = l[1]
                        /\ DOMAIN Tail(l) = 1..(Len(l) - 1) /\ Len(Tail(l)) = Len(l) - 1
                        /\ \A k \in DOMAIN Tail(l) : k + 1 \in DOMAIN l /\ Tail(l)[k] = l[k + 1]
                        /\ Tail(l) \in Seq({Tail(l)[k] : k \in DOMAIN Tail(l)})
<1>1. PICK S : l \in Seq(S)
  BY DEF CallList
<1>2. Len(l) \in Nat /\ DOMAIN l = 1..Len(l)
  BY <1>1, LenProperties
<1>3. ASSUME l # <<>>
      PROVE  /\ Len(l) > 0 /\ 1 \in DOMAIN l /\ Head(l) = l[1]
             /\ DOMAIN Tail(l) = 1..(Len(l) - 1) /\ Len(Tail(l)) = Len(l) - 1
             /\ \A k \in DOMAIN Tail(l) : k + 1 \in DOMAIN l /\ Tail(l)[k] = l[k + 1]
             /\ Tail(l) \in Seq({Tail(l)[k] : k \in DOMAIN Tail(l)})
  <2>1. Len(l) > 0 /\ 1 \in DOMAIN l /\ Head(l) = l[1]
    BY <1>1, <1>2, <1>3, EmptySeq
  <2>2. PICK t : t = Tail(l)
    OBVIOUS
  <2>3. t \in Seq(S) /\ Len(t) = Len(l) - 1 /\ \A k \in 1..Len(t) : t[k] = l[k + 1]
    BY <1>1, <1>3, <2>2, HeadTailProperties
  <2>4. DOMAIN t = 1..Len(t) /\ t = [k \in 1..Len(t) |-> t[k]] /\ Len(t) \in Nat
    BY <2>3, LenProperties
  <2>5. t \in Seq({t[k] : k \in DOMAIN t})
    BY <2>4
  <2>6. \A k \in DOMAIN t : k + 1 \in DOMAIN l
    BY <1>2, <2>3, <2>4
  <2> QED
    BY <2>1, <2>2, <2>3, <2>4, <2>5, <2>6
<1> QED
  BY <1>2, <1>3

LEMMA TailKept ==
  ASSUME NEW l, NEW r, CallList(l, r), l # <<>>
  PROVE  CallList(Tail(l), r)
<1>1. PICK t : t = Tail(l)
  OBVIOUS
<1>2. /\ Len(l) \in Nat /\ DOMAIN l = 1..Len(l) /\ DOMAIN t = 1..(Len(l) - 1) /\ Len(t) = Len(l) - 1
      /\ \A k \in DOMAIN t : k + 1 \in DOMAIN l /\ t[k] = l[k + 1]
      /\ t \in Seq({t[k] : k \in DOMAIN t})
  BY <1>1, ListIs
<1>3. ASSUME NEW k \in DOMAIN t PROVE WriteAt(t, k, r)
  <2>n. Len(l) \in Nat /\ DOMAIN t = 1..(Len(l) - 1) /\ Len(t) = Len(l) - 1
    BY <1>2
  <2>0. k \in Nat \ {0} /\ k <= Len(l) - 1
    BY <2>n
  <2>1. WriteAt(l, k + 1, r) /\ t[k] = l[k + 1] /\ k \in Nat \ {0}
    <3>1. \A j \in DOMAIN l : WriteAt(l, j, r)
      BY DEF CallList
    <3>2. k + 1 \in DOMAIN l /\ t[k] = l[k + 1]
      BY <1>2
    <3> QED
      BY <2>0, <3>1, <3>2
  <2>2. k < Len(t) => t[k + 1] = l[(k + 1) + 1]
    <3>1. k < Len(t) => k + 1 \in DOMAIN t
      BY <2>n, <2>0
    <3> QED
      BY <1>2, <3>1
  <2>3. k # 1 => t[k - 1] = l[(k + 1) - 1]
    <3>0. k # 1 => k - 1 \in 1..(Len(l) - 1)
      BY <2>n, <2>0
    <3>1. k # 1 => k - 1 \in DOMAIN t
      BY <3>0, <2>n
    <3>2. (k - 1) + 1 = (k + 1) - 1
      BY <2>0
    <3>3. k # 1 => t[k - 1] = l[(k - 1) + 1]
      BY <1>2, <3>1
    <3> QED
      BY <3>2, <3>3
  <2>4. k + 1 = Len(l) <=> k = Len(t)
    BY <2>n, <2>0
  <2>5. k + 1 < Len(l) <=> k < Len(t)
    BY <2>n, <2>0
  <2>6. k + 1 # 1
    BY <2>1
  <2>7. t[k].to = "ticket" =>
          /\ \E h \in BOOLEAN : t[k] = HoldSet(r, h) /\ (h => k < Len(t) /\ t[k + 1].to = "void")
          /\ k # 1 => t[k - 1].to = "dispute" /\ t[k - 1].i = r
    BY <2>1, <2>2, <2>3, <2>5, <2>6 DEF WriteAt
  <2>8. t[k].to = "dispute" =>
          /\ "status" \in DOMAIN t[k].fields /\ ~t[k].soft
          /\ t[k].i = r => t[k].fields["status"] = "OPEN"
          /\ t[k].i # r => k < Len(t) /\ t[k + 1].to = "outcome" /\ t[k + 1].d = t[k].i
    BY <2>1, <2>2, <2>5 DEF WriteAt
  <2> QED
    BY <2>1, <2>4, <2>7, <2>8 DEF WriteAt
<1> QED
  BY <1>1, <1>2, <1>3 DEF CallList

-----------------------------------------------------------------------------
(* A step of Shop, and a day.                                              *)

LEMMA HoldUnderShop ==
  ASSUME CareInv, Spares(Store', Store), UNCHANGED care, faults' \in Nat, faults' >= faults
  PROVE  CallsInv' /\ HoldInv'
<1>1. req' = req /\ dispute' = dispute
  BY DEF care
<1>2. CallsInv'
  BY <1>1 DEF CareInv, CallsInv
<1>3. /\ ticket'.hold = ticket.hold /\ ticket'.openDispute = ticket.openDispute
      /\ ticket.hold => NoneAdded(charge', charge)
  <2>1. /\ Store.ticket = ticket /\ Store.charge = charge /\ (Store').ticket = ticket' /\ (Store').charge = charge'
    BY DEF Store
  <2> QED
    BY <2>1 DEF Spares, Asked
<1>4. HoldInv'
  <2>1. SUFFICES ASSUME faults' = 0, ticket'.hold
                 PROVE  /\ ticket'.openDispute \in DOMAIN req' /\ ticket'.openDispute \in DOMAIN dispute'
                        /\ \/ dispute'[ticket'.openDispute].status = "OPEN"
                           \/ \E r \in DOMAIN req' : \E k \in DOMAIN req'[r] :
                                req'[r][k].to = "outcome" /\ req'[r][k].d = ticket'.openDispute
                        /\ \/ \A c \in DOMAIN charge' : charge'[c].status # "PENDING"
                           \/ \E r \in DOMAIN req' : \E k \in DOMAIN req'[r] : req'[r][k].to = "void"
    BY DEF HoldInv
  <2>2. faults = 0 /\ ticket.hold
    BY <1>3, <2>1 DEF CareInv, ShopState
  <2>3. (\A c \in DOMAIN charge : charge[c].status # "PENDING") => \A c \in DOMAIN charge' : charge'[c].status # "PENDING"
    BY <1>3, <2>2 DEF NoneAdded
  <2> QED
    BY <1>1, <1>3, <2>2, <2>3 DEF CareInv, HoldInv
<1> QED
  BY <1>2, <1>4

LEMMA ShopCare ==
  ASSUME CareInv, ShopStep
  PROVE  CareInv'
<1>1. Result /\ UNCHANGED care
  BY ShopSteps DEF CareInv, ShopStep
<1>2. ShopState'
  BY <1>1 DEF Result, ShopState, Spares
<1>3. CallsInv' /\ HoldInv'
  BY <1>1, HoldUnderShop DEF Result
<1> QED
  BY <1>2, <1>3 DEF CareInv

LEMMA NightCare ==
  ASSUME CareInv, Night
  PROVE  CareInv'
<1>1. /\ ticket' = [ticket EXCEPT !.clock = "past"] /\ charge' = charge /\ tow' = tow /\ faults' = faults
      /\ UNCHANGED care
  BY DEF Night, Day
<1>2. PICK t : t = [ticket EXCEPT !.clock = "past"]
  OBVIOUS
<1>3. /\ TicketFields \subseteq DOMAIN ticket /\ ticket = [x \in DOMAIN ticket |-> ticket[x]]
      /\ ChargeList(charge) /\ tow \in Seq(TowDoc) /\ faults \in Nat
  BY StoreIs DEF CareInv, ShopState, Shaped
<1>4. /\ DOMAIN t = DOMAIN ticket /\ t = [x \in DOMAIN t |-> t[x]]
      /\ \A x \in DOMAIN ticket : x # "clock" => t[x] = ticket[x]
  BY <1>2, <1>3
<1>5. Store' = [ticket |-> t, charge |-> charge, tow |-> tow]
  BY <1>1, <1>2 DEF Store
<1>6. Shaped(Store')
  BY <1>3, <1>4, <1>5 DEF Shaped
<1>7. Spares(Store', Store)
  <2>1. \A x \in Asked : (Store').ticket[x] = Store.ticket[x]
    BY <1>3, <1>4, <1>5, StoreIs DEF Asked, TicketFields
  <2>2. (Store').charge = Store.charge /\ (Store').tow = Store.tow
    BY <1>5, StoreIs
  <2> QED
    BY <1>6, <2>1, <2>2 DEF Spares, NoneAdded
<1>8. TowInv'
  <2>1. t.status = ticket.status /\ t.offer = ticket.offer
    BY <1>3, <1>4 DEF TicketFields
  <2>2. MayAsk(t) = MayAsk(ticket)
    BY <2>1 DEF MayAsk, Answered
  <2> QED
    BY <1>1, <1>2, <2>2 DEF TowInv, CareInv, ShopState
<1>9. CallsInv' /\ HoldInv'
  BY <1>1, <1>3, <1>7, HoldUnderShop
<1> QED
  BY <1>1, <1>3, <1>6, <1>8, <1>9 DEF CareInv, ShopState

-----------------------------------------------------------------------------
(* A call that looks.                                                      *)

LEMMA CallAdded ==
  ASSUME CareInv, NEW topic, NEW l, Look(topic, l), CallList(l, Call),
         \A k \in DOMAIN l : l[k].to = "dispute" =>
           l[k].i = Call \/ (l[k].i \in DOMAIN req /\ req[l[k].i] = <<>>),
         l # <<>> => l[1].to # "ticket"
  PROVE  CareInv'
<1>1. /\ req' = Append(req, l) /\ ticket' = ticket /\ charge' = charge /\ tow' = tow /\ faults' = faults
      /\ dispute' = dispute
  BY DEF Look, vars
<1>2. PICK S : req \in Seq(S)
  BY DEF CareInv, CallsInv
<1>3. Len(req) \in Nat /\ DOMAIN req = 1..Len(req) /\ req = [i \in 1..Len(req) |-> req[i]] /\ Call = Len(req) + 1
  BY <1>2, LenProperties DEF Call
<1>4. PICK new : new = Append(req, l)
  OBVIOUS
<1>5. /\ new \in Seq(S \cup {l}) /\ Len(new) = Call /\ \A i \in 1..Len(req) : new[i] = req[i]
      /\ new[Call] = l
  <2>1. req \in Seq(S \cup {l}) /\ l \in S \cup {l}
    BY <1>2, <1>3, ElementOfSeq
  <2>2. PICK T : T = S \cup {l}
    OBVIOUS
  <2> QED
    BY <1>3, <1>4, <2>1, <2>2, AppendProperties
<1>6. DOMAIN new = 1..Call /\ new = [i \in 1..Call |-> new[i]] /\ Call \in Nat /\ Call \notin DOMAIN req
  BY <1>3, <1>5, LenProperties
<1>7. new \in Seq({new[i] : i \in DOMAIN new})
  BY <1>6
<1>8. CallsInv'
  <2>a. \A r \in DOMAIN req : CallList(req[r], r)
    BY DEF CareInv, CallsInv
  <2>b. \A r \in DOMAIN req : \A k \in DOMAIN req[r] :
          req[r][k].to = "dispute" => req[r][k].i = r \/ (req[r][k].i \in DOMAIN req /\ req[req[r][k].i] = <<>>)
    BY DEF CareInv, CallsInv
  <2>c. \A r \in DOMAIN req :
          req[r] # <<>> /\ req[r][1].to = "ticket" => r \in DOMAIN dispute /\ dispute[r].status = "OPEN"
    BY DEF CareInv, CallsInv
  <2>d. \A r \in DOMAIN req : r \in DOMAIN new /\ new[r] = req[r]
    BY <1>3, <1>5, <1>6
  <2>e. \A r \in DOMAIN new : r = Call \/ r \in DOMAIN req
    BY <1>3, <1>6
  <2>1. \A r \in DOMAIN new : CallList(new[r], r)
    BY <1>5, <2>a, <2>d, <2>e
  <2>2. ASSUME NEW r \in DOMAIN new, NEW k \in DOMAIN new[r], new[r][k].to = "dispute"
        PROVE  new[r][k].i = r \/ (new[r][k].i \in DOMAIN new /\ new[new[r][k].i] = <<>>)
    <3>1. CASE r = Call
      BY <1>5, <2>2, <2>d, <3>1
    <3>2. CASE r # Call
      <4>1. r \in DOMAIN req /\ new[r] = req[r]
        BY <2>d, <2>e, <3>2
      <4>2. req[r][k].i = r \/ (req[r][k].i \in DOMAIN req /\ req[req[r][k].i] = <<>>)
        BY <2>2, <2>b, <4>1
      <4> QED
        BY <2>d, <4>1, <4>2
    <3> QED
      BY <3>1, <3>2
  <2>3. ASSUME NEW r \in DOMAIN new, new[r] # <<>> /\ new[r][1].to = "ticket"
        PROVE  r \in DOMAIN dispute /\ dispute[r].status = "OPEN"
    <3>1. r # Call
      BY <1>5, <2>3
    <3>2. r \in DOMAIN req /\ new[r] = req[r]
      BY <2>d, <2>e, <3>1
    <3> QED
      BY <2>3, <2>c, <3>2
  <2>4. DOMAIN dispute \subseteq DOMAIN new /\ \A d \in DOMAIN dispute : "status" \in DOMAIN dispute[d]
    BY <1>3, <1>6 DEF CareInv, CallsInv
  <2> QED
    BY <1>1, <1>4, <1>7, <2>1, <2>2, <2>3, <2>4 DEF CallsInv
<1>9. HoldInv'
  <2>1. SUFFICES ASSUME faults = 0, ticket.hold
                 PROVE  /\ ticket.openDispute \in DOMAIN new /\ ticket.openDispute \in DOMAIN dispute
                        /\ \/ dispute[ticket.openDispute].status = "OPEN"
                           \/ \E r \in DOMAIN new : \E k \in DOMAIN new[r] :
                                new[r][k].to = "outcome" /\ new[r][k].d = ticket.openDispute
                        /\ \/ \A c \in DOMAIN charge : charge[c].status # "PENDING"
                           \/ \E r \in DOMAIN new : \E k \in DOMAIN new[r] : new[r][k].to = "void"
    BY <1>1, <1>4 DEF HoldInv
  <2>2. \A r \in DOMAIN req : r \in DOMAIN new /\ new[r] = req[r]
    BY <1>3, <1>5, <1>6
  <2> QED
    BY <2>1, <2>2 DEF CareInv, HoldInv
<1>10. ShopState'
  BY <1>1 DEF CareInv, ShopState, Store, TowInv
<1> QED
  BY <1>8, <1>9, <1>10 DEF CareInv

LEMMA ShortLists ==
  ASSUME NEW a, NEW b, NEW c
  PROVE  /\ Len(<<a>>) = 1 /\ DOMAIN <<a>> = {1} /\ <<a>>[1] = a
         /\ <<a>> \in Seq({<<a>>[k] : k \in DOMAIN <<a>>})
         /\ Len(<<a, b>>) = 2 /\ DOMAIN <<a, b>> = {1, 2} /\ <<a, b>>[1] = a /\ <<a, b>>[2] = b
         /\ <<a, b>> \in Seq({<<a, b>>[k] : k \in DOMAIN <<a, b>>})
         /\ Len(<<a, b, c>>) = 3 /\ DOMAIN <<a, b, c>> = {1, 2, 3}
         /\ <<a, b, c>>[1] = a /\ <<a, b, c>>[2] = b /\ <<a, b, c>>[3] = c
         /\ <<a, b, c>> \in Seq({<<a, b, c>>[k] : k \in DOMAIN <<a, b, c>>})
<1>1. /\ Len(<<a>>) = 1 /\ DOMAIN <<a>> = {1} /\ <<a>>[1] = a
      /\ <<a>> \in Seq({<<a>>[k] : k \in DOMAIN <<a>>})
  OBVIOUS
<1>2. /\ Len(<<a, b>>) = 2 /\ DOMAIN <<a, b>> = {1, 2} /\ <<a, b>>[1] = a /\ <<a, b>>[2] = b
      /\ <<a, b>> \in Seq({<<a, b>>[k] : k \in DOMAIN <<a, b>>})
  OBVIOUS
<1>3. /\ Len(<<a, b, c>>) = 3 /\ DOMAIN <<a, b, c>> = {1, 2, 3}
      /\ <<a, b, c>>[1] = a /\ <<a, b, c>>[2] = b /\ <<a, b, c>>[3] = c
  OBVIOUS
<1>4. <<a, b, c>> \in Seq({<<a, b, c>>[k] : k \in DOMAIN <<a, b, c>>})
  <2>1. PICK R : R = {<<a, b, c>>[k] : k \in DOMAIN <<a, b, c>>}
    OBVIOUS
  <2>2. a \in R /\ b \in R /\ c \in R
    BY <1>3, <2>1
  <2>3. <<a, b, c>> \in Seq(R)
    BY <2>2
  <2> QED
    BY <2>1, <2>3
<1> QED
  BY <1>1, <1>2, <1>3, <1>4

\* The writes of a claim or of an invoice.
Plain == {"claim", "rework", "number", "invoice", "ask"}

LEMMA PlainCalls ==
  ASSUME NEW a, NEW b, NEW c, NEW r, a.to \in Plain
  PROVE  /\ CallList(<<a>>, r)
         /\ b.to \in Plain \cup {"complete"} => CallList(<<a, b>>, r)
         /\ b.to \in Plain /\ c.to \in Plain => CallList(<<a, b, c>>, r)
<1>1. CallList(<<a>>, r)
  <2>1. WriteAt(<<a>>, 1, r)
    BY ShortLists DEF WriteAt, Plain, CareKinds, Reads
  <2> QED
    BY <2>1, ShortLists DEF CallList
<1>2. ASSUME b.to \in Plain \cup {"complete"} PROVE CallList(<<a, b>>, r)
  <2>1. WriteAt(<<a, b>>, 1, r) /\ WriteAt(<<a, b>>, 2, r)
    BY <1>2, ShortLists DEF WriteAt, Plain, CareKinds, Reads
  <2> QED
    BY <2>1, ShortLists DEF CallList
<1>3. ASSUME b.to \in Plain, c.to \in Plain PROVE CallList(<<a, b, c>>, r)
  <2>1. WriteAt(<<a, b, c>>, 1, r) /\ WriteAt(<<a, b, c>>, 2, r) /\ WriteAt(<<a, b, c>>, 3, r)
    BY <1>3, ShortLists DEF WriteAt, Plain, CareKinds, Reads
  <2> QED
    BY <2>1, ShortLists DEF CallList
<1> QED
  BY <1>1, <1>2, <1>3

LEMMA PlainLooks ==
  ASSUME CareInv, NEW topic, NEW a, NEW b, NEW c, a.to \in Plain,
         \/ Look(topic, <<a>>)
         \/ b.to \in Plain \cup {"complete"} /\ Look(topic, <<a, b>>)
         \/ b.to \in Plain /\ c.to \in Plain /\ Look(topic, <<a, b, c>>)
  PROVE  CareInv'
<1>1. CASE Look(topic, <<a>>)
  <2>1. CallList(<<a>>, Call)
    BY PlainCalls
  <2>2. \A k \in DOMAIN <<a>> : <<a>>[k].to \in Plain
    BY ShortLists
  <2> QED
    BY <1>1, <2>1, <2>2, CallAdded, ShortLists DEF Plain
<1>2. CASE b.to \in Plain \cup {"complete"} /\ Look(topic, <<a, b>>)
  <2>1. CallList(<<a, b>>, Call)
    BY <1>2, PlainCalls
  <2>2. \A k \in DOMAIN <<a, b>> : <<a, b>>[k].to \in Plain \cup {"complete"}
    BY <1>2, ShortLists
  <2> QED
    BY <1>2, <2>1, <2>2, CallAdded, ShortLists DEF Plain
<1>3. CASE b.to \in Plain /\ c.to \in Plain /\ Look(topic, <<a, b, c>>)
  <2>1. CallList(<<a, b, c>>, Call)
    BY <1>3, PlainCalls
  <2>2. \A k \in DOMAIN <<a, b, c>> : <<a, b, c>>[k].to \in Plain
    BY <1>3, ShortLists
  <2> QED
    BY <1>3, <2>1, <2>2, CallAdded, ShortLists DEF Plain
<1> QED
  BY <1>1, <1>2, <1>3

LEMMA TwoAndOne ==
  ASSUME NEW a, NEW b, NEW c
  PROVE  <<a, b>> \o <<c>> = <<a, b, c>>
<1>1. PICK S : S = {a, b, c}
  OBVIOUS
<1>2. <<a, b>> \in Seq(S) /\ <<c>> \in Seq(S) /\ Len(<<a, b>>) = 2 /\ Len(<<c>>) = 1
  BY <1>1
<1>3. PICK w : w = <<a, b>> \o <<c>>
  OBVIOUS
<1>4. w \in Seq(S) /\ Len(w) = 3 /\ w[1] = a /\ w[2] = b /\ w[3] = c
  BY <1>2, <1>3, ConcatProperties
<1>5. w = <<w[1], w[2], w[3]>>
  BY <1>4
<1> QED
  BY <1>3, <1>4, <1>5

LEMMA FileCare ==
  ASSUME CareInv, File
  PROVE  CareInv'
<1>1. PICK serious \in BOOLEAN, h \in BOOLEAN :
        /\ h = (serious /\ ticket.status = "READY")
        /\ Look("dispute", <<Doc("dispute", Call, NewDispute), Set([dispute |-> Call, hold |-> h, openDispute |-> Call])>>
                           \o IF h THEN <<Void>> ELSE <<>>)
  BY DEF File
<1>2. PICK n, a, b, v : n = Call /\ a = Doc("dispute", n, NewDispute) /\ b = HoldSet(n, h) /\ v = Void
  OBVIOUS
<1>3. h \in BOOLEAN
  BY <1>1
<1>4. /\ a.to = "dispute" /\ a.i = n /\ "status" \in DOMAIN a.fields /\ a.fields["status"] = "OPEN" /\ ~a.soft
      /\ b.to = "ticket" /\ v.to = "void"
  BY <1>2 DEF Doc, NewDispute, HoldSet, Set, Void
<1>5. Look("dispute", <<a, b>> \o IF h THEN <<v>> ELSE <<>>)
  BY <1>1, <1>2 DEF HoldSet
<1>6. CASE h
  <2>1. <<a, b>> \o <<v>> = <<a, b, v>>
    BY TwoAndOne
  <2>2. WriteAt(<<a, b, v>>, 1, n)
    BY <1>4, ShortLists DEF WriteAt, CareKinds, Reads
  <2>3. WriteAt(<<a, b, v>>, 2, n)
    BY <1>2, <1>3, <1>4, ShortLists DEF WriteAt, CareKinds, Reads
  <2>4. WriteAt(<<a, b, v>>, 3, n)
    BY <1>4, ShortLists DEF WriteAt, CareKinds, Reads
  <2>5. CallList(<<a, b, v>>, n)
    BY <2>2, <2>3, <2>4, ShortLists DEF CallList
  <2>6. \A k \in DOMAIN <<a, b, v>> : <<a, b, v>>[k].to = "dispute" => <<a, b, v>>[k].i = n
    BY <1>4, ShortLists
  <2> QED
    <3>1. PICK l : l = <<a, b, v>>
      OBVIOUS
    <3>2. Look("dispute", l)
      BY <1>5, <1>6, <2>1, <3>1
    <3>3. CallList(l, Call) /\ \A k \in DOMAIN l : l[k].to = "dispute" => l[k].i = Call
      BY <1>2, <2>5, <2>6, <3>1
    <3>4. l[1].to # "ticket"
      BY <1>4, <3>1, ShortLists
    <3> QED
      BY <3>2, <3>3, <3>4, CallAdded
<1>7. CASE ~h
  <2>1. <<a, b>> \o <<>> = <<a, b>>
    <3>1. PICK w, S : w = <<a, b>> /\ S = {a, b}
      OBVIOUS
    <3>2. w \in Seq(S)
      BY <3>1
    <3> QED
      BY <3>1, <3>2, ConcatEmptySeq
  <2>2. WriteAt(<<a, b>>, 1, n)
    BY <1>4, ShortLists DEF WriteAt, CareKinds, Reads
  <2>3. WriteAt(<<a, b>>, 2, n)
    BY <1>2, <1>3, <1>4, <1>7, ShortLists DEF WriteAt, CareKinds, Reads
  <2>4. CallList(<<a, b>>, n)
    BY <2>2, <2>3, ShortLists DEF CallList
  <2>5. \A k \in DOMAIN <<a, b>> : <<a, b>>[k].to = "dispute" => <<a, b>>[k].i = n
    BY <1>4, ShortLists
  <2> QED
    BY <1>2, <1>4, <1>5, <1>7, <2>1, <2>4, <2>5, CallAdded, ShortLists
<1> QED
  BY <1>6, <1>7

LEMMA DecideCare ==
  ASSUME CareInv, NEW d \in DOMAIN dispute, NEW fields, "status" \in DOMAIN fields,
         NEW outcome \in Outcomes, NEW kept, d \notin InFlight,
         Look("dispute", <<Doc("dispute", d, fields),
                           [to |-> "outcome", d |-> d, outcome |-> outcome, kept |-> kept, soft |-> FALSE]>>)
  PROVE  CareInv'
<1>1. PICK n, a, b : /\ n = Call /\ a = Doc("dispute", d, fields)
                     /\ b = [to |-> "outcome", d |-> d, outcome |-> outcome, kept |-> kept, soft |-> FALSE]
  OBVIOUS
<1>2. /\ a.to = "dispute" /\ a.i = d /\ a.fields = fields /\ ~a.soft
      /\ b.to = "outcome" /\ b.d = d /\ b.outcome \in Outcomes
  BY <1>1 DEF Doc
<1>3. d \in DOMAIN req /\ req[d] = <<>>
  BY DEF CareInv, CallsInv, InFlight
<1>4. n \notin DOMAIN req
  <2>1. PICK S : req \in Seq(S)
    BY DEF CareInv, CallsInv
  <2> QED
    BY <1>1, <2>1, LenProperties DEF Call
<1>5. d # n
  BY <1>3, <1>4
<1>6. WriteAt(<<a, b>>, 1, n)
  BY <1>2, <1>5, ShortLists DEF WriteAt, CareKinds, Reads
<1>7. WriteAt(<<a, b>>, 2, n)
  BY <1>2, ShortLists DEF WriteAt, CareKinds, Reads
<1>8. CallList(<<a, b>>, n)
  BY <1>6, <1>7, ShortLists DEF CallList
<1>9. \A k \in DOMAIN <<a, b>> : <<a, b>>[k].to = "dispute" => <<a, b>>[k].i = d
  BY <1>2, ShortLists
<1> QED
  BY <1>1, <1>2, <1>3, <1>8, <1>9, CallAdded, ShortLists

LEMMA DisputesCare ==
  ASSUME CareInv, Disputes
  PROVE  CareInv'
<1>1. CASE File
  BY <1>1, FileCare
<1>2. ASSUME NEW d \in DOMAIN dispute, Dismiss(d) PROVE CareInv'
  <2>1. "status" \in DOMAIN [status |-> "DISMISSED"] /\ "SHOP" \in Outcomes
    BY DEF Outcomes
  <2> QED
    BY <1>2, <2>1, DecideCare DEF Dismiss
<1>3. ASSUME NEW d \in DOMAIN dispute, NEW o \in Outcomes, NEW kept, Decide(d, o, kept) PROVE CareInv'
  <2>1. "status" \in DOMAIN [status |-> "RESOLVED", outcome |-> o]
    OBVIOUS
  <2> QED
    BY <1>3, <2>1, DecideCare DEF Decide
<1>4. "SHOP" \in Outcomes /\ "RIDER" \in Outcomes /\ "PARTIAL" \in Outcomes
  BY DEF Outcomes
<1> QED
  BY Zenon, <1>1, <1>2, <1>3, <1>4 DEF Disputes

LEMMA SweepCare ==
  ASSUME CareInv, UNCHANGED <<vars, req, dispute>>
  PROVE  CareInv'
<1>1. /\ req' = req /\ ticket' = ticket /\ charge' = charge /\ tow' = tow /\ faults' = faults
      /\ dispute' = dispute
  BY DEF vars
<1>2. ShopState' /\ CallsInv'
  BY <1>1 DEF CareInv, ShopState, Store, TowInv, CallsInv
<1>3. HoldInv'
  BY <1>1 DEF CareInv, HoldInv
<1> QED
  BY <1>2, <1>3 DEF CareInv

LEMMA DocIs ==
  ASSUME NEW kind, NEW i, NEW f
  PROVE  Doc(kind, i, f).to = kind
BY DEF Doc

LEMMA ClaimsCare ==
  ASSUME CareInv, Claims
  PROVE  CareInv'
<1>0. /\ \A i, f : Doc("claim", i, f).to \in Plain /\ Doc("rework", i, f).to \in Plain
      /\ \A c : [Ask(c) EXCEPT !.soft = FALSE].to \in Plain
      /\ \A i : [to |-> "complete", i |-> i, soft |-> TRUE].to \in Plain \cup {"complete"}
  BY DEF Doc, Ask, Plain
<1>1. CASE FileClaim
  BY <1>0, <1>1, PlainLooks DEF FileClaim
<1>2. CASE SweepWarrantyRebooks
  BY <1>2, SweepCare DEF SweepWarrantyRebooks
<1>3. ASSUME NEW k \in DOMAIN claim, Respond(k) PROVE CareInv'
  BY <1>0, <1>3, PlainLooks DEF Respond
<1>4. ASSUME NEW k \in DOMAIN claim, DisputeClaim(k) PROVE CareInv'
  BY <1>0, <1>4, PlainLooks DEF DisputeClaim
<1>5. ASSUME NEW k \in DOMAIN claim, ResolveClaim(k) PROVE CareInv'
  <2>1. CASE Look("warranty", <<Doc("claim", k, [status |-> "RESOLVED"])>>)
    BY <1>0, <2>1, PlainLooks
  <2>2. ASSUME NEW c, Look("warranty", <<[Ask(c) EXCEPT !.soft = FALSE],
                                         Doc("claim", k, [status |-> "RESOLVED", refunded |-> TRUE])>>)
        PROVE  CareInv'
    BY <1>0, <2>2, PlainLooks
  <2> QED
    BY <1>5, <2>1, <2>2 DEF ResolveClaim
<1>6. ASSUME NEW w \in DOMAIN rework, CloseRework(w) PROVE CareInv'
  BY <1>0, <1>6, PlainLooks DEF CloseRework
<1> QED
  BY Zenon, <1>1, <1>2, <1>3, <1>4, <1>5, <1>6 DEF Claims

LEMMA InvoiceCare ==
  ASSUME CareInv, GenerateInvoice
  PROVE  CareInv'
<1>1. \A i : [to |-> "number", i |-> i, soft |-> FALSE].to \in Plain /\ [to |-> "invoice", i |-> i, soft |-> FALSE].to \in Plain
  BY DEF Plain
<1> QED
  BY <1>1, PlainLooks DEF GenerateInvoice

-----------------------------------------------------------------------------
(* A call that writes, dies or goes on after a failed write.               *)

LEMMA StateAfter ==
  ASSUME CareInv, Shaped(Store'), ticket'.status = ticket.status, ticket'.offer = ticket.offer, tow' = tow,
         faults' \in Nat, faults' >= faults
  PROVE  ShopState'
<1>1. MayAsk(ticket') = MayAsk(ticket)
  BY DEF MayAsk, Answered
<1>2. MayAsk(ticket) \in {0, 1} /\ Cardinality(Going(tow)) \in Nat
  BY TowsWritten, StoreIs DEF MayAsk, CareInv, ShopState, Shaped
<1>3. TowInv'
  BY <1>1, <1>2 DEF TowInv, CareInv, ShopState
<1> QED
  BY <1>3 DEF ShopState

LEMMA ReqIs ==
  ASSUME CareInv, NEW r \in InFlight, NEW t, req' = [req EXCEPT ![r] = t]
  PROVE  /\ r \in DOMAIN req /\ req[r] # <<>> /\ CallList(req[r], r)
         /\ DOMAIN req' = DOMAIN req /\ req'[r] = t /\ \A q \in DOMAIN req : q # r => req'[q] = req[q]
         /\ req' \in Seq({req'[q] : q \in DOMAIN req'})
<1>1. r \in DOMAIN req /\ req[r] # <<>> /\ CallList(req[r], r)
  BY DEF InFlight, CareInv, CallsInv
<1>2. PICK S : req \in Seq(S)
  BY DEF CareInv, CallsInv
<1>3. Len(req) \in Nat /\ DOMAIN req = 1..Len(req)
  BY <1>2, LenProperties
<1>4. PICK new : new = [req EXCEPT ![r] = t]
  OBVIOUS
<1>5. DOMAIN new = 1..Len(req) /\ new = [q \in 1..Len(req) |-> new[q]]
      /\ new[r] = t /\ \A q \in DOMAIN req : q # r => new[q] = req[q]
  BY <1>1, <1>3, <1>4
<1>6. new \in Seq({new[q] : q \in DOMAIN new})
  BY <1>3, <1>5
<1> QED
  BY <1>1, <1>3, <1>4, <1>5, <1>6

LEMMA CallShrinks ==
  ASSUME CareInv, NEW r \in InFlight, NEW t, CallList(t, r), req' = [req EXCEPT ![r] = t],
         \A k \in DOMAIN t : t[k].to = "dispute" =>
           \E j \in DOMAIN req[r] : req[r][j].to = "dispute" /\ req[r][j].i = t[k].i,
         t # <<>> /\ t[1].to = "ticket" => r \in DOMAIN dispute' /\ dispute'[r].status = "OPEN",
         DOMAIN dispute' \subseteq DOMAIN req, \A d \in DOMAIN dispute' : "status" \in DOMAIN dispute'[d],
         \A q \in InFlight : q # r /\ q \in DOMAIN dispute /\ dispute[q].status = "OPEN" =>
           q \in DOMAIN dispute' /\ dispute'[q].status = "OPEN"
  PROVE  CallsInv'
<1>0. PICK new : new = req'
  OBVIOUS
<1>1. /\ r \in DOMAIN req /\ req[r] # <<>> /\ DOMAIN new = DOMAIN req /\ new[r] = t
      /\ \A q \in DOMAIN req : q # r => new[q] = req[q]
      /\ new \in Seq({new[q] : q \in DOMAIN new})
  <2>1. r \in DOMAIN req /\ req[r] # <<>>
    BY ReqIs
  <2>2. DOMAIN req' = DOMAIN req /\ req'[r] = t /\ \A q \in DOMAIN req : q # r => req'[q] = req[q]
    BY ReqIs
  <2>3. req' \in Seq({req'[q] : q \in DOMAIN req'})
    BY ReqIs
  <2> QED
    BY <1>0, <2>1, <2>2, <2>3
<1>a. \A q \in DOMAIN req : CallList(req[q], q)
  BY DEF CareInv, CallsInv
<1>b. \A q \in DOMAIN req : \A k \in DOMAIN req[q] :
        req[q][k].to = "dispute" => req[q][k].i = q \/ (req[q][k].i \in DOMAIN req /\ req[req[q][k].i] = <<>>)
  BY DEF CareInv, CallsInv
<1>c. \A q \in DOMAIN req :
        req[q] # <<>> /\ req[q][1].to = "ticket" => q \in DOMAIN dispute /\ dispute[q].status = "OPEN"
  BY DEF CareInv, CallsInv
<1>2. \A q \in DOMAIN new : CallList(new[q], q)
  BY <1>1, <1>a
<1>3. ASSUME NEW q \in DOMAIN new, NEW k \in DOMAIN new[q], new[q][k].to = "dispute"
      PROVE  new[q][k].i = q \/ (new[q][k].i \in DOMAIN new /\ new[new[q][k].i] = <<>>)
  <2>1. PICK j \in DOMAIN req[q] : req[q][j].to = "dispute" /\ req[q][j].i = new[q][k].i
    BY <1>1, <1>3
  <2>2. new[q][k].i = q \/ (new[q][k].i \in DOMAIN req /\ req[new[q][k].i] = <<>>)
    BY <1>1, <1>b, <2>1
  <2> QED
    BY <1>1, <2>2
<1>4. ASSUME NEW q \in DOMAIN new, new[q] # <<>> /\ new[q][1].to = "ticket"
      PROVE  q \in DOMAIN dispute' /\ dispute'[q].status = "OPEN"
  <2>1. CASE q = r
    BY <1>1, <1>4, <2>1
  <2>2. CASE q # r
    BY <1>1, <1>4, <1>c, <2>2 DEF InFlight
  <2> QED
    BY <2>1, <2>2
<1> QED
  BY <1>0, <1>1, <1>2, <1>3, <1>4 DEF CallsInv

\* What a step of call r, that leaves t to write, does to the hold: the order in
\* which a call writes says when the hold is lifted and the charges are cancelled.
HoldStep(r, t) ==
  /\ faults' \in Nat /\ faults' >= faults
  /\ ticket'.hold => ticket.hold /\ ticket'.openDispute = ticket.openDispute
  /\ DOMAIN dispute \subseteq DOMAIN dispute'
  /\ \A d \in DOMAIN dispute : dispute[d].status = "OPEN" =>
       dispute'[d].status = "OPEN" \/ \E j \in DOMAIN t : t[j].to = "outcome" /\ t[j].d = d
  /\ \A k \in DOMAIN req[r] : req[r][k].to = "outcome" =>
       (\E j \in DOMAIN t : t[j] = req[r][k]) \/ req[r][k].d # ticket.openDispute \/ faults' # faults
  /\ \/ \A c \in DOMAIN charge' : charge'[c].status # "PENDING"
     \/ /\ NoneAdded(charge', charge)
        /\ \A k \in DOMAIN req[r] : req[r][k].to = "void" => \E j \in DOMAIN t : t[j] = req[r][k]

LEMMA HoldAfter ==
  ASSUME CareInv, NEW r \in InFlight, NEW t, req' = [req EXCEPT ![r] = t], HoldStep(r, t)
  PROVE  HoldInv'
<1>a. /\ faults' \in Nat /\ faults' >= faults
      /\ ticket'.hold => ticket.hold /\ ticket'.openDispute = ticket.openDispute
      /\ DOMAIN dispute \subseteq DOMAIN dispute'
  BY DEF HoldStep
<1>b. \A d \in DOMAIN dispute : dispute[d].status = "OPEN" =>
        dispute'[d].status = "OPEN" \/ \E j \in DOMAIN t : t[j].to = "outcome" /\ t[j].d = d
  BY DEF HoldStep
<1>c. \A k \in DOMAIN req[r] : req[r][k].to = "outcome" =>
        (\E j \in DOMAIN t : t[j] = req[r][k]) \/ req[r][k].d # ticket.openDispute \/ faults' # faults
  BY DEF HoldStep
<1>d. \/ \A c \in DOMAIN charge' : charge'[c].status # "PENDING"
      \/ /\ NoneAdded(charge', charge)
         /\ \A k \in DOMAIN req[r] : req[r][k].to = "void" => \E j \in DOMAIN t : t[j] = req[r][k]
  BY DEF HoldStep
<1>0. PICK new : new = req'
  OBVIOUS
<1>1. /\ r \in DOMAIN req /\ DOMAIN new = DOMAIN req /\ new[r] = t
      /\ \A q \in DOMAIN req : q # r => new[q] = req[q]
  BY <1>0, ReqIs
<1>2. SUFFICES ASSUME faults' = 0, ticket'.hold
               PROVE  /\ ticket'.openDispute \in DOMAIN new /\ ticket'.openDispute \in DOMAIN dispute'
                      /\ \/ dispute'[ticket'.openDispute].status = "OPEN"
                         \/ \E q \in DOMAIN new : \E k \in DOMAIN new[q] :
                              new[q][k].to = "outcome" /\ new[q][k].d = ticket'.openDispute
                      /\ \/ \A c \in DOMAIN charge' : charge'[c].status # "PENDING"
                         \/ \E q \in DOMAIN new : \E k \in DOMAIN new[q] : new[q][k].to = "void"
  BY <1>0 DEF HoldInv
<1>3. faults = 0 /\ faults' = faults /\ ticket.hold /\ ticket'.openDispute = ticket.openDispute
  BY <1>2, <1>a DEF CareInv, ShopState
<1>4. PICK o : o = ticket.openDispute
  OBVIOUS
<1>5. o \in DOMAIN req /\ o \in DOMAIN dispute
  BY <1>3, <1>4, <1>a DEF CareInv, HoldInv
<1>6. dispute'[o].status = "OPEN" \/ \E q \in DOMAIN new : \E k \in DOMAIN new[q] : new[q][k].to = "outcome" /\ new[q][k].d = o
  <2>1. CASE dispute[o].status = "OPEN"
    BY <1>1, <1>5, <1>b, <2>1
  <2>2. ASSUME NEW q \in DOMAIN req, NEW k \in DOMAIN req[q], req[q][k].to = "outcome", req[q][k].d = o
        PROVE  \E p \in DOMAIN new : \E j \in DOMAIN new[p] : new[p][j].to = "outcome" /\ new[p][j].d = o
    <3>1. CASE q = r
      <4>1. PICK j \in DOMAIN t : t[j] = req[r][k]
        BY <1>3, <1>4, <1>c, <2>2, <3>1
      <4> QED
        BY <1>1, <2>2, <3>1, <4>1
    <3>2. CASE q # r
      BY <1>1, <2>2, <3>2
    <3> QED
      BY <3>1, <3>2
  <2> QED
    BY <1>3, <1>4, <2>1, <2>2 DEF CareInv, HoldInv
<1>7. (\A c \in DOMAIN charge' : charge'[c].status # "PENDING") \/ \E q \in DOMAIN new : \E k \in DOMAIN new[q] : new[q][k].to = "void"
  <2>1. SUFFICES ASSUME NoneAdded(charge', charge),
                        \A k \in DOMAIN req[r] : req[r][k].to = "void" => \E j \in DOMAIN t : t[j] = req[r][k]
                 PROVE  (\A c \in DOMAIN charge' : charge'[c].status # "PENDING")
                        \/ \E q \in DOMAIN new : \E k \in DOMAIN new[q] : new[q][k].to = "void"
    BY <1>d
  <2>2. CASE \A c \in DOMAIN charge : charge[c].status # "PENDING"
    BY <2>1, <2>2 DEF NoneAdded
  <2>3. ASSUME NEW q \in DOMAIN req, NEW k \in DOMAIN req[q], req[q][k].to = "void"
        PROVE  \E p \in DOMAIN new : \E j \in DOMAIN new[p] : new[p][j].to = "void"
    BY <1>1, <2>1, <2>3
  <2> QED
    BY <1>3, <2>2, <2>3 DEF CareInv, HoldInv
<1> QED
  BY <1>1, <1>3, <1>4, <1>5, <1>6, <1>7, <1>a

-----------------------------------------------------------------------------
(* The writes of a call.                                                   *)

\* The list l of call r, and t, what is left of it after its first write.
ListOf(r, l, t) ==
  /\ r \in DOMAIN req /\ l # <<>> /\ Head(l) = l[1] /\ 1 \in DOMAIN l
  /\ CallList(l, r) /\ CallList(t, r) /\ \A k \in DOMAIN l : WriteAt(l, k, r)
  /\ Len(l) \in Nat /\ Len(l) > 0 /\ DOMAIN l = 1..Len(l) /\ DOMAIN t = 1..(Len(l) - 1)
  /\ \A k \in DOMAIN t : k + 1 \in DOMAIN l /\ t[k] = l[k + 1]
  /\ \A k \in DOMAIN l : k # 1 => k - 1 \in DOMAIN t /\ t[k - 1] = l[k]
  /\ t # <<>> => 1 \in DOMAIN t /\ 2 \in DOMAIN l /\ t[1] = l[2]

LEMMA CallOf ==
  ASSUME CareInv, NEW r \in InFlight, NEW l, l = req[r], NEW t, t = Tail(l)
  PROVE  ListOf(r, l, t)
<1>1. r \in DOMAIN req /\ CallList(l, r) /\ l # <<>>
  BY DEF InFlight, CareInv, CallsInv
<1>2. CallList(t, r)
  BY <1>1, TailKept
<1>3. /\ Head(l) = l[1] /\ 1 \in DOMAIN l /\ Len(l) \in Nat /\ Len(l) > 0 /\ DOMAIN l = 1..Len(l)
      /\ DOMAIN t = 1..(Len(l) - 1) /\ \A k \in DOMAIN t : k + 1 \in DOMAIN l /\ t[k] = l[k + 1]
  BY <1>1, ListIs
<1>4. \A k \in DOMAIN l : WriteAt(l, k, r)
  BY <1>1 DEF CallList
<1>5. ASSUME NEW k \in DOMAIN l, k # 1 PROVE k - 1 \in DOMAIN t /\ t[k - 1] = l[k]
  <2>1. k \in Nat /\ k - 1 \in 1..(Len(l) - 1) /\ (k - 1) + 1 = k
    BY <1>3, <1>5
  <2>2. k - 1 \in DOMAIN t
    BY <1>3, <2>1
  <2> QED
    BY <1>3, <2>1, <2>2
<1>6. ASSUME t # <<>> PROVE 1 \in DOMAIN t /\ 2 \in DOMAIN l /\ t[1] = l[2]
  <2>1. PICK S : t \in Seq(S)
    BY <1>2 DEF CallList
  <2>2. PICK n : n = Len(t)
    OBVIOUS
  <2>3. n \in Nat \ {0} /\ DOMAIN t = 1..n
    BY <1>6, <2>1, <2>2, EmptySeq, LenProperties
  <2>4. 1 \in DOMAIN t
    BY <2>3
  <2> QED
    BY <1>3, <2>4
<1> QED
  BY <1>1, <1>2, <1>3, <1>4, <1>5, <1>6 DEF ListOf

\* A call that goes on to its next write, when this one touched no dispute.
LEMMA Onward ==
  ASSUME CareInv, NEW r \in InFlight, NEW l, l = req[r], NEW t, ListOf(r, l, t), req' = [req EXCEPT ![r] = t],
         l[1].to \notin {"outcome", "dispute"}, faults' >= faults, faults' \in Nat, dispute' = dispute,
         ticket'.hold => ticket.hold /\ ticket'.openDispute = ticket.openDispute,
         \/ \A c \in DOMAIN charge' : charge'[c].status # "PENDING"
         \/ NoneAdded(charge', charge) /\ l[1].to # "void"
  PROVE  CallsInv' /\ HoldInv'
<1>1. /\ CallList(t, r) /\ \A k \in DOMAIN t : k + 1 \in DOMAIN l /\ t[k] = l[k + 1]
      /\ \A k \in DOMAIN l : k # 1 => k - 1 \in DOMAIN t /\ t[k - 1] = l[k]
  BY DEF ListOf
<1>2. \A k \in DOMAIN t : t[k].to = "dispute" =>
        \E j \in DOMAIN req[r] : req[r][j].to = "dispute" /\ req[r][j].i = t[k].i
  BY <1>1
<1>3. ASSUME t # <<>>, t[1].to = "ticket" PROVE FALSE
  <2>1. WriteAt(l, 2, r) /\ l[2].to = "ticket"
    BY <1>3 DEF ListOf
  <2>2. l[2 - 1].to = "dispute"
    BY <2>1 DEF WriteAt
  <2> QED
    BY <2>2
<1>4. DOMAIN dispute \subseteq DOMAIN req /\ \A d \in DOMAIN dispute : "status" \in DOMAIN dispute[d]
  BY DEF CareInv, CallsInv
<1>5. CallsInv'
  BY <1>1, <1>2, <1>3, <1>4, CallShrinks
<1>6. \A k \in DOMAIN req[r] : req[r][k].to = "outcome" => \E j \in DOMAIN t : t[j] = req[r][k]
  BY <1>1
<1>7. l[1].to # "void" => \A k \in DOMAIN req[r] : req[r][k].to = "void" => \E j \in DOMAIN t : t[j] = req[r][k]
  BY <1>1
<1>8. HoldStep(r, t)
  BY <1>6, <1>7 DEF HoldStep
<1>9. HoldInv'
  BY <1>8, HoldAfter
<1> QED
  BY <1>5, <1>9

LEMMA NothingAsked ==
  ASSUME NEW r \in InFlight, Write(r), NEW w, w = Head(req[r]), w.to \notin Reads
  PROVE  Reaches(w) /\ req' = [req EXCEPT ![r] = Tail(req[r])] /\ faults' = faults
<1>1. Plan(r) = req[r]
  BY DEF Plan, Reads
<1>2. Reaches(w) /\ req' = [req EXCEPT ![r] = Tail(req[r])]
  BY <1>1 DEF Write, InFlight
<1>3. ~IsRefused(w) /\ faults' = faults
  BY DEF IsRefused, Reads, Write
<1> QED
  BY <1>2, <1>3

\* A write that leaves the ticket alone.
LEMMA QuietWrite ==
  ASSUME CareInv, NEW r \in InFlight, Write(r), NEW w, w = Head(req[r]),
         w.to \in {"claim", "rework", "number", "invoice", "ask", "void"}
  PROVE  CareInv'
<1>1. Reaches(w) /\ req' = [req EXCEPT ![r] = Tail(req[r])] /\ faults' = faults
  BY NothingAsked DEF Reads
<1>2. PICK l, t : l = req[r] /\ t = Tail(l)
  OBVIOUS
<1>3. ListOf(r, l, t)
  BY <1>2, CallOf
<1>4. l[1] = w /\ req' = [req EXCEPT ![r] = t]
  BY <1>1, <1>2, <1>3 DEF ListOf
<1>5. faults \in Nat /\ Shaped(Store)
  BY DEF CareInv, ShopState
<1>6. /\ Shaped(Store') /\ ticket' = ticket /\ tow' = tow /\ dispute' = dispute
      /\ \/ \A c \in DOMAIN charge' : charge'[c].status # "PENDING"
         \/ NoneAdded(charge', charge) /\ w.to # "void"
  <2>1. CASE w.to \in {"claim", "rework", "number", "invoice"}
    <3>1. ticket' = ticket /\ charge' = charge /\ tow' = tow /\ dispute' = dispute
      BY <1>1, <2>1, ReachesElsewhere
    <3>2. Store' = Store /\ NoneAdded(charge, charge)
      BY <3>1 DEF Store, NoneAdded
    <3> QED
      BY <1>5, <2>1, <3>1, <3>2
  <2>2. CASE w.to \in {"ask", "void"}
    <3>1. Store' = Apply(Store, w) /\ dispute' = dispute
      BY <1>1, <1>5, <2>2, ReachesShop
    <3>2. PICK s : s = Apply(Store, w)
      OBVIOUS
    <3>3. /\ Shaped(s) /\ s.tow = tow /\ s.ticket = ticket /\ NoneAdded(s.charge, charge)
          /\ w.to = "void" => \A c \in DOMAIN s.charge : s.charge[c].status # "PENDING"
      BY <1>5, <2>2, <3>2, ChargesWritten, StoreIs
    <3>4. (Store').ticket = ticket' /\ (Store').charge = charge' /\ (Store').tow = tow'
      BY DEF Store
    <3> QED
      BY <3>1, <3>2, <3>3, <3>4
  <2> QED
    BY <2>1, <2>2
<1>7. ShopState'
  BY <1>1, <1>5, <1>6, StateAfter
<1>8. CallsInv' /\ HoldInv'
  <2>1. l = req[r] /\ ListOf(r, l, t) /\ req' = [req EXCEPT ![r] = t] /\ l[1].to \notin {"outcome", "dispute"}
    BY <1>2, <1>3, <1>4
  <2>2. faults' >= faults /\ faults' \in Nat /\ dispute' = dispute
    BY <1>1, <1>5, <1>6
  <2>3. ticket'.hold => ticket.hold /\ ticket'.openDispute = ticket.openDispute
    BY <1>6
  <2>4. \/ \A c \in DOMAIN charge' : charge'[c].status # "PENDING"
        \/ NoneAdded(charge', charge) /\ l[1].to # "void"
    BY <1>4, <1>6
  <2>5. CallsInv'
    BY <2>1, <2>2, <2>3, <2>4, Onward
  <2>6. HoldInv'
    BY <2>1, <2>2, <2>3, <2>4, Onward
  <2> QED
    BY <2>5, <2>6
<1> QED
  BY <1>7, <1>8 DEF CareInv

\* The hold of a dispute just filed: it is open, and if the repair is held the
\* charges are cancelled next.
LEMMA TicketWrite ==
  ASSUME CareInv, NEW r \in InFlight, Write(r), NEW w, w = Head(req[r]), w.to = "ticket"
  PROVE  CareInv'
<1>1. Reaches(w) /\ req' = [req EXCEPT ![r] = Tail(req[r])] /\ faults' = faults
  BY NothingAsked DEF Reads
<1>2. PICK l, t : l = req[r] /\ t = Tail(l)
  OBVIOUS
<1>3. ListOf(r, l, t)
  BY <1>2, CallOf
<1>4. l[1] = w /\ req' = [req EXCEPT ![r] = t] /\ WriteAt(l, 1, r) /\ l # <<>>
  BY <1>1, <1>2, <1>3 DEF ListOf
<1>5. faults \in Nat /\ Shaped(Store)
  BY DEF CareInv, ShopState
<1>6. PICK h \in BOOLEAN : w = HoldSet(r, h) /\ (h => 1 < Len(l) /\ l[2].to = "void")
  BY <1>4 DEF WriteAt
<1>7. /\ DOMAIN w.fields = {"dispute", "hold", "openDispute"} /\ w.fields["hold"] = h /\ w.fields["openDispute"] = r
  BY <1>6 DEF HoldSet, Set
<1>8. Store' = Apply(Store, w) /\ dispute' = dispute
  BY <1>1, <1>5, ReachesShop
<1>9. /\ Shaped(Store') /\ tow' = tow /\ charge' = charge
      /\ ticket'.status = ticket.status /\ ticket'.offer = ticket.offer
      /\ ticket'.hold = h /\ ticket'.openDispute = r
  <2>1. PICK s : s = Apply(Store, w)
    OBVIOUS
  <2>2. /\ Shaped(s) /\ s.tow = tow /\ s.charge = charge
        /\ \A x \in DOMAIN ticket : s.ticket[x] = IF x \in DOMAIN w.fields THEN w.fields[x] ELSE ticket[x]
    BY <1>5, <2>1, TicketWritten, StoreIs
  <2>3. TicketFields \subseteq DOMAIN ticket
    BY <1>5, StoreIs DEF Shaped
  <2>4. (Store').ticket = ticket' /\ (Store').charge = charge' /\ (Store').tow = tow'
    BY DEF Store
  <2>5. ticket' = s.ticket /\ Shaped(Store') /\ tow' = tow /\ charge' = charge
    BY <1>8, <2>1, <2>2, <2>4
  <2>6. /\ s.ticket.status = ticket.status /\ s.ticket.offer = ticket.offer
        /\ s.ticket.hold = h /\ s.ticket.openDispute = r
    BY <1>7, <2>2, <2>3 DEF TicketFields
  <2> QED
    BY <2>5, <2>6
<1>10. ShopState'
  BY <1>1, <1>5, <1>9, StateAfter
<1>11. r \in DOMAIN dispute /\ dispute[r].status = "OPEN"
  BY <1>2, <1>3, <1>4 DEF CareInv, CallsInv, ListOf
<1>12. CallsInv'
  <2>1. /\ CallList(t, r) /\ \A k \in DOMAIN t : k + 1 \in DOMAIN l /\ t[k] = l[k + 1]
    BY <1>3 DEF ListOf
  <2>2. \A k \in DOMAIN t : t[k].to = "dispute" =>
          \E j \in DOMAIN req[r] : req[r][j].to = "dispute" /\ req[r][j].i = t[k].i
    BY <1>2, <2>1
  <2>3. DOMAIN dispute \subseteq DOMAIN req /\ \A d \in DOMAIN dispute : "status" \in DOMAIN dispute[d]
    BY DEF CareInv, CallsInv
  <2> QED
    BY <1>4, <1>8, <1>11, <2>1, <2>2, <2>3, CallShrinks
<1>13. HoldInv'
  <2>1. PICK new : new = req'
    OBVIOUS
  <2>2. r \in DOMAIN new /\ new[r] = t
    BY <1>4, <2>1, ReqIs
  <2>3. h => 1 \in DOMAIN t /\ t[1].to = "void"
    BY <1>3, <1>6 DEF ListOf
  <2>4. \/ \A c \in DOMAIN charge' : charge'[c].status # "PENDING"
        \/ ~h
        \/ \E q \in DOMAIN new : \E k \in DOMAIN new[q] : new[q][k].to = "void"
    BY <2>2, <2>3
  <2> QED
    BY <1>8, <1>9, <1>11, <2>1, <2>2, <2>4 DEF HoldInv
<1> QED
  BY <1>10, <1>12, <1>13 DEF CareInv

\* A dispute is filed, or decided: its outcome for the ticket is the next write.
LEMMA DisputeWrite ==
  ASSUME CareInv, NEW r \in InFlight, Write(r), NEW w, w = Head(req[r]), w.to = "dispute"
  PROVE  CareInv'
<1>1. Reaches(w) /\ req' = [req EXCEPT ![r] = Tail(req[r])] /\ faults' = faults
  BY NothingAsked DEF Reads
<1>2. PICK l, t, i, f : l = req[r] /\ t = Tail(l) /\ i = w.i /\ f = w.fields
  OBVIOUS
<1>3. ListOf(r, l, t)
  BY <1>2, CallOf
<1>4. l[1] = w /\ req' = [req EXCEPT ![r] = t] /\ WriteAt(l, 1, r) /\ l # <<>>
  BY <1>1, <1>2, <1>3 DEF ListOf
<1>5. faults \in Nat /\ Shaped(Store)
  BY DEF CareInv, ShopState
<1>6. /\ "status" \in DOMAIN f /\ (i = r => f["status"] = "OPEN")
      /\ i # r => 1 < Len(l) /\ l[2].to = "outcome" /\ l[2].d = i
  BY <1>2, <1>4 DEF WriteAt
<1>7. PICK new : new = dispute'
  OBVIOUS
<1>8. /\ ticket' = ticket /\ charge' = charge /\ tow' = tow /\ DOMAIN new = DOMAIN dispute \cup {i}
      /\ \A d \in DOMAIN dispute : d # i => new[d] = dispute[d]
      /\ i \in DOMAIN dispute => new[i] = With(f, dispute[i])
      /\ i \notin DOMAIN dispute => new[i] = f
  BY <1>1, <1>2, <1>7, ReachesDispute
<1>9. ShopState'
  <2>1. Store' = Store
    BY <1>8 DEF Store
  <2> QED
    BY <1>1, <1>5, <1>8, <2>1, StateAfter
<1>10. DOMAIN dispute \subseteq DOMAIN req /\ \A d \in DOMAIN dispute : "status" \in DOMAIN dispute[d]
  BY DEF CareInv, CallsInv
<1>11. i = r \/ (i \in DOMAIN req /\ req[i] = <<>>)
  BY <1>2, <1>3, <1>4 DEF CareInv, CallsInv, ListOf
<1>12. "status" \in DOMAIN new[i] /\ (i = r => new[i].status = "OPEN")
  <2>1. CASE i \in DOMAIN dispute
    <3>1. PICK old : old = dispute[i]
      OBVIOUS
    <3>2. "status" \in DOMAIN old /\ new[i] = With(f, old)
      BY <1>8, <1>10, <2>1, <3>1
    <3>3. "status" \in DOMAIN With(f, old) /\ With(f, old)["status"] = f["status"]
      BY <1>6, <3>2 DEF With
    <3> QED
      BY <1>6, <3>2, <3>3
  <2>2. CASE i \notin DOMAIN dispute
    BY <1>6, <1>8, <2>2
  <2> QED
    BY <2>1, <2>2
<1>13. /\ DOMAIN new \subseteq DOMAIN req /\ \A d \in DOMAIN new : "status" \in DOMAIN new[d]
       /\ i = r => r \in DOMAIN new /\ new[r].status = "OPEN"
       /\ \A q \in InFlight : q # r /\ q \in DOMAIN dispute /\ dispute[q].status = "OPEN" =>
            q \in DOMAIN new /\ new[q].status = "OPEN"
  <2>1. r \in DOMAIN req
    BY <1>3 DEF ListOf
  <2>2. DOMAIN new \subseteq DOMAIN req
    BY <1>8, <1>10, <1>11, <2>1
  <2>3. \A d \in DOMAIN new : "status" \in DOMAIN new[d]
    BY <1>8, <1>10, <1>12
  <2>4. \A q \in InFlight : q # r => q # i
    BY <1>11 DEF InFlight
  <2> QED
    BY <1>8, <1>12, <2>2, <2>3, <2>4
<1>14. /\ CallList(t, r) /\ \A k \in DOMAIN t : k + 1 \in DOMAIN l /\ t[k] = l[k + 1]
       /\ \A k \in DOMAIN l : k # 1 => k - 1 \in DOMAIN t /\ t[k - 1] = l[k]
  BY <1>3 DEF ListOf
<1>15. CallsInv'
  <2>1. \A k \in DOMAIN t : t[k].to = "dispute" =>
          \E j \in DOMAIN req[r] : req[r][j].to = "dispute" /\ req[r][j].i = t[k].i
    BY <1>2, <1>14
  <2>2. ASSUME t # <<>>, t[1].to = "ticket" PROVE i = r
    <3>1. WriteAt(l, 2, r) /\ l[2].to = "ticket"
      BY <1>3, <2>2 DEF ListOf
    <3>2. l[2 - 1].i = r
      BY <3>1 DEF WriteAt
    <3> QED
      BY <1>2, <1>4, <3>2
  <2>3. t # <<>> /\ t[1].to = "ticket" => r \in DOMAIN dispute' /\ dispute'[r].status = "OPEN"
    BY <1>7, <1>13, <2>2
  <2>4. /\ DOMAIN dispute' \subseteq DOMAIN req /\ \A d \in DOMAIN dispute' : "status" \in DOMAIN dispute'[d]
        /\ \A q \in InFlight : q # r /\ q \in DOMAIN dispute /\ dispute[q].status = "OPEN" =>
             q \in DOMAIN dispute' /\ dispute'[q].status = "OPEN"
    BY <1>7, <1>13
  <2> QED
    BY <1>4, <1>14, <2>1, <2>3, <2>4, CallShrinks
<1>16. HoldInv'
  <2>1. \A k \in DOMAIN l : k = 1 \/ \E j \in DOMAIN t : t[j] = l[k]
    BY <1>14
  <2>2. i # r => 1 \in DOMAIN t /\ t[1].to = "outcome" /\ t[1].d = i
    BY <1>3, <1>6 DEF ListOf
  <2>3. \A d \in DOMAIN dispute : dispute[d].status = "OPEN" =>
          new[d].status = "OPEN" \/ \E j \in DOMAIN t : t[j].to = "outcome" /\ t[j].d = d
    BY <1>8, <1>12, <2>2
  <2>4. NoneAdded(charge', charge)
    BY <1>8 DEF NoneAdded
  <2>5. HoldStep(r, t)
    BY <1>1, <1>2, <1>4, <1>5, <1>7, <1>8, <2>1, <2>3, <2>4 DEF HoldStep
  <2> QED
    BY <1>4, <2>5, HoldAfter
<1> QED
  BY <1>9, <1>15, <1>16 DEF CareInv

-----------------------------------------------------------------------------
(* The reads of a call, each the last on its list.                         *)

LEMMA PlanRun ==
  ASSUME NEW r, Write(r), NEW plan, plan = Plan(r)
  PROVE  /\ plan = <<>> => UNCHANGED documents /\ req' = [req EXCEPT ![r] = <<>>]
         /\ plan # <<>> => Reaches(Head(plan)) /\ req' = [req EXCEPT ![r] = Tail(plan)]
         /\ faults' = IF IsRefused(Head(req[r])) THEN faults + 1 ELSE faults
BY DEF Write

LEMMA ReadIsLast ==
  ASSUME CareInv, NEW r \in InFlight, NEW w, w = Head(req[r]), w.to \in Reads
  PROVE  /\ r \in DOMAIN req /\ DOMAIN req[r] = {1} /\ req[r][1] = w /\ Tail(req[r]) = <<>>
         /\ WriteAt(req[r], 1, r)
<1>1. PICK l, t : l = req[r] /\ t = Tail(l)
  OBVIOUS
<1>2. ListOf(r, l, t)
  BY <1>1, CallOf
<1>3. l[1] = w /\ WriteAt(l, 1, r) /\ Len(l) \in Nat /\ DOMAIN l = 1..Len(l)
  BY <1>1, <1>2 DEF ListOf
<1>4. Len(l) = 1
  BY <1>3 DEF WriteAt
<1>5. t = <<>>
  BY <1>2, <1>3, <1>4 DEF ListOf
<1> QED
  BY <1>1, <1>2, <1>3, <1>4, <1>5 DEF ListOf

LEMMA NothingLeft ==
  ASSUME NEW r
  PROVE  CallList(<<>>, r) /\ DOMAIN <<>> = {}
<1>1. DOMAIN <<>> = {}
  OBVIOUS
<1>2. <<>> \in Seq({<<>>[k] : k \in DOMAIN <<>>})
  BY EmptySeq
<1> QED
  BY <1>1, <1>2 DEF CallList

\* What is left of a call neither files nor decides.
LEMMA NothingFiled ==
  ASSUME CareInv, NEW r \in InFlight, NEW t, CallList(t, r), req' = [req EXCEPT ![r] = t], dispute' = dispute,
         \A k \in DOMAIN t : t[k].to \notin {"dispute", "ticket"}
  PROVE  CallsInv'
<1>1. ASSUME t # <<>> PROVE t[1].to # "ticket"
  <2>1. 1 \in DOMAIN t
    BY <1>1, ListIs
  <2> QED
    BY <2>1
<1>2. DOMAIN dispute \subseteq DOMAIN req /\ \A d \in DOMAIN dispute : "status" \in DOMAIN dispute[d]
  BY DEF CareInv, CallsInv
<1> QED
  BY <1>1, <1>2, CallShrinks

\* A call ends with the documents as they are.
LEMMA CallOver ==
  ASSUME CareInv, NEW r \in InFlight, req' = [req EXCEPT ![r] = <<>>], UNCHANGED documents,
         NEW w, w = Head(req[r]), w.to \in Reads, faults' \in Nat, faults' >= faults,
         w.to = "outcome" => w.d # ticket.openDispute \/ faults' # faults
  PROVE  CareInv'
<1>1. ticket' = ticket /\ charge' = charge /\ tow' = tow /\ dispute' = dispute
  BY DEF documents
<1>2. PICK t : t = <<>>
  OBVIOUS
<1>3. CallList(t, r) /\ DOMAIN t = {} /\ req' = [req EXCEPT ![r] = t]
  BY <1>2, NothingLeft
<1>4. ShopState'
  <2>1. Store' = Store /\ Shaped(Store)
    BY <1>1 DEF Store, CareInv, ShopState
  <2> QED
    BY <1>1, <2>1, StateAfter
<1>5. CallsInv'
  BY <1>1, <1>3, NothingFiled
<1>6. HoldStep(r, t)
  <2>1. DOMAIN req[r] = {1} /\ req[r][1] = w
    BY ReadIsLast
  <2>2. NoneAdded(charge', charge)
    BY <1>1 DEF NoneAdded
  <2> QED
    BY <1>1, <2>1, <2>2 DEF HoldStep, Reads
<1>7. HoldInv'
  BY <1>3, <1>6, HoldAfter
<1> QED
  BY <1>4, <1>5, <1>7 DEF CareInv

\* The hold is lifted.
LEMMA HoldLifted ==
  ASSUME CareInv, NEW r \in InFlight, NEW f, DOMAIN f \cap {"status", "offer"} = {}, "hold" \in DOMAIN f,
         f["hold"] = FALSE, Reaches(Set(f)), faults' = faults, NEW t, CallList(t, r),
         req' = [req EXCEPT ![r] = t], \A k \in DOMAIN t : t[k].to \notin {"dispute", "ticket"}
  PROVE  CareInv'
<1>1. PICK w : w = Set(f)
  OBVIOUS
<1>2. w.to = "ticket" /\ w.fields = f /\ Reaches(w)
  BY <1>1 DEF Set
<1>3. faults \in Nat /\ Shaped(Store)
  BY DEF CareInv, ShopState
<1>4. Store' = Apply(Store, w) /\ dispute' = dispute
  BY <1>2, <1>3, ReachesShop
<1>5. /\ Shaped(Store') /\ tow' = tow /\ ticket'.status = ticket.status /\ ticket'.offer = ticket.offer
      /\ ticket'.hold = FALSE
  <2>1. PICK s : s = Apply(Store, w)
    OBVIOUS
  <2>2. /\ Shaped(s) /\ s.tow = tow
        /\ \A x \in DOMAIN ticket : s.ticket[x] = IF x \in DOMAIN f THEN f[x] ELSE ticket[x]
    BY <1>2, <1>3, <2>1, TicketWritten, StoreIs
  <2>3. TicketFields \subseteq DOMAIN ticket
    BY <1>3, StoreIs DEF Shaped
  <2>4. (Store').ticket = ticket' /\ (Store').tow = tow'
    BY DEF Store
  <2>5. ticket' = s.ticket /\ Shaped(Store') /\ tow' = tow
    BY <1>4, <2>1, <2>2, <2>4
  <2>6. s.ticket.status = ticket.status /\ s.ticket.offer = ticket.offer /\ s.ticket.hold = FALSE
    BY <2>2, <2>3 DEF TicketFields
  <2> QED
    BY <2>5, <2>6
<1>6. ShopState'
  BY <1>3, <1>5, StateAfter
<1>7. CallsInv'
  BY <1>4, NothingFiled
<1>8. HoldInv'
  BY <1>5 DEF HoldInv
<1> QED
  BY <1>6, <1>7, <1>8 DEF CareInv

LEMMA OutcomeWrite ==
  ASSUME CareInv, NEW r \in InFlight, Write(r), NEW w, w = Head(req[r]), w.to = "outcome"
  PROVE  CareInv'
<1>1. PICK plan, rest : plan = Plan(r) /\ rest = OutcomeWrites(w)
  OBVIOUS
<1>2. plan = rest \o <<>>
  <2>1. Tail(req[r]) = <<>>
    BY ReadIsLast DEF Reads
  <2> QED
    BY <1>1, <2>1 DEF Plan
<1>3. /\ plan = <<>> => UNCHANGED documents /\ req' = [req EXCEPT ![r] = <<>>]
      /\ plan # <<>> => Reaches(Head(plan)) /\ req' = [req EXCEPT ![r] = Tail(plan)]
      /\ faults' = IF IsRefused(w) THEN faults + 1 ELSE faults
  BY <1>1, PlanRun
<1>4. w.outcome \in Outcomes /\ faults \in Nat
  <2>1. WriteAt(req[r], 1, r) /\ req[r][1] = w
    BY ReadIsLast DEF Reads
  <2> QED
    BY <2>1 DEF WriteAt, CareInv, ShopState
<1>5. CASE rest = <<>>
  <2>1. plan = <<>>
    BY <1>2, <1>5
  <2>2. w.d \notin {ticket.openDispute, ticket.dispute} \/ IsRefused(w)
    <3>1. w.d \in {ticket.openDispute, ticket.dispute} =>
            w.outcome # "SHOP" /\ w.outcome # "RIDER" /\ ~(w.outcome = "PARTIAL" /\ w.kept # None)
      BY <1>1, <1>5 DEF OutcomeWrites
    <3> QED
      BY <1>4, <3>1 DEF IsRefused, Outcomes
  <2>3. /\ w.d # ticket.openDispute \/ faults' # faults
        /\ faults' \in Nat /\ faults' >= faults
    BY <1>3, <1>4, <2>2
  <2> QED
    BY <1>3, <2>1, <2>3, CallOver DEF Reads
<1>6. ASSUME NEW f, f = NoHold, rest = <<Set(f)>>, ~IsRefused(w)
      PROVE  CareInv'
  <2>1. PICK a : a = Set(f)
    OBVIOUS
  <2>2. plan = <<a>>
    BY <1>2, <1>6, <2>1
  <2>3. plan # <<>> /\ Head(plan) = a /\ Tail(plan) = <<>>
    BY <2>2
  <2>4. CallList(<<>>, r) /\ DOMAIN <<>> = {}
    BY NothingLeft
  <2>5. DOMAIN f \cap {"status", "offer"} = {} /\ "hold" \in DOMAIN f /\ f["hold"] = FALSE
    BY <1>6 DEF NoHold
  <2>6. Reaches(Set(f)) /\ req' = [req EXCEPT ![r] = <<>>] /\ faults' = faults
    BY <1>3, <1>6, <2>1, <2>3
  <2> QED
    BY <2>4, <2>5, <2>6, HoldLifted
<1>7. ASSUME NEW kept, NEW f, f = Lowered(kept), rest = <<Set(f), Void, Keep(kept)>>, ~IsRefused(w)
      PROVE  CareInv'
  <2>1. PICK a, b, c, t : a = Set(f) /\ b = Void /\ c = Keep(kept) /\ t = <<b, c>>
    OBVIOUS
  <2>2. rest = <<a, b, c>>
    BY <1>7, <2>1
  <2>3. plan = <<a, b, c>>
    <3>1. PICK w3, S : w3 = <<a, b, c>> /\ S = {<<a, b, c>>[k] : k \in DOMAIN <<a, b, c>>}
      OBVIOUS
    <3>2. w3 \in Seq(S)
      BY <3>1, ShortLists
    <3> QED
      BY <1>2, <2>2, <3>1, <3>2, ConcatEmptySeq
  <2>4. plan # <<>> /\ Head(plan) = a /\ Tail(plan) = t
    BY <2>1, <2>3
  <2>5. b.to = "void" /\ c.to = "due"
    BY <2>1 DEF Void, Keep
  <2>6. CallList(t, r)
    <3>1. WriteAt(<<b, c>>, 1, r) /\ WriteAt(<<b, c>>, 2, r)
      BY <2>5, ShortLists DEF WriteAt, CareKinds, Reads
    <3> QED
      BY <2>1, <3>1, ShortLists DEF CallList
  <2>7. \A k \in DOMAIN t : t[k].to \notin {"dispute", "ticket"}
    BY <2>1, <2>5, ShortLists
  <2>8. DOMAIN f \cap {"status", "offer"} = {} /\ "hold" \in DOMAIN f /\ f["hold"] = FALSE
    BY <1>7 DEF Lowered
  <2>9. Reaches(Set(f)) /\ req' = [req EXCEPT ![r] = t] /\ faults' = faults
    BY <1>3, <1>7, <2>1, <2>4
  <2> QED
    BY <2>6, <2>7, <2>8, <2>9, HoldLifted
<1>8. CASE rest # <<>>
  <2>1. w.d \in {ticket.openDispute, ticket.dispute}
    BY <1>1, <1>8 DEF OutcomeWrites
  <2>2. CASE w.outcome = "SHOP"
    <3>1. rest = <<Set(NoHold)>> /\ ~IsRefused(w)
      BY <1>1, <2>1, <2>2 DEF OutcomeWrites, IsRefused
    <3> QED
      BY <1>6, <3>1
  <2>3. CASE w.outcome = "RIDER"
    <3>1. rest = <<Set(Lowered(0)), Void, Keep(0)>> /\ ~IsRefused(w)
      BY <1>1, <2>1, <2>3 DEF OutcomeWrites, IsRefused
    <3> QED
      BY <1>7, <3>1
  <2>4. CASE w.outcome = "PARTIAL"
    <3>1. w.kept # None
      BY <1>1, <1>8, <2>1, <2>4 DEF OutcomeWrites
    <3>2. rest = <<Set(Lowered(w.kept)), Void, Keep(w.kept)>> /\ ~IsRefused(w)
      BY <1>1, <2>1, <2>4, <3>1 DEF OutcomeWrites, IsRefused
    <3> QED
      BY <1>7, <3>2
  <2> QED
    BY <1>4, <2>2, <2>3, <2>4 DEF Outcomes
<1> QED
  BY <1>5, <1>8

LEMMA AskList ==
  ASSUME NEW S, IsFiniteSet(S), NEW l, l = Asks(S)
  PROVE  l \in Seq({l[k] : k \in DOMAIN l}) /\ \A k \in DOMAIN l : l[k].to = "ask"
<1>1. PICK n : n = Cardinality(S)
  OBVIOUS
<1>2. n \in Nat
  BY <1>1, FS_CardinalityType
<1>3. l = [k \in 1..n |-> Ask(CHOOSE c \in S : Cardinality({d \in S : d > c}) = k - 1)]
  BY <1>1 DEF Asks
<1>4. DOMAIN l = 1..n /\ l = [k \in 1..n |-> l[k]]
  BY <1>3
<1>5. l \in Seq({l[k] : k \in DOMAIN l})
  BY <1>2, <1>4
<1>6. \A c : Ask(c).to = "ask"
  BY DEF Ask
<1> QED
  BY <1>3, <1>4, <1>5, <1>6

LEMMA DueWrite ==
  ASSUME CareInv, NEW r \in InFlight, Write(r), NEW w, w = Head(req[r]), w.to = "due"
  PROVE  CareInv'
<1>1. PICK plan, rest, S : /\ plan = Plan(r) /\ rest = RefundWrites(w)
                           /\ S = {c \in Having(charge, IsReceived) : w.kept = 0 \/ charge[c].amount > w.kept}
  OBVIOUS
<1>2. Tail(req[r]) = <<>> /\ DOMAIN req[r] = {1} /\ req[r][1] = w
  BY ReadIsLast DEF Reads
<1>3. IsFiniteSet(S)
  <2>1. PICK R : charge \in Seq(R)
    BY StoreIs DEF CareInv, ShopState, Shaped, ChargeList
  <2>2. Len(charge) \in Nat /\ DOMAIN charge = 1..Len(charge)
    BY <2>1, LenProperties
  <2>3. IsFiniteSet(1..Len(charge))
    BY <2>2, FS_Interval
  <2>4. S \subseteq 1..Len(charge)
    BY <1>1, <2>2 DEF Having
  <2> QED
    BY <2>3, <2>4, FS_Subset
<1>4. rest \in Seq({rest[k] : k \in DOMAIN rest}) /\ \A k \in DOMAIN rest : rest[k].to = "ask"
  <2>1. rest = Asks(S)
    BY <1>1 DEF RefundWrites
  <2> QED
    BY <1>3, <2>1, AskList
<1>5. plan = rest
  <2>1. plan = rest \o <<>>
    BY <1>1, <1>2 DEF Plan
  <2> QED
    BY <1>4, <2>1, ConcatEmptySeq
<1>6. /\ plan = <<>> => UNCHANGED documents /\ req' = [req EXCEPT ![r] = <<>>]
      /\ plan # <<>> => Reaches(Head(plan)) /\ req' = [req EXCEPT ![r] = Tail(plan)]
      /\ faults' = faults
  BY <1>1, PlanRun DEF IsRefused
<1>7. faults \in Nat /\ Shaped(Store)
  BY DEF CareInv, ShopState
<1>8. CASE plan = <<>>
  BY <1>6, <1>7, <1>8, CallOver DEF Reads
<1>9. CASE plan # <<>>
  <2>1. PICK a, t : a = Head(plan) /\ t = Tail(plan)
    OBVIOUS
  <2>2. CallList(plan, r)
    BY <1>4, <1>5 DEF CallList, WriteAt, CareKinds, Reads
  <2>3. CallList(t, r)
    BY <1>9, <2>1, <2>2, TailKept
  <2>4. /\ Head(plan) = plan[1] /\ 1 \in DOMAIN plan
        /\ \A k \in DOMAIN t : k + 1 \in DOMAIN plan /\ t[k] = plan[k + 1]
    BY <1>9, <2>1, <2>2, ListIs
  <2>5. a.to = "ask" /\ \A k \in DOMAIN t : t[k].to = "ask"
    BY <1>4, <1>5, <2>1, <2>4
  <2>6. Reaches(a) /\ req' = [req EXCEPT ![r] = t]
    BY <1>6, <1>9, <2>1
  <2>7. Store' = Apply(Store, a) /\ dispute' = dispute
    BY <1>7, <2>5, <2>6, ReachesShop
  <2>8. Shaped(Store') /\ ticket' = ticket /\ tow' = tow /\ NoneAdded(charge', charge)
    <3>1. PICK s : s = Apply(Store, a)
      OBVIOUS
    <3>2. Shaped(s) /\ s.tow = tow /\ s.ticket = ticket /\ NoneAdded(s.charge, charge)
      BY <1>7, <2>5, <3>1, ChargesWritten, StoreIs
    <3>3. (Store').ticket = ticket' /\ (Store').charge = charge' /\ (Store').tow = tow'
      BY DEF Store
    <3> QED
      BY <2>7, <3>1, <3>2, <3>3
  <2>9. ShopState'
    BY <1>6, <1>7, <2>8, StateAfter
  <2>10. CallsInv'
    BY <2>3, <2>5, <2>6, <2>7, NothingFiled
  <2>11. HoldStep(r, t)
    BY <1>2, <1>6, <1>7, <2>7, <2>8 DEF HoldStep
  <2>12. HoldInv'
    BY <2>6, <2>11, HoldAfter
  <2> QED
    BY <2>9, <2>10, <2>12 DEF CareInv
<1> QED
  BY <1>8, <1>9

LEMMA CompleteWrite ==
  ASSUME CareInv, NEW r \in InFlight, Write(r), NEW w, w = Head(req[r]), w.to = "complete"
  PROVE  CareInv'
<1>1. PICK plan, rest : plan = Plan(r) /\ rest = CompleteWrites(w)
  OBVIOUS
<1>2. Tail(req[r]) = <<>> /\ DOMAIN req[r] = {1} /\ req[r][1] = w
  BY ReadIsLast DEF Reads
<1>3. plan = rest \o <<>>
  BY <1>1, <1>2 DEF Plan
<1>4. /\ plan = <<>> => UNCHANGED documents /\ req' = [req EXCEPT ![r] = <<>>]
      /\ plan # <<>> => Reaches(Head(plan)) /\ req' = [req EXCEPT ![r] = Tail(plan)]
      /\ faults' = faults
  BY <1>1, PlanRun DEF IsRefused
<1>5. faults \in Nat /\ Shaped(Store)
  BY DEF CareInv, ShopState
<1>6. CASE rest = <<>>
  <2>1. plan = <<>>
    BY <1>3, <1>6
  <2> QED
    BY <1>4, <1>5, <2>1, CallOver DEF Reads
<1>7. CASE rest # <<>>
  <2>1. PICK k : rest = <<Soft(Doc("claim", k, [status |-> "COMPLETED"]))>>
    BY <1>1, <1>7 DEF CompleteWrites
  <2>2. PICK a, t : a = Soft(Doc("claim", k, [status |-> "COMPLETED"])) /\ t = <<>>
    OBVIOUS
  <2>3. a.to = "claim"
    BY <2>2 DEF Soft, Doc
  <2>4. plan = <<a>>
    BY <1>3, <2>1, <2>2
  <2>5. plan # <<>> /\ Head(plan) = a /\ Tail(plan) = t
    BY <2>2, <2>4
  <2>6. Reaches(a) /\ req' = [req EXCEPT ![r] = t]
    BY <1>4, <2>5
  <2>7. ticket' = ticket /\ charge' = charge /\ tow' = tow /\ dispute' = dispute
    BY <2>3, <2>6, ReachesElsewhere
  <2>8. ShopState'
    <3>1. Store' = Store
      BY <2>7 DEF Store
    <3> QED
      BY <1>4, <1>5, <2>7, <3>1, StateAfter
  <2>9. CallList(t, r) /\ DOMAIN t = {}
    BY <2>2, NothingLeft
  <2>10. CallsInv'
    BY <2>6, <2>7, <2>9, NothingFiled
  <2>11. HoldStep(r, t)
    <3>1. NoneAdded(charge', charge)
      BY <2>7 DEF NoneAdded
    <3> QED
      BY <1>2, <1>4, <1>5, <2>7, <3>1 DEF HoldStep
  <2>12. HoldInv'
    BY <2>6, <2>11, HoldAfter
  <2> QED
    BY <2>8, <2>10, <2>12 DEF CareInv
<1> QED
  BY <1>6, <1>7

LEMMA WriteCare ==
  ASSUME CareInv, NEW r \in InFlight, Write(r)
  PROVE  CareInv'
<1>1. PICK w, l, t : w = Head(req[r]) /\ l = req[r] /\ t = Tail(l)
  OBVIOUS
<1>2. w.to \in CareKinds
  <2>1. ListOf(r, l, t)
    BY <1>1, CallOf
  <2> QED
    BY <1>1, <2>1 DEF ListOf, WriteAt
<1>3. CASE w.to \in {"claim", "rework", "number", "invoice", "ask", "void"}
  BY <1>1, <1>3, QuietWrite
<1>4. CASE w.to = "ticket"
  BY <1>1, <1>4, TicketWrite
<1>5. CASE w.to = "dispute"
  BY <1>1, <1>5, DisputeWrite
<1>6. CASE w.to = "outcome"
  BY <1>1, <1>6, OutcomeWrite
<1>7. CASE w.to = "due"
  BY <1>1, <1>7, DueWrite
<1>8. CASE w.to = "complete"
  BY <1>1, <1>8, CompleteWrite
<1> QED
  BY <1>2, <1>3, <1>4, <1>5, <1>6, <1>7, <1>8 DEF CareKinds

\* A call that dies, or goes on after a write that failed.
LEMMA FaultCare ==
  ASSUME CareInv, NEW r \in InFlight, NEW left, Fault(r, left), CallList(left, r),
         \A k \in DOMAIN left : left[k].to = "dispute" =>
           \E j \in DOMAIN req[r] : req[r][j].to = "dispute" /\ req[r][j].i = left[k].i,
         left # <<>> => left[1].to # "ticket"
  PROVE  CareInv'
<1>1. /\ faults' = faults + 1 /\ req' = [req EXCEPT ![r] = left]
      /\ ticket' = ticket /\ charge' = charge /\ tow' = tow /\ dispute' = dispute
  BY DEF Fault
<1>2. faults \in Nat /\ Shaped(Store) /\ Store' = Store
  BY <1>1 DEF CareInv, ShopState, Store
<1>3. ShopState'
  BY <1>1, <1>2, StateAfter
<1>4. CallsInv'
  <2>1. DOMAIN dispute \subseteq DOMAIN req /\ \A d \in DOMAIN dispute : "status" \in DOMAIN dispute[d]
    BY DEF CareInv, CallsInv
  <2> QED
    BY <1>1, <2>1, CallShrinks
<1>5. HoldInv'
  BY <1>1, <1>2 DEF HoldInv
<1> QED
  BY <1>3, <1>4, <1>5 DEF CareInv

LEMMA DieCare ==
  ASSUME CareInv, NEW r \in InFlight, Die(r)
  PROVE  CareInv'
<1>1. PICK left : left = <<>>
  OBVIOUS
<1>2. CallList(left, r) /\ DOMAIN left = {} /\ Fault(r, left)
  BY <1>1, NothingLeft DEF Die
<1> QED
  BY <1>1, <1>2, FaultCare

LEMMA SkipCare ==
  ASSUME CareInv, NEW r \in InFlight, Skip(r)
  PROVE  CareInv'
<1>1. PICK l, t : l = req[r] /\ t = Tail(l)
  OBVIOUS
<1>2. ListOf(r, l, t)
  BY <1>1, CallOf
<1>3. l[1].soft /\ Fault(r, t)
  BY <1>1, <1>2 DEF Skip, ListOf
<1>4. CallList(t, r) /\ \A k \in DOMAIN t : k + 1 \in DOMAIN l /\ t[k] = l[k + 1]
  BY <1>2 DEF ListOf
<1>5. \A k \in DOMAIN t : t[k].to = "dispute" =>
        \E j \in DOMAIN req[r] : req[r][j].to = "dispute" /\ req[r][j].i = t[k].i
  BY <1>1, <1>4
<1>6. ASSUME t # <<>>, t[1].to = "ticket" PROVE FALSE
  <2>1. WriteAt(l, 2, r) /\ WriteAt(l, 1, r) /\ l[2].to = "ticket"
    BY <1>2, <1>6 DEF ListOf
  <2>2. l[2 - 1].to = "dispute"
    BY <2>1 DEF WriteAt
  <2> QED
    BY <1>3, <2>1, <2>2 DEF WriteAt
<1> QED
  BY <1>3, <1>4, <1>5, <1>6, FaultCare

-----------------------------------------------------------------------------
(* The invariant, and what it says.                                        *)

LEMMA CareInitially ==
  CareInit => CareInv
<1> SUFFICES ASSUME CareInit PROVE CareInv
  OBVIOUS
<1>1. PICK rw \in BOOLEAN, deposit \in {0, Deposit} :
        /\ ticket = [status |-> IF deposit = 0 THEN "PENDING" ELSE "MATCHED", quote |-> None,
                     quoteVersion |-> 0, invoiceVersion |-> 0, invoice |-> None, approval |-> None, pre |-> None, clock |-> None,
                     offer |-> None, links |-> {}, credit |-> deposit, rework |-> rw,
                     hold |-> FALSE, dispute |-> None, openDispute |-> None,
                     cancelledBy |-> None, released |-> FALSE]
        /\ charge = IF deposit = 0 THEN <<>>
                    ELSE <<[Charge("SEPAY", deposit) EXCEPT !.status = "HELD", !.deposit = TRUE]>>
  BY DEF CareInit, Init
<1>2. tow = <<>> /\ faults = 0 /\ req = <<>> /\ dispute = <<>>
  BY DEF CareInit, Init
<1>3. /\ TicketFields \subseteq DOMAIN ticket /\ ticket = [x \in DOMAIN ticket |-> ticket[x]] /\ ticket.hold = FALSE
  BY <1>1 DEF TicketFields
<1>4. ChargeList(charge)
  <2>1. CASE deposit = 0
    <3>1. charge = <<>>
      BY <1>1, <2>1
    <3> QED
      BY <3>1, NothingLeft, EmptySeq DEF ChargeList
  <2>2. CASE deposit # 0
    <3>1. PICK a : a = [Charge("SEPAY", deposit) EXCEPT !.status = "HELD", !.deposit = TRUE]
      OBVIOUS
    <3>2. "status" \in DOMAIN a
      BY <3>1 DEF Charge
    <3>3. charge = <<a>>
      BY <1>1, <2>2, <3>1
    <3> QED
      BY <3>2, <3>3, ShortLists DEF ChargeList
  <2> QED
    BY <2>1, <2>2
<1>5. tow \in Seq(TowDoc)
  BY <1>2, EmptySeq
<1>6. Shaped(Store)
  BY <1>3, <1>4, <1>5, StoreIs DEF Shaped
<1>7. TowInv
  <2>1. Going(tow) = {}
    BY <1>2, NothingLeft DEF Going
  <2> QED
    BY <1>2, <2>1, FS_EmptySet DEF TowInv, MayAsk
<1>8. CallsInv
  <2>1. DOMAIN <<>> = {} /\ <<>> \in Seq({<<>>[k] : k \in DOMAIN <<>>})
    BY NothingLeft, EmptySeq
  <2> QED
    BY <1>2, <2>1 DEF CallsInv
<1>9. HoldInv
  BY <1>3 DEF HoldInv
<1> QED
  BY <1>2, <1>6, <1>7, <1>8, <1>9 DEF CareInv, ShopState

LEMMA CareSteps ==
  CareInv /\ [CareNext]_all => CareInv'
<1> SUFFICES ASSUME CareInv, [CareNext]_all PROVE CareInv'
  OBVIOUS
<1>1. CASE ShopStep
  BY <1>1, ShopCare
<1>2. CASE Night
  BY <1>2, NightCare
<1>3. CASE Disputes
  BY <1>3, DisputesCare
<1>4. CASE Claims
  BY <1>4, ClaimsCare
<1>5. CASE GenerateInvoice
  BY <1>5, InvoiceCare
<1>6. CASE Steps
  <2>1. PICK r \in InFlight : Write(r) \/ Die(r) \/ Skip(r)
    BY <1>6 DEF Steps
  <2> QED
    BY <2>1, WriteCare, DieCare, SkipCare
<1>7. CASE UNCHANGED all
  BY <1>7 DEF all, vars, care, CareInv, ShopState, CallsInv, HoldInv, TowInv, Store
<1> QED
  BY <1>1, <1>2, <1>3, <1>4, <1>5, <1>6, <1>7 DEF CareNext

LEMMA CareStands ==
  CareSpec => []CareInv
<1> QED
  BY CareInitially, CareSteps, PTL DEF CareSpec

\* The vehicle is brought back by one tow: however the offer of a tow, its cancellation
\* and the end of the visit interleave with the calls about the repair, two tows are
\* under way only when a handler died between its writes (returnTow: respond, arrive,
\* deliver, cancel; transition: the offer again).
THEOREM CareOneReturnTow == CareSpec => []OneReturnTow
<1>1. CareInv => OneReturnTow
  <2> SUFFICES ASSUME CareInv PROVE OneReturnTow
    OBVIOUS
  <2>1. faults \in Nat /\ tow \in Seq(TowDoc) /\ TowInv
    BY StoreIs DEF CareInv, ShopState, Shaped
  <2>2. Cardinality(Going(tow)) \in Nat
    BY <2>1, TowsWritten
  <2>3. MayAsk(ticket) \in {0, 1}
    BY DEF MayAsk
  <2>4. Cardinality(Going(tow)) <= 1 + faults
    BY <2>1, <2>2, <2>3 DEF TowInv
  <2> QED
    BY <2>4 DEF OneReturnTow, Going
<1> QED
  BY <1>1, CareStands, PTL

\* No repair is left on hold with nobody to lift it, and no charge waits for its rider
\* meanwhile, in whatever order the calls that file disputes and decide them read and
\* write, unless one died or was refused (disputeService: userFile, resolve, dismiss,
\* applyDisputeOutcome).
THEOREM CareHoldStands == CareSpec => []HoldStands
<1>1. CareInv => HoldStands
  <2> SUFFICES ASSUME CareInv, ticket.hold, Quiet, faults = 0
               PROVE  /\ ticket.openDispute # None /\ dispute[ticket.openDispute].status = "OPEN"
                      /\ \A c \in DOMAIN charge : charge[c].status # "PENDING"
    BY DEF HoldStands
  <2>1. \A q \in DOMAIN req : req[q] = <<>>
    BY DEF Quiet, InFlight
  <2>2. \A q \in DOMAIN req : DOMAIN req[q] = {}
    BY <2>1, NothingLeft
  <2>3. /\ ticket.openDispute \in DOMAIN req /\ dispute[ticket.openDispute].status = "OPEN"
        /\ \A c \in DOMAIN charge : charge[c].status # "PENDING"
    BY <2>2 DEF CareInv, HoldInv
  <2>4. DOMAIN req \subseteq Nat
    <3>1. PICK S : req \in Seq(S)
      BY DEF CareInv, CallsInv
    <3> QED
      BY <3>1, LenProperties
  <2>5. None \notin Nat
    BY ShopAssumption
  <2> QED
    BY <2>3, <2>4, <2>5
<1> QED
  BY <1>1, CareStands, PTL

-----------------------------------------------------------------------------
(* What is given once: a remedy for a claim, a number on an invoice.       *)

\* The reworks of R that claim k has, those called off left aside.
LiveIn(R, k) == {w \in DOMAIN R : R[w].claim = k /\ R[w].status # "CANCELLED"}

\* Claim k, when no call is working on it: it has at most one remedy, none before it is
\* answered, and while it is rebooked its own rework, that is not done.
AtRest(c, k, R) ==
  /\ \A w, v \in LiveIn(R, k) : w = v
  /\ c.refunded => LiveIn(R, k) = {}
  /\ c.status \in {"OPEN", "DECLINED", "DISPUTED"} => LiveIn(R, k) = {} /\ ~c.refunded
  /\ c.status = "REBOOKED" => /\ ~c.refunded /\ c.rework \in DOMAIN R /\ R[c.rework].claim = k
                              /\ LiveIn(R, k) \subseteq {c.rework} /\ R[c.rework].status # "RESOLVED"

AllAtRest(C, R) == \A k \in DOMAIN C : AtRest(C[k], k, R)

ClaimFields == {"status", "rework", "refunded"}
ReworkFields == {"status", "claim", "marked"}
ClaimShape(C, R, D) ==
  /\ \A k \in DOMAIN C : DOMAIN C[k] = ClaimFields /\ C[k].refunded \in BOOLEAN
  /\ \A w \in DOMAIN R : /\ DOMAIN R[w] = ReworkFields /\ R[w].claim \in DOMAIN C
                         /\ R[w].status \in {"OPEN", "RESOLVED", "CANCELLED"}
  /\ DOMAIN C \subseteq D /\ DOMAIN R \subseteq D

\* Call r has booked the rework of claim k and not told the claim.
Rebooking(k, r, C, R) ==
  /\ C[k].status = "OPEN" /\ ~C[k].refunded /\ r \in DOMAIN R /\ LiveIn(R, k) = {r}
  /\ R[r].claim = k /\ R[r].status = "OPEN"
  /\ \A j \in DOMAIN C : j # k => AtRest(C[j], j, R)

\* Rework w is done and its claim may not know.
Completes(c, k, w, R) ==
  /\ c.status = "REBOOKED" /\ c.rework = w /\ ~c.refunded /\ R[w].claim = k /\ LiveIn(R, k) \subseteq {w}
Completing(w, C, R) ==
  R[w].status = "RESOLVED" /\ \A k \in DOMAIN C : AtRest(C[k], k, R) \/ Completes(C[k], k, w, R)

Booked(r, k) == Doc("rework", r, [status |-> "OPEN", claim |-> k, marked |-> FALSE])
Marked(r) == Doc("rework", r, [marked |-> TRUE])
Rebooked(r, k) == Doc("claim", k, [status |-> "REBOOKED", rework |-> r])
Done(w) == [to |-> "complete", i |-> w, soft |-> TRUE]
PaidBack(k) == Doc("claim", k, [status |-> "RESOLVED", refunded |-> TRUE])

\* The lists of a call that files a claim, answers it or settles it without money, books
\* its rework, tells the claim of it, calls a rework off, closes it, lets its claim know,
\* gives the money back, or has nothing to do with claims.
Filing(l, r, C) == DOMAIN C = {} /\ l = <<Doc("claim", r, NewClaim)>>
Answering(l, C) ==
  \E k \in DOMAIN C : \E s \in {"DECLINED", "DISPUTED"} :
    C[k].status \in {"OPEN", "DECLINED"} /\ l = <<Doc("claim", k, [status |-> s])>>
Settling(l, C) == \E k \in DOMAIN C : l = <<Doc("claim", k, [status |-> "RESOLVED"])>>
Booking(l, r, C, R) ==
  r \notin DOMAIN R /\ \E k \in DOMAIN C : C[k].status = "OPEN" /\ l = <<Booked(r, k), Marked(r), Rebooked(r, k)>>
Telling(l, r, C, R) ==
  \E k \in DOMAIN C : Rebooking(k, r, C, R) /\ (l = <<Marked(r), Rebooked(r, k)>> \/ l = <<Rebooked(r, k)>>)
CallingOff(l, R) == \E w \in DOMAIN R : l = <<Doc("rework", w, [status |-> "CANCELLED"])>>
Closing(l, R) ==
  \E w \in DOMAIN R : R[w].status = "OPEN" /\ l = <<Doc("rework", w, [status |-> "RESOLVED"]), Done(w)>>
Finishing(l, C, R) == \E w \in DOMAIN R : Completing(w, C, R) /\ l = <<Done(w)>>
PayingBack(l, C, R) ==
  \E k \in DOMAIN C : /\ LiveIn(R, k) = {}
                      /\ \/ l = <<PaidBack(k)>>
                         \/ l = <<Head(l), PaidBack(k)>> /\ Head(l).to = "ask"
Elsewhere(l) == \A j \in DOMAIN l : l[j].to \notin {"claim", "rework", "complete"}

\* What call r still writes to the claims and the reworks, and what it may rely on.
Busy(l, r, C, R) ==
  \/ /\ AllAtRest(C, R)
     /\ \/ Elsewhere(l) \/ Answering(l, C) \/ Settling(l, C) \/ Booking(l, r, C, R)
        \/ CallingOff(l, R) \/ Closing(l, R) \/ PayingBack(l, C, R)
  \/ Filing(l, r, C) \/ Telling(l, r, C, R) \/ Finishing(l, C, R)

Holds(l, r, C, R, D) == ClaimShape(C, R, D) /\ Busy(l, r, C, R)

\* A call puts a number on the invoice last, and there is none until then.
InvoiceLast(l, v) ==
  \A j \in DOMAIN l : l[j].to = "invoice" => v = None /\ \A i \in DOMAIN l : i <= j

Flying(q) == {r \in DOMAIN q : q[r] # <<>>}

Given(q, ov, fa, C, R, v) ==
  ~ov => /\ \A r, s \in Flying(q) : r = s
         /\ \A r \in Flying(q) : InvoiceLast(q[r], v)
         /\ fa = 0 => /\ ClaimShape(C, R, DOMAIN q)
                      /\ Flying(q) = {} => AllAtRest(C, R)
                      /\ \A r \in Flying(q) : Holds(q[r], r, C, R, DOMAIN q)

GivenInv == Given(req, overlap, faults, claim, rework, invoice)

-----------------------------------------------------------------------------
(* Claims and reworks.                                                     *)

Put(docs, n, f) ==
  [i \in DOMAIN docs \cup {n} |-> IF i = n THEN (IF n \in DOMAIN docs THEN With(f, docs[n]) ELSE f) ELSE docs[i]]

\* p is docs with the fields f written in the document n.
IsPut(p, docs, n, f) ==
  /\ DOMAIN p = DOMAIN docs \cup {n} /\ \A i \in DOMAIN docs : i # n => p[i] = docs[i]
  /\ n \notin DOMAIN docs => p[n] = f
  /\ n \in DOMAIN docs => /\ DOMAIN p[n] = DOMAIN docs[n]
                          /\ \A x \in DOMAIN docs[n] : p[n][x] = IF x \in DOMAIN f THEN f[x] ELSE docs[n][x]

LEMMA PutIs ==
  ASSUME NEW docs, NEW n, NEW f, NEW p, p = Put(docs, n, f)
  PROVE  IsPut(p, docs, n, f)
<1>1. DOMAIN p = DOMAIN docs \cup {n} /\ \A i \in DOMAIN docs : i # n => p[i] = docs[i]
  BY DEF Put
<1>2. n \notin DOMAIN docs => p[n] = f
  BY DEF Put
<1>3. ASSUME n \in DOMAIN docs
      PROVE  /\ DOMAIN p[n] = DOMAIN docs[n]
             /\ \A x \in DOMAIN docs[n] : p[n][x] = IF x \in DOMAIN f THEN f[x] ELSE docs[n][x]
  <2>1. PICK d : d = docs[n]
    OBVIOUS
  <2>2. p[n] = With(f, d)
    BY <1>3, <2>1 DEF Put
  <2>3. p[n] = [x \in DOMAIN d |-> IF x \in DOMAIN f THEN f[x] ELSE d[x]]
    BY <2>2 DEF With
  <2> QED
    BY <2>1, <2>3
<1> QED
  BY <1>1, <1>2, <1>3 DEF IsPut

LEMMA ReachesClaim ==
  ASSUME NEW w, Reaches(w), w.to = "claim"
  PROVE  claim' = Put(claim, w.i, w.fields) /\ rework' = rework /\ invoice' = invoice
<1>1. PICK new : new = Put(claim, w.i, w.fields)
  OBVIOUS
<1>2. CareApply(Documents, w) = [Documents EXCEPT !["claim"] = new]
  BY <1>1 DEF CareApply, Documents, Put
<1>3. claim' = new /\ rework' = rework /\ invoice' = invoice
  BY <1>2 DEF Reaches, Documents
<1> QED
  BY <1>1, <1>3

LEMMA ReachesRework ==
  ASSUME NEW w, Reaches(w), w.to = "rework"
  PROVE  rework' = Put(rework, w.i, w.fields) /\ claim' = claim /\ invoice' = invoice
<1>1. PICK new : new = Put(rework, w.i, w.fields)
  OBVIOUS
<1>2. CareApply(Documents, w) = [Documents EXCEPT !["rework"] = new]
  BY <1>1 DEF CareApply, Documents, Put
<1>3. rework' = new /\ claim' = claim /\ invoice' = invoice
  BY <1>2 DEF Reaches, Documents
<1> QED
  BY <1>1, <1>3

LEMMA ReachesNeither ==
  ASSUME NEW w, Reaches(w), w.to \in {"dispute", "number", "invoice", "ticket", "ask", "void"}
  PROVE  claim' = claim /\ rework' = rework /\ (w.to # "invoice" => invoice' = invoice)
<1>1. CASE w.to \in {"ticket", "ask", "void"}
  <2>1. CareApply(Documents, w) = Apply(Documents, w)
    BY <1>1 DEF CareApply
  <2>2. /\ Apply(Documents, w).claim = claim /\ Apply(Documents, w).rework = rework
        /\ Apply(Documents, w).invoice = invoice
    <3>1. CASE w.to = "ticket"
      BY <3>1 DEF Apply, Documents
    <3>2. CASE w.to = "ask"
      BY <3>2 DEF Apply, Documents
    <3>3. CASE w.to = "void"
      BY <3>3 DEF Apply, Documents
    <3> QED
      BY <1>1, <3>1, <3>2, <3>3
  <2> QED
    BY <2>1, <2>2 DEF Reaches
<1>2. CASE w.to = "dispute"
  <2>1. PICK new : CareApply(Documents, w) = [Documents EXCEPT !["dispute"] = new]
    BY <1>2 DEF CareApply, Documents
  <2> QED
    BY <2>1 DEF Reaches, Documents
<1>3. CASE w.to = "number"
  BY <1>3 DEF Reaches, CareApply, Documents
<1>4. CASE w.to = "invoice"
  BY <1>4 DEF Reaches, CareApply, Documents
<1> QED
  BY <1>1, <1>2, <1>3, <1>4

\* A claim in a new state, a rework in a new state, the rest as they were.
ClaimUpdate(f) == DOMAIN f \subseteq ClaimFields /\ ("refunded" \in DOMAIN f => f["refunded"] \in BOOLEAN)
NewState(C2, C, k, f) ==
  /\ DOMAIN C2 = DOMAIN C /\ \A j \in DOMAIN C : j # k => C2[j] = C[j]
  /\ C2[k].status = IF "status" \in DOMAIN f THEN f["status"] ELSE C[k].status
ClaimMoved(C2, C, k, f) ==
  /\ NewState(C2, C, k, f)
  /\ C2[k].rework = IF "rework" \in DOMAIN f THEN f["rework"] ELSE C[k].rework
  /\ C2[k].refunded = IF "refunded" \in DOMAIN f THEN f["refunded"] ELSE C[k].refunded
ReworkUpdate(f) ==
  /\ DOMAIN f \subseteq {"status", "marked"}
  /\ "status" \in DOMAIN f => f["status"] \in {"OPEN", "RESOLVED", "CANCELLED"}
ReworkMoved(R2, R, w, f) == NewState(R2, R, w, f) /\ R2[w].claim = R[w].claim

LEMMA ClaimPut ==
  ASSUME NEW C, NEW R, NEW D, ClaimShape(C, R, D), NEW k \in DOMAIN C, NEW f, ClaimUpdate(f), NEW C2, C2 = Put(C, k, f)
  PROVE  ClaimShape(C2, R, D) /\ ClaimMoved(C2, C, k, f)
<1>0. IsPut(C2, C, k, f)
  BY PutIs
<1>1. /\ DOMAIN C2 = DOMAIN C \cup {k} /\ \A j \in DOMAIN C : j # k => C2[j] = C[j]
      /\ DOMAIN C2[k] = DOMAIN C[k]
      /\ \A x \in DOMAIN C[k] : C2[k][x] = IF x \in DOMAIN f THEN f[x] ELSE C[k][x]
  BY <1>0 DEF IsPut
<1>2. DOMAIN C[k] = ClaimFields /\ C[k].refunded \in BOOLEAN /\ DOMAIN C2 = DOMAIN C
  BY <1>1 DEF ClaimShape
<1>3. /\ C2[k].status = IF "status" \in DOMAIN f THEN f["status"] ELSE C[k].status
      /\ C2[k].rework = IF "rework" \in DOMAIN f THEN f["rework"] ELSE C[k].rework
      /\ C2[k].refunded = IF "refunded" \in DOMAIN f THEN f["refunded"] ELSE C[k].refunded
  BY <1>1, <1>2 DEF ClaimFields
<1>4. ClaimShape(C2, R, D)
  BY <1>1, <1>2, <1>3 DEF ClaimShape, ClaimUpdate
<1> QED
  BY <1>1, <1>2, <1>3, <1>4 DEF ClaimMoved, NewState

LEMMA ReworkPut ==
  ASSUME NEW C, NEW R, NEW D, ClaimShape(C, R, D), NEW w \in DOMAIN R, NEW f, ReworkUpdate(f), NEW R2, R2 = Put(R, w, f)
  PROVE  ClaimShape(C, R2, D) /\ ReworkMoved(R2, R, w, f)
<1>0. IsPut(R2, R, w, f)
  BY PutIs
<1>1. /\ DOMAIN R2 = DOMAIN R \cup {w} /\ \A v \in DOMAIN R : v # w => R2[v] = R[v]
      /\ DOMAIN R2[w] = DOMAIN R[w]
      /\ \A x \in DOMAIN R[w] : R2[w][x] = IF x \in DOMAIN f THEN f[x] ELSE R[w][x]
  BY <1>0 DEF IsPut
<1>2. DOMAIN R[w] = ReworkFields /\ DOMAIN R2 = DOMAIN R /\ R[w].claim \in DOMAIN C
      /\ R[w].status \in {"OPEN", "RESOLVED", "CANCELLED"}
  BY <1>1 DEF ClaimShape
<1>3. /\ R2[w].status = IF "status" \in DOMAIN f THEN f["status"] ELSE R[w].status
      /\ R2[w].claim = R[w].claim
  BY <1>1, <1>2 DEF ReworkFields, ReworkUpdate
<1>4. ClaimShape(C, R2, D)
  BY <1>1, <1>2, <1>3 DEF ClaimShape, ReworkUpdate
<1> QED
  BY <1>1, <1>2, <1>3, <1>4 DEF ReworkMoved, NewState

LEMMA ShortTails ==
  ASSUME NEW a, NEW b, NEW c
  PROVE  /\ Head(<<a>>) = a /\ Tail(<<a>>) = <<>> /\ <<a>> # <<>>
         /\ Head(<<a, b>>) = a /\ Tail(<<a, b>>) = <<b>> /\ <<a, b>> # <<>>
         /\ Head(<<a, b, c>>) = a /\ Tail(<<a, b, c>>) = <<b, c>> /\ <<a, b, c>> # <<>>
<1>1. Head(<<a>>) = a /\ Tail(<<a>>) = <<>> /\ <<a>> # <<>>
  OBVIOUS
<1>2. Head(<<a, b>>) = a /\ Tail(<<a, b>>) = <<b>> /\ <<a, b>> # <<>>
  OBVIOUS
<1>3. Head(<<a, b, c>>) = a /\ Tail(<<a, b, c>>) = <<b, c>> /\ <<a, b, c>> # <<>>
  OBVIOUS
<1> QED
  BY <1>1, <1>2, <1>3

\* A claim that moves on comes to rest where it was.
LEMMA ClaimRests ==
  ASSUME NEW C, NEW R, NEW D, ClaimShape(C, R, D), NEW k \in DOMAIN C, NEW C2, ClaimShape(C2, R, D),
         DOMAIN C2 = DOMAIN C, \A j \in DOMAIN C : j # k => C2[j] = C[j] /\ AtRest(C[j], j, R),
         AtRest(C2[k], k, R)
  PROVE  AllAtRest(C2, R)
<1>1. ASSUME NEW j \in DOMAIN C2 PROVE AtRest(C2[j], j, R)
  <2>1. CASE j = k
    BY <2>1
  <2>2. CASE j # k
    BY <2>2
  <2> QED
    BY <2>1, <2>2
<1> QED
  BY <1>1 DEF AllAtRest

LEMMA FirstClaim ==
  ASSUME NEW C, NEW R, NEW D, ClaimShape(C, R, D), NEW r \in D, DOMAIN C = {}, NEW C2, C2 = Put(C, r, NewClaim)
  PROVE  ClaimShape(C2, R, D) /\ AllAtRest(C2, R)
<1>1. DOMAIN C2 = {r} /\ C2[r] = NewClaim
  BY DEF Put
<1>2. /\ DOMAIN NewClaim = ClaimFields /\ NewClaim.status = "OPEN" /\ NewClaim.refunded = FALSE
  BY DEF NewClaim, ClaimFields
<1>3. DOMAIN R = {}
  BY DEF ClaimShape
<1>4. LiveIn(R, r) = {}
  BY <1>3 DEF LiveIn
<1>5. AtRest(C2[r], r, R)
  BY <1>1, <1>2, <1>4 DEF AtRest
<1> QED
  BY <1>1, <1>2, <1>3, <1>5 DEF ClaimShape, AllAtRest

\* The shop's no, the rider's objection, the admin's word.
LEMMA ClaimAnswered ==
  ASSUME NEW C, NEW R, NEW D, ClaimShape(C, R, D), AllAtRest(C, R), NEW k \in DOMAIN C, NEW s, NEW C2,
         C2 = Put(C, k, [status |-> s]),
         s = "RESOLVED" \/ (s \in {"DECLINED", "DISPUTED"} /\ C[k].status \in {"OPEN", "DECLINED"})
  PROVE  ClaimShape(C2, R, D) /\ AllAtRest(C2, R)
<1>0. PICK f : f = [status |-> s]
  OBVIOUS
<1>a. C2 = Put(C, k, f)
  BY <1>0
<1>1. DOMAIN f = {"status"} /\ f["status"] = s
  BY <1>0
<1>2. ClaimUpdate(f)
  BY <1>1 DEF ClaimFields, ClaimUpdate
<1>b. ClaimShape(C2, R, D) /\ ClaimMoved(C2, C, k, f)
  BY <1>2, <1>a, ClaimPut
<1>3. /\ ClaimShape(C2, R, D) /\ DOMAIN C2 = DOMAIN C /\ \A j \in DOMAIN C : j # k => C2[j] = C[j]
      /\ C2[k].status = IF "status" \in DOMAIN f THEN f["status"] ELSE C[k].status
      /\ C2[k].rework = IF "rework" \in DOMAIN f THEN f["rework"] ELSE C[k].rework
      /\ C2[k].refunded = IF "refunded" \in DOMAIN f THEN f["refunded"] ELSE C[k].refunded
  BY <1>b DEF ClaimMoved, NewState
<1>4. C2[k].status = s /\ C2[k].refunded = C[k].refunded
  BY <1>1, <1>3
<1>5. \A j \in DOMAIN C : AtRest(C[j], j, R)
  BY DEF AllAtRest
<1>6. AtRest(C2[k], k, R)
  BY <1>4, <1>5 DEF AtRest
<1> QED
  BY <1>3, <1>5, <1>6, ClaimRests

LEMMA ClaimRefunded ==
  ASSUME NEW C, NEW R, NEW D, ClaimShape(C, R, D), AllAtRest(C, R), NEW k \in DOMAIN C, NEW C2,
         C2 = Put(C, k, [status |-> "RESOLVED", refunded |-> TRUE]), LiveIn(R, k) = {}
  PROVE  ClaimShape(C2, R, D) /\ AllAtRest(C2, R)
<1>0. PICK f : f = [status |-> "RESOLVED", refunded |-> TRUE]
  OBVIOUS
<1>a. C2 = Put(C, k, f)
  BY <1>0
<1>1. DOMAIN f = {"status", "refunded"} /\ f["status"] = "RESOLVED" /\ f["refunded"] = TRUE
  BY <1>0
<1>2. ClaimUpdate(f)
  BY <1>1 DEF ClaimFields, ClaimUpdate
<1>b. ClaimShape(C2, R, D) /\ ClaimMoved(C2, C, k, f)
  BY <1>2, <1>a, ClaimPut
<1>3. /\ ClaimShape(C2, R, D) /\ DOMAIN C2 = DOMAIN C /\ \A j \in DOMAIN C : j # k => C2[j] = C[j]
      /\ C2[k].status = IF "status" \in DOMAIN f THEN f["status"] ELSE C[k].status
      /\ C2[k].rework = IF "rework" \in DOMAIN f THEN f["rework"] ELSE C[k].rework
      /\ C2[k].refunded = IF "refunded" \in DOMAIN f THEN f["refunded"] ELSE C[k].refunded
  BY <1>b DEF ClaimMoved, NewState
<1>4. C2[k].status = "RESOLVED"
  BY <1>1, <1>3
<1>5. \A j \in DOMAIN C : AtRest(C[j], j, R)
  BY DEF AllAtRest
<1>6. AtRest(C2[k], k, R)
  BY <1>4 DEF AtRest
<1> QED
  BY <1>3, <1>5, <1>6, ClaimRests

\* The claim learns of its rework.
LEMMA ClaimRebooked ==
  ASSUME NEW C, NEW R, NEW D, ClaimShape(C, R, D), NEW k \in DOMAIN C, NEW r, Rebooking(k, r, C, R), NEW C2,
         C2 = Put(C, k, [status |-> "REBOOKED", rework |-> r])
  PROVE  ClaimShape(C2, R, D) /\ AllAtRest(C2, R)
<1>0. PICK f : f = [status |-> "REBOOKED", rework |-> r]
  OBVIOUS
<1>a. C2 = Put(C, k, f)
  BY <1>0
<1>1. DOMAIN f = {"status", "rework"} /\ f["status"] = "REBOOKED" /\ f["rework"] = r
  BY <1>0
<1>2. ClaimUpdate(f)
  BY <1>1 DEF ClaimFields, ClaimUpdate
<1>b. ClaimShape(C2, R, D) /\ ClaimMoved(C2, C, k, f)
  BY <1>2, <1>a, ClaimPut
<1>3. /\ ClaimShape(C2, R, D) /\ DOMAIN C2 = DOMAIN C /\ \A j \in DOMAIN C : j # k => C2[j] = C[j]
      /\ C2[k].status = IF "status" \in DOMAIN f THEN f["status"] ELSE C[k].status
      /\ C2[k].rework = IF "rework" \in DOMAIN f THEN f["rework"] ELSE C[k].rework
      /\ C2[k].refunded = IF "refunded" \in DOMAIN f THEN f["refunded"] ELSE C[k].refunded
  BY <1>b DEF ClaimMoved, NewState
<1>4. C2[k].status = "REBOOKED" /\ C2[k].rework = r /\ C2[k].refunded = C[k].refunded
  BY <1>1, <1>3
<1>5. /\ ~C[k].refunded /\ r \in DOMAIN R /\ LiveIn(R, k) = {r} /\ R[r].claim = k /\ R[r].status = "OPEN"
      /\ \A j \in DOMAIN C : j # k => AtRest(C[j], j, R)
  BY DEF Rebooking
<1>6. AtRest(C2[k], k, R)
  BY <1>4, <1>5 DEF AtRest
<1> QED
  BY <1>3, <1>5, <1>6, ClaimRests

\* A claim at rest stays so when no rework of its own comes to life and the one it
\* waits for is not done.
LEMMA StillAtRest ==
  ASSUME NEW c, NEW k, NEW R, NEW R2, AtRest(c, k, R), LiveIn(R2, k) \subseteq LiveIn(R, k),
         c.status = "REBOOKED" => /\ c.rework \in DOMAIN R2 /\ R2[c.rework].claim = R[c.rework].claim
                                  /\ R2[c.rework].status # "RESOLVED"
  PROVE  AtRest(c, k, R2)
BY DEF AtRest

LEMMA ReworkBooked ==
  ASSUME NEW C, NEW R, NEW D, ClaimShape(C, R, D), AllAtRest(C, R), NEW k \in DOMAIN C, C[k].status = "OPEN",
         NEW r \in D, r \notin DOMAIN R, NEW R2, R2 = Put(R, r, [status |-> "OPEN", claim |-> k, marked |-> FALSE])
  PROVE  ClaimShape(C, R2, D) /\ Rebooking(k, r, C, R2)
<1>0. PICK f : f = [status |-> "OPEN", claim |-> k, marked |-> FALSE]
  OBVIOUS
<1>1. DOMAIN f = ReworkFields /\ f.status = "OPEN" /\ f.claim = k
  BY <1>0 DEF ReworkFields
<1>2. DOMAIN R2 = DOMAIN R \cup {r} /\ R2[r] = f /\ \A i \in DOMAIN R : R2[i] = R[i]
  BY <1>0 DEF Put
<1>3. ClaimShape(C, R2, D)
  BY <1>1, <1>2 DEF ClaimShape
<1>4. \A j \in DOMAIN C : AtRest(C[j], j, R)
  BY DEF AllAtRest
<1>5. LiveIn(R2, k) = {r}
  <2>1. LiveIn(R, k) = {}
    BY <1>4 DEF AtRest
  <2>2. R2[r].claim = k /\ R2[r].status = "OPEN"
    BY <1>1, <1>2
  <2>3. \A v \in DOMAIN R : R2[v].claim = R[v].claim /\ R2[v].status = R[v].status
    BY <1>2
  <2>4. \A v \in DOMAIN R : ~(R[v].claim = k /\ R[v].status # "CANCELLED")
    BY <2>1 DEF LiveIn
  <2>5. \A v \in DOMAIN R2 : R2[v].claim = k /\ R2[v].status # "CANCELLED" <=> v = r
    BY <1>2, <2>2, <2>3, <2>4
  <2> QED
    BY <1>2, <2>5 DEF LiveIn
<1>6. ASSUME NEW j \in DOMAIN C, j # k PROVE AtRest(C[j], j, R2)
  <2>1. LiveIn(R2, j) \subseteq LiveIn(R, j)
    BY <1>1, <1>2, <1>6 DEF LiveIn
  <2>2. C[j].status = "REBOOKED" => C[j].rework \in DOMAIN R /\ R[C[j].rework].status # "RESOLVED"
    BY <1>4 DEF AtRest
  <2> QED
    BY <1>2, <1>4, <2>1, <2>2, StillAtRest
<1>7. ~C[k].refunded
  BY <1>4 DEF AtRest
<1> QED
  BY <1>1, <1>2, <1>3, <1>5, <1>6, <1>7 DEF Rebooking

LEMMA ReworkMarked ==
  ASSUME NEW C, NEW R, NEW D, ClaimShape(C, R, D), NEW k \in DOMAIN C, NEW r, Rebooking(k, r, C, R), NEW R2,
         R2 = Put(R, r, [marked |-> TRUE])
  PROVE  ClaimShape(C, R2, D) /\ Rebooking(k, r, C, R2)
<1>0. PICK f : f = [marked |-> TRUE]
  OBVIOUS
<1>a. R2 = Put(R, r, f)
  BY <1>0
<1>1. DOMAIN f = {"marked"}
  BY <1>0
<1>2. ReworkUpdate(f)
  BY <1>1 DEF ReworkUpdate
<1>3. /\ C[k].status = "OPEN" /\ ~C[k].refunded /\ r \in DOMAIN R /\ LiveIn(R, k) = {r}
      /\ R[r].claim = k /\ R[r].status = "OPEN" /\ \A j \in DOMAIN C : j # k => AtRest(C[j], j, R)
  BY DEF Rebooking
<1>b. ClaimShape(C, R2, D) /\ ReworkMoved(R2, R, r, f)
  BY <1>2, <1>3, <1>a, ReworkPut
<1>4. /\ ClaimShape(C, R2, D) /\ DOMAIN R2 = DOMAIN R /\ \A v \in DOMAIN R : v # r => R2[v] = R[v]
      /\ R2[r].status = IF "status" \in DOMAIN f THEN f["status"] ELSE R[r].status
      /\ R2[r].claim = R[r].claim
  BY <1>b DEF ReworkMoved, NewState
<1>5. \A v \in DOMAIN R : R2[v].claim = R[v].claim /\ R2[v].status = R[v].status
  BY <1>1, <1>4
<1>6. \A j : LiveIn(R2, j) = LiveIn(R, j)
  BY <1>4, <1>5 DEF LiveIn
<1>7. ASSUME NEW j \in DOMAIN C, j # k PROVE AtRest(C[j], j, R2)
  <2>1. C[j].status = "REBOOKED" => C[j].rework \in DOMAIN R /\ R[C[j].rework].status # "RESOLVED"
    BY <1>3, <1>7 DEF AtRest
  <2>2. LiveIn(R2, j) \subseteq LiveIn(R, j)
    BY <1>6
  <2> QED
    BY <1>3, <1>4, <1>5, <1>7, <2>1, <2>2, StillAtRest
<1> QED
  BY <1>3, <1>4, <1>5, <1>6, <1>7 DEF Rebooking

LEMMA ReworkCancelled ==
  ASSUME NEW C, NEW R, NEW D, ClaimShape(C, R, D), AllAtRest(C, R), NEW w \in DOMAIN R, NEW R2,
         R2 = Put(R, w, [status |-> "CANCELLED"])
  PROVE  ClaimShape(C, R2, D) /\ AllAtRest(C, R2)
<1>0. PICK f : f = [status |-> "CANCELLED"]
  OBVIOUS
<1>a. R2 = Put(R, w, f)
  BY <1>0
<1>1. DOMAIN f = {"status"} /\ f["status"] = "CANCELLED"
  BY <1>0
<1>2. ReworkUpdate(f)
  BY <1>1 DEF ReworkUpdate
<1>b. ClaimShape(C, R2, D) /\ ReworkMoved(R2, R, w, f)
  BY <1>2, <1>a, ReworkPut
<1>4. /\ ClaimShape(C, R2, D) /\ DOMAIN R2 = DOMAIN R /\ \A v \in DOMAIN R : v # w => R2[v] = R[v]
      /\ R2[w].status = IF "status" \in DOMAIN f THEN f["status"] ELSE R[w].status
      /\ R2[w].claim = R[w].claim
  BY <1>b DEF ReworkMoved, NewState
<1>5. /\ \A v \in DOMAIN R : R2[v].claim = R[v].claim /\ (R2[v].status = R[v].status \/ R2[v].status = "CANCELLED")
  BY <1>1, <1>4
<1>6. \A j : LiveIn(R2, j) \subseteq LiveIn(R, j)
  BY <1>4, <1>5 DEF LiveIn
<1>7. ASSUME NEW j \in DOMAIN C PROVE AtRest(C[j], j, R2)
  <2>0. AtRest(C[j], j, R)
    BY DEF AllAtRest
  <2>1. C[j].status = "REBOOKED" => C[j].rework \in DOMAIN R /\ R[C[j].rework].status # "RESOLVED"
    BY <2>0 DEF AtRest
  <2>2. LiveIn(R2, j) \subseteq LiveIn(R, j)
    BY <1>6
  <2>3. C[j].status = "REBOOKED" => /\ C[j].rework \in DOMAIN R2 /\ R2[C[j].rework].claim = R[C[j].rework].claim
                                    /\ R2[C[j].rework].status # "RESOLVED"
    BY <1>4, <1>5, <2>1
  <2> QED
    BY <2>0, <2>2, <2>3, StillAtRest
<1> QED
  BY <1>4, <1>7 DEF AllAtRest

LEMMA ReworkDone ==
  ASSUME NEW C, NEW R, NEW D, ClaimShape(C, R, D), AllAtRest(C, R), NEW w \in DOMAIN R, R[w].status = "OPEN", NEW R2,
         R2 = Put(R, w, [status |-> "RESOLVED"])
  PROVE  ClaimShape(C, R2, D) /\ Completing(w, C, R2) /\ w \in DOMAIN R2
<1>0. PICK f : f = [status |-> "RESOLVED"]
  OBVIOUS
<1>a. R2 = Put(R, w, f)
  BY <1>0
<1>1. DOMAIN f = {"status"} /\ f["status"] = "RESOLVED"
  BY <1>0
<1>2. ReworkUpdate(f)
  BY <1>1 DEF ReworkUpdate
<1>b. ClaimShape(C, R2, D) /\ ReworkMoved(R2, R, w, f)
  BY <1>2, <1>a, ReworkPut
<1>4. /\ ClaimShape(C, R2, D) /\ DOMAIN R2 = DOMAIN R /\ \A v \in DOMAIN R : v # w => R2[v] = R[v]
      /\ R2[w].status = IF "status" \in DOMAIN f THEN f["status"] ELSE R[w].status
      /\ R2[w].claim = R[w].claim
  BY <1>b DEF ReworkMoved, NewState
<1>5. /\ R2[w].status = "RESOLVED" /\ \A v \in DOMAIN R : R2[v].claim = R[v].claim
      /\ \A v \in DOMAIN R : R2[v].status = "CANCELLED" <=> R[v].status = "CANCELLED"
  BY <1>1, <1>4
<1>6. \A j : LiveIn(R2, j) = LiveIn(R, j)
  BY <1>4, <1>5 DEF LiveIn
<1>7. ASSUME NEW j \in DOMAIN C PROVE AtRest(C[j], j, R2) \/ Completes(C[j], j, w, R2)
  <2>0. AtRest(C[j], j, R)
    BY DEF AllAtRest
  <2>1. C[j].status = "REBOOKED" => /\ C[j].rework \in DOMAIN R /\ R[C[j].rework].status # "RESOLVED"
                                    /\ R[C[j].rework].claim = j /\ ~C[j].refunded /\ LiveIn(R, j) \subseteq {C[j].rework}
    BY <2>0 DEF AtRest
  <2>2. CASE C[j].status = "REBOOKED" /\ C[j].rework = w
    BY <1>5, <1>6, <2>1, <2>2 DEF Completes
  <2>3. CASE ~(C[j].status = "REBOOKED" /\ C[j].rework = w)
    <3>1. C[j].status = "REBOOKED" => /\ C[j].rework \in DOMAIN R2 /\ R2[C[j].rework].claim = R[C[j].rework].claim
                                      /\ R2[C[j].rework].status # "RESOLVED"
      BY <1>4, <2>1, <2>3
    <3> QED
      BY <1>6, <2>0, <3>1, StillAtRest
  <2> QED
    BY <2>2, <2>3
<1> QED
  BY <1>4, <1>5, <1>7 DEF Completing

\* A claim told that its rework is done.
LEMMA ClaimCompleted ==
  ASSUME NEW C, NEW R, NEW D, ClaimShape(C, R, D), NEW w, Completing(w, C, R), NEW k \in DOMAIN C,
         C[k].rework = w, C[k].status = "REBOOKED", NEW C2, C2 = Put(C, k, [status |-> "COMPLETED"]),
         \A j \in DOMAIN C : C[j].rework = w /\ C[j].status = "REBOOKED" => j = k
  PROVE  ClaimShape(C2, R, D) /\ AllAtRest(C2, R)
<1>0. PICK f : f = [status |-> "COMPLETED"]
  OBVIOUS
<1>a. C2 = Put(C, k, f)
  BY <1>0
<1>1. DOMAIN f = {"status"} /\ f["status"] = "COMPLETED"
  BY <1>0
<1>2. ClaimUpdate(f)
  BY <1>1 DEF ClaimFields, ClaimUpdate
<1>b. ClaimShape(C2, R, D) /\ ClaimMoved(C2, C, k, f)
  BY <1>2, <1>a, ClaimPut
<1>3. /\ ClaimShape(C2, R, D) /\ DOMAIN C2 = DOMAIN C /\ \A j \in DOMAIN C : j # k => C2[j] = C[j]
      /\ C2[k].status = IF "status" \in DOMAIN f THEN f["status"] ELSE C[k].status
      /\ C2[k].rework = IF "rework" \in DOMAIN f THEN f["rework"] ELSE C[k].rework
      /\ C2[k].refunded = IF "refunded" \in DOMAIN f THEN f["refunded"] ELSE C[k].refunded
  BY <1>b DEF ClaimMoved, NewState
<1>4. C2[k].status = "COMPLETED" /\ C2[k].refunded = C[k].refunded
  BY <1>1, <1>3
<1>5. \A j \in DOMAIN C : AtRest(C[j], j, R) \/ Completes(C[j], j, w, R)
  BY DEF Completing
<1>6. AtRest(C2[k], k, R)
  BY <1>4, <1>5 DEF AtRest, Completes
<1>7. \A j \in DOMAIN C : j # k => AtRest(C[j], j, R)
  BY <1>5 DEF Completes
<1> QED
  BY <1>3, <1>6, <1>7, ClaimRests

-----------------------------------------------------------------------------
(* What a write makes of the claims and the reworks.                       *)

Changed(w, C, R, C2, R2) ==
  /\ w.to = "claim" => C2 = Put(C, w.i, w.fields) /\ R2 = R
  /\ w.to = "rework" => R2 = Put(R, w.i, w.fields) /\ C2 = C
  /\ w.to \notin {"claim", "rework"} => C2 = C /\ R2 = R

LEMMA DocChanged ==
  ASSUME NEW i, NEW f, NEW C, NEW R, NEW C2, NEW R2
  PROVE  /\ Changed(Doc("claim", i, f), C, R, C2, R2) => C2 = Put(C, i, f) /\ R2 = R
         /\ Changed(Doc("rework", i, f), C, R, C2, R2) => R2 = Put(R, i, f) /\ C2 = C
BY DEF Changed, Doc

LEMMA RestHolds ==
  ASSUME NEW C, NEW R, NEW D, NEW r, ClaimShape(C, R, D)
  PROVE  /\ AllAtRest(C, R) => Holds(<<>>, r, C, R, D)
         /\ Busy(<<>>, r, C, R) => AllAtRest(C, R)
<1>1. AllAtRest(C, R) => Holds(<<>>, r, C, R, D)
  <2>1. Elsewhere(<<>>)
    BY NothingLeft DEF Elsewhere
  <2> QED
    BY <2>1 DEF Holds, Busy
<1>2. \A a, b, c : <<>> # <<a>> /\ <<>> # <<a, b>> /\ <<>> # <<a, b, c>>
  OBVIOUS
<1>3. ~Filing(<<>>, r, C) /\ ~Telling(<<>>, r, C, R) /\ ~Finishing(<<>>, C, R)
  BY <1>2 DEF Filing, Telling, Finishing
<1> QED
  BY <1>1, <1>3 DEF Busy

LEMMA FilingHolds ==
  ASSUME NEW C, NEW R, NEW D, ClaimShape(C, R, D), NEW r \in D, NEW l, NEW t, t = Tail(l), NEW C2, NEW R2,
         Filing(l, r, C), Changed(Head(l), C, R, C2, R2)
  PROVE  Holds(t, r, C2, R2, D)
<1>1. PICK a : a = Doc("claim", r, NewClaim)
  OBVIOUS
<1>2. Head(l) = a /\ t = <<>>
  BY <1>1, ShortTails DEF Filing
<1>3. C2 = Put(C, r, NewClaim) /\ R2 = R
  BY <1>1, <1>2, DocChanged
<1>4. DOMAIN C = {}
  BY DEF Filing
<1>5. ClaimShape(C2, R2, D) /\ AllAtRest(C2, R2)
  BY <1>3, <1>4, FirstClaim
<1> QED
  BY <1>2, <1>5, RestHolds

LEMMA AnsweringHolds ==
  ASSUME NEW C, NEW R, NEW D, ClaimShape(C, R, D), AllAtRest(C, R), NEW r, NEW l, NEW t, t = Tail(l), NEW C2, NEW R2,
         Answering(l, C) \/ Settling(l, C), Changed(Head(l), C, R, C2, R2)
  PROVE  Holds(t, r, C2, R2, D)
<1>0. PICK k \in DOMAIN C, s \in {"DECLINED", "DISPUTED", "RESOLVED"} :
        /\ l = <<Doc("claim", k, [status |-> s])>>
        /\ s = "RESOLVED" \/ (s \in {"DECLINED", "DISPUTED"} /\ C[k].status \in {"OPEN", "DECLINED"})
  BY DEF Answering, Settling
<1>1. PICK a : a = Doc("claim", k, [status |-> s])
  OBVIOUS
<1>2. Head(l) = a /\ t = <<>>
  BY <1>0, <1>1, ShortTails
<1>3. C2 = Put(C, k, [status |-> s]) /\ R2 = R
  BY <1>1, <1>2, DocChanged
<1>5. ClaimShape(C2, R2, D) /\ AllAtRest(C2, R2)
  BY <1>0, <1>3, ClaimAnswered
<1> QED
  BY <1>2, <1>5, RestHolds

LEMMA BookingHolds ==
  ASSUME NEW C, NEW R, NEW D, ClaimShape(C, R, D), AllAtRest(C, R), NEW r \in D, NEW l, NEW t, t = Tail(l), NEW C2, NEW R2,
         Booking(l, r, C, R), Changed(Head(l), C, R, C2, R2)
  PROVE  Holds(t, r, C2, R2, D)
<1>0. PICK k \in DOMAIN C : r \notin DOMAIN R /\ C[k].status = "OPEN" /\ l = <<Booked(r, k), Marked(r), Rebooked(r, k)>>
  BY DEF Booking
<1>1. PICK a, b, c : a = Booked(r, k) /\ b = Marked(r) /\ c = Rebooked(r, k)
  OBVIOUS
<1>2. Head(l) = a /\ t = <<b, c>>
  BY <1>0, <1>1, ShortTails
<1>3. R2 = Put(R, r, [status |-> "OPEN", claim |-> k, marked |-> FALSE]) /\ C2 = C
  BY <1>1, <1>2, DocChanged DEF Booked
<1>4. ClaimShape(C, R2, D) /\ Rebooking(k, r, C, R2)
  BY <1>0, <1>3, ReworkBooked
<1>5. Telling(t, r, C, R2)
  BY <1>1, <1>2, <1>4 DEF Telling
<1> QED
  BY <1>3, <1>4, <1>5 DEF Holds, Busy

LEMMA TellingHolds ==
  ASSUME NEW C, NEW R, NEW D, ClaimShape(C, R, D), NEW r \in D, NEW l, NEW t, t = Tail(l), NEW C2, NEW R2,
         Telling(l, r, C, R), Changed(Head(l), C, R, C2, R2)
  PROVE  Holds(t, r, C2, R2, D)
<1>0. PICK k \in DOMAIN C : Rebooking(k, r, C, R) /\ (l = <<Marked(r), Rebooked(r, k)>> \/ l = <<Rebooked(r, k)>>)
  BY DEF Telling
<1>1. PICK b, c : b = Marked(r) /\ c = Rebooked(r, k)
  OBVIOUS
<1>2. CASE l = <<b, c>>
  <2>1. Head(l) = b /\ t = <<c>>
    BY <1>2, ShortTails
  <2>2. R2 = Put(R, r, [marked |-> TRUE]) /\ C2 = C
    BY <1>1, <2>1, DocChanged DEF Marked
  <2>3. ClaimShape(C, R2, D) /\ Rebooking(k, r, C, R2)
    BY <1>0, <2>2, ReworkMarked
  <2>4. Telling(t, r, C, R2)
    BY <1>1, <2>1, <2>3 DEF Telling
  <2> QED
    BY <2>2, <2>3, <2>4 DEF Holds, Busy
<1>3. CASE l = <<c>>
  <2>1. Head(l) = c /\ t = <<>>
    BY <1>3, ShortTails
  <2>2. C2 = Put(C, k, [status |-> "REBOOKED", rework |-> r]) /\ R2 = R
    BY <1>1, <2>1, DocChanged DEF Rebooked
  <2>3. ClaimShape(C2, R2, D) /\ AllAtRest(C2, R2)
    BY <1>0, <2>2, ClaimRebooked
  <2> QED
    BY <2>1, <2>3, RestHolds
<1> QED
  BY <1>0, <1>1, <1>2, <1>3

LEMMA CallingOffHolds ==
  ASSUME NEW C, NEW R, NEW D, ClaimShape(C, R, D), AllAtRest(C, R), NEW r, NEW l, NEW t, t = Tail(l), NEW C2, NEW R2,
         CallingOff(l, R), Changed(Head(l), C, R, C2, R2)
  PROVE  Holds(t, r, C2, R2, D)
<1>0. PICK w \in DOMAIN R : l = <<Doc("rework", w, [status |-> "CANCELLED"])>>
  BY DEF CallingOff
<1>1. PICK a : a = Doc("rework", w, [status |-> "CANCELLED"])
  OBVIOUS
<1>2. Head(l) = a /\ t = <<>>
  BY <1>0, <1>1, ShortTails
<1>3. R2 = Put(R, w, [status |-> "CANCELLED"]) /\ C2 = C
  BY <1>1, <1>2, DocChanged
<1>4. ClaimShape(C, R2, D) /\ AllAtRest(C, R2)
  BY <1>3, ReworkCancelled
<1> QED
  BY <1>2, <1>3, <1>4, RestHolds

LEMMA ClosingHolds ==
  ASSUME NEW C, NEW R, NEW D, ClaimShape(C, R, D), AllAtRest(C, R), NEW r, NEW l, NEW t, t = Tail(l), NEW C2, NEW R2,
         Closing(l, R), Changed(Head(l), C, R, C2, R2)
  PROVE  Holds(t, r, C2, R2, D)
<1>0. PICK w \in DOMAIN R : R[w].status = "OPEN" /\ l = <<Doc("rework", w, [status |-> "RESOLVED"]), Done(w)>>
  BY DEF Closing
<1>1. PICK a, b : a = Doc("rework", w, [status |-> "RESOLVED"]) /\ b = Done(w)
  OBVIOUS
<1>2. Head(l) = a /\ t = <<b>>
  BY <1>0, <1>1, ShortTails
<1>3. R2 = Put(R, w, [status |-> "RESOLVED"]) /\ C2 = C
  BY <1>1, <1>2, DocChanged
<1>4. ClaimShape(C, R2, D) /\ Completing(w, C, R2) /\ w \in DOMAIN R2
  BY <1>0, <1>3, ReworkDone
<1>5. Finishing(t, C, R2)
  BY <1>1, <1>2, <1>4 DEF Finishing
<1> QED
  BY <1>3, <1>4, <1>5 DEF Holds, Busy

LEMMA PayingBackHolds ==
  ASSUME NEW C, NEW R, NEW D, ClaimShape(C, R, D), AllAtRest(C, R), NEW r, NEW l, NEW t, t = Tail(l), NEW C2, NEW R2,
         PayingBack(l, C, R), Changed(Head(l), C, R, C2, R2)
  PROVE  Holds(t, r, C2, R2, D)
<1>0. PICK k \in DOMAIN C : /\ LiveIn(R, k) = {}
                            /\ \/ l = <<PaidBack(k)>>
                               \/ l = <<Head(l), PaidBack(k)>> /\ Head(l).to = "ask"
  BY DEF PayingBack
<1>1. PICK a, b : a = Head(l) /\ b = PaidBack(k)
  OBVIOUS
<1>2. CASE l = <<a, b>> /\ a.to = "ask"
  <2>1. t = <<b>>
    BY <1>2, ShortTails
  <2>2. C2 = C /\ R2 = R
    BY <1>1, <1>2 DEF Changed
  <2>3. PayingBack(t, C, R)
    BY <1>0, <1>1, <2>1 DEF PayingBack
  <2> QED
    BY <2>2, <2>3 DEF Holds, Busy
<1>3. CASE l = <<b>>
  <2>1. Head(l) = b /\ t = <<>>
    BY <1>3, ShortTails
  <2>2. C2 = Put(C, k, [status |-> "RESOLVED", refunded |-> TRUE]) /\ R2 = R
    BY <1>1, <2>1, DocChanged DEF PaidBack
  <2>3. ClaimShape(C2, R2, D) /\ AllAtRest(C2, R2)
    BY <1>0, <2>2, ClaimRefunded
  <2> QED
    BY <2>1, <2>3, RestHolds
<1> QED
  BY <1>0, <1>1, <1>2, <1>3

\* Whatever a call writes, it may go on.
LEMMA BusyWrites ==
  ASSUME NEW C, NEW R, NEW D, NEW r \in D, NEW l, Holds(l, r, C, R, D), NEW t, t = Tail(l), NEW C2, NEW R2,
         Head(l).to # "complete", Changed(Head(l), C, R, C2, R2), Head(l) = l[1], 1 \in DOMAIN l,
         \A k \in DOMAIN t : k + 1 \in DOMAIN l /\ t[k] = l[k + 1]
  PROVE  Holds(t, r, C2, R2, D)
<1>1. ClaimShape(C, R, D) /\ Busy(l, r, C, R)
  BY DEF Holds
<1>2. CASE AllAtRest(C, R) /\ Elsewhere(l)
  <2>1. C2 = C /\ R2 = R
    BY <1>2 DEF Elsewhere, Changed
  <2>2. Elsewhere(t)
    BY <1>2 DEF Elsewhere
  <2> QED
    BY <1>1, <1>2, <2>1, <2>2 DEF Holds, Busy
<1>3. CASE AllAtRest(C, R) /\ (Answering(l, C) \/ Settling(l, C))
  BY <1>1, <1>3, AnsweringHolds
<1>4. CASE AllAtRest(C, R) /\ Booking(l, r, C, R)
  BY <1>1, <1>4, BookingHolds
<1>5. CASE AllAtRest(C, R) /\ CallingOff(l, R)
  BY <1>1, <1>5, CallingOffHolds
<1>6. CASE AllAtRest(C, R) /\ Closing(l, R)
  BY <1>1, <1>6, ClosingHolds
<1>7. CASE AllAtRest(C, R) /\ PayingBack(l, C, R)
  BY <1>1, <1>7, PayingBackHolds
<1>8. CASE Filing(l, r, C)
  BY <1>1, <1>8, FilingHolds
<1>9. CASE Telling(l, r, C, R)
  BY <1>1, <1>9, TellingHolds
<1>10. CASE Finishing(l, C, R)
  <2>1. PICK w : l = <<Done(w)>>
    BY <1>10 DEF Finishing
  <2>2. Head(l).to = "complete"
    BY <2>1, ShortTails DEF Done
  <2> QED
    BY <2>2
<1> QED
  BY <1>1, <1>2, <1>3, <1>4, <1>5, <1>6, <1>7, <1>8, <1>9, <1>10 DEF Busy

\* A rework that is over, and its claim told or already settled.
LEMMA FinishingHolds ==
  ASSUME NEW C, NEW R, NEW D, NEW r, NEW l, Holds(l, r, C, R, D), Head(l).to = "complete", l # <<>>,
         DOMAIN C \subseteq Nat, DOMAIN l = {1}, Head(l) = l[1], NEW linked,
         linked = {k \in DOMAIN C : C[k].rework = Head(l).i /\ C[k].status = "REBOOKED"}
  PROVE  /\ ClaimShape(C, R, D)
         /\ linked = {} => AllAtRest(C, R)
         /\ linked # {} => \A C2 : C2 = Put(C, Newest(linked), [status |-> "COMPLETED"]) =>
                             ClaimShape(C2, R, D) /\ AllAtRest(C2, R)
<1>1. ClaimShape(C, R, D) /\ Busy(l, r, C, R)
  BY DEF Holds
<1>2. Finishing(l, C, R)
  <2>1. ~Elsewhere(l)
    BY DEF Elsewhere
  <2>2. ~Answering(l, C) /\ ~Settling(l, C) /\ ~CallingOff(l, R) /\ ~Filing(l, r, C)
    BY ShortTails DEF Answering, Settling, CallingOff, Filing, Doc
  <2>3. ~Booking(l, r, C, R) /\ ~Closing(l, R) /\ ~Telling(l, r, C, R)
    <3>1. ASSUME NEW a, NEW b, NEW c, l = <<a>> \/ l = <<a, b>> \/ l = <<a, b, c>> PROVE Head(l) = a
      BY <3>1, ShortTails
    <3>2. \A k, w : Booked(w, k).to = "rework" /\ Marked(w).to = "rework" /\ Rebooked(w, k).to = "claim"
      BY DEF Booked, Marked, Rebooked, Doc
    <3>3. \A w, f : Doc("rework", w, f).to = "rework"
      BY DEF Doc
    <3> QED
      BY <3>1, <3>2, <3>3 DEF Booking, Closing, Telling
  <2>4. ~PayingBack(l, C, R)
    <3>1. \A k : PaidBack(k).to = "claim"
      BY DEF PaidBack, Doc
    <3> QED
      BY <3>1, ShortTails DEF PayingBack
  <2> QED
    BY <1>1, <2>1, <2>2, <2>3, <2>4 DEF Busy
<1>3. PICK w \in DOMAIN R : Completing(w, C, R) /\ l = <<Done(w)>>
  BY <1>2 DEF Finishing
<1>4. Head(l).i = w
  BY <1>3, ShortTails DEF Done
<1>5. R[w].status = "RESOLVED" /\ \A k \in DOMAIN C : AtRest(C[k], k, R) \/ Completes(C[k], k, w, R)
  BY <1>3 DEF Completing
<1>6. ASSUME NEW k \in linked PROVE k = R[w].claim
  <2>1. C[k].rework = w /\ C[k].status = "REBOOKED" /\ k \in DOMAIN C
    BY <1>4
  <2> QED
    BY <1>5, <2>1 DEF AtRest, Completes
<1>7. ASSUME linked = {} PROVE AllAtRest(C, R)
  <2>1. ASSUME NEW k \in DOMAIN C PROVE AtRest(C[k], k, R)
    <3>1. k \notin linked
      BY <1>7
    <3>2. ~Completes(C[k], k, w, R)
      BY <1>4, <3>1 DEF Completes
    <3> QED
      BY <1>5, <3>2
  <2> QED
    BY <2>1 DEF AllAtRest
<1>8. ASSUME linked # {}, NEW C2, C2 = Put(C, Newest(linked), [status |-> "COMPLETED"])
      PROVE  ClaimShape(C2, R, D) /\ AllAtRest(C2, R)
  <2>1. PICK k : k = R[w].claim
    OBVIOUS
  <2>2. linked = {k} /\ k \in DOMAIN C /\ C[k].rework = w /\ C[k].status = "REBOOKED"
    BY <1>4, <1>6, <1>8, <2>1
  <2>3. Newest(linked) = k
    <3>1. k \in Nat
      BY <2>2
    <3> QED
      BY <2>2, <3>1 DEF Newest
  <2>4. \A j \in DOMAIN C : C[j].rework = w /\ C[j].status = "REBOOKED" => j = k
    BY <1>4, <2>2
  <2>5. C2 = Put(C, k, [status |-> "COMPLETED"])
    BY <1>8, <2>3
  <2>6. ClaimShape(C, R, D) /\ Completing(w, C, R) /\ k \in DOMAIN C /\ C[k].rework = w /\ C[k].status = "REBOOKED"
    BY <1>1, <1>3, <2>2
  <2> QED
    BY <2>4, <2>5, <2>6, ClaimCompleted
<1> QED
  BY <1>1, <1>7, <1>8

-----------------------------------------------------------------------------
(* A call that looks, while no other is under way.                         *)

LEMMA ReqGrows ==
  ASSUME CareInv, NEW topic, NEW l, Look(topic, l)
  PROVE  /\ Call \notin DOMAIN req /\ DOMAIN req' = DOMAIN req \cup {Call} /\ req'[Call] = l
         /\ \A q \in DOMAIN req : req'[q] = req[q]
<1>1. req' = Append(req, l)
  BY DEF Look
<1>2. PICK S : req \in Seq(S)
  BY DEF CareInv, CallsInv
<1>3. Len(req) \in Nat /\ DOMAIN req = 1..Len(req) /\ Call = Len(req) + 1
  BY <1>2, LenProperties DEF Call
<1>4. PICK new, T : new = Append(req, l) /\ T = S \cup {l}
  OBVIOUS
<1>5. req \in Seq(T) /\ l \in T
  BY <1>2, <1>3, <1>4, ElementOfSeq
<1>6. new \in Seq(T) /\ Len(new) = Call /\ (\A i \in 1..Len(req) : new[i] = req[i]) /\ new[Call] = l
  BY <1>3, <1>4, <1>5, AppendProperties
<1>7. DOMAIN new = 1..Call
  BY <1>6, LenProperties
<1> QED
  BY <1>1, <1>3, <1>4, <1>6, <1>7

\* What a call that looks may count on, when none overlap.
Ready ==
  /\ ~overlap /\ Quiet /\ faults = 0
  /\ AllAtRest(claim, rework) /\ ClaimShape(claim, rework, DOMAIN req)
  /\ Call \notin DOMAIN claim /\ Call \notin DOMAIN rework

GivenStep == GivenInv' /\ InvoiceStandsStep

LEMMA LookGiven ==
  ASSUME CareInv, GivenInv, NEW topic, NEW l, Look(topic, l), InvoiceLast(l, invoice),
         Ready => Busy(l, Call, claim, rework)
  PROVE  GivenStep
<1>0. PICK n, q2 : n = Call /\ q2 = req'
  OBVIOUS
<1>1. /\ claim' = claim /\ rework' = rework /\ invoice' = invoice /\ faults' = faults
      /\ overlap' = (overlap \/ ~Quiet)
  BY DEF Look, vars
<1>2. n \notin DOMAIN req /\ DOMAIN q2 = DOMAIN req \cup {n} /\ q2[n] = l /\ \A q \in DOMAIN req : q2[q] = req[q]
  BY <1>0, ReqGrows
<1>3. ASSUME ~overlap'
      PROVE  /\ \A r, s \in Flying(q2) : r = s
             /\ \A r \in Flying(q2) : InvoiceLast(q2[r], invoice)
             /\ faults = 0 => /\ ClaimShape(claim, rework, DOMAIN q2)
                              /\ Flying(q2) = {} => AllAtRest(claim, rework)
                              /\ \A r \in Flying(q2) : Holds(q2[r], r, claim, rework, DOMAIN q2)
  <2>1. ~overlap /\ Quiet
    BY <1>1, <1>3
  <2>2. Flying(req) = {} /\ \A q \in DOMAIN req : req[q] = <<>>
    BY <2>1 DEF Quiet, InFlight, Flying
  <2>3. Flying(q2) \subseteq {n}
    BY <1>2, <2>2 DEF Flying
  <2>4. ASSUME faults = 0
        PROVE  AllAtRest(claim, rework) /\ ClaimShape(claim, rework, DOMAIN q2) /\ Busy(l, n, claim, rework)
    <3>1. AllAtRest(claim, rework) /\ ClaimShape(claim, rework, DOMAIN req)
      BY <2>1, <2>2, <2>4 DEF GivenInv, Given
    <3>2. DOMAIN claim \subseteq DOMAIN req /\ DOMAIN rework \subseteq DOMAIN req
      BY <3>1 DEF ClaimShape
    <3>3. Ready
      BY <1>0, <1>2, <2>1, <2>4, <3>1, <3>2 DEF Ready
    <3>4. ClaimShape(claim, rework, DOMAIN q2)
      BY <1>2, <3>1 DEF ClaimShape
    <3> QED
      BY <1>0, <3>1, <3>3, <3>4
  <2> QED
    BY <1>2, <2>3, <2>4 DEF Holds
<1>4. Given(q2, overlap', faults, claim, rework, invoice)
  BY <1>3 DEF Given
<1>5. GivenInv'
  BY <1>0, <1>1, <1>4 DEF GivenInv
<1> QED
  BY <1>1, <1>5 DEF GivenStep, InvoiceStandsStep

\* A call that has nothing to do with claims and invoices.
LEMMA LookElsewhere ==
  ASSUME CareInv, GivenInv, NEW topic, NEW l, Look(topic, l), Elsewhere(l), \A k \in DOMAIN l : l[k].to # "invoice"
  PROVE  GivenStep
<1>1. InvoiceLast(l, invoice)
  BY DEF InvoiceLast
<1>2. Ready => Busy(l, Call, claim, rework)
  BY DEF Ready, Busy
<1> QED
  BY <1>1, <1>2, LookGiven

\* A call about claims.
LEMMA LookClaims ==
  ASSUME CareInv, GivenInv, NEW topic, NEW a, NEW b, NEW c, NEW l, l = <<a>> \/ l = <<a, b>> \/ l = <<a, b, c>>,
         a.to # "invoice", l = <<a, b>> \/ l = <<a, b, c>> => b.to # "invoice", l = <<a, b, c>> => c.to # "invoice",
         Look(topic, l), Ready => Busy(l, Call, claim, rework)
  PROVE  GivenStep
<1>1. \A k \in DOMAIN l : l[k].to # "invoice"
  <2>1. CASE l = <<a>>
    BY <2>1, ShortLists
  <2>2. CASE l = <<a, b>>
    BY <2>2, ShortLists
  <2>3. CASE l = <<a, b, c>>
    BY <2>3, ShortLists
  <2> QED
    BY <2>1, <2>2, <2>3
<1>2. InvoiceLast(l, invoice)
  BY <1>1 DEF InvoiceLast
<1> QED
  BY <1>2, LookGiven

LEMMA InvoiceGiven ==
  ASSUME CareInv, GivenInv, GenerateInvoice
  PROVE  GivenStep
<1>1. PICK n, a, b, l : /\ n = Call /\ a = [to |-> "number", i |-> n, soft |-> FALSE]
                        /\ b = [to |-> "invoice", i |-> n, soft |-> FALSE] /\ l = <<a, b>>
  OBVIOUS
<1>2. invoice = None /\ Look("invoice", l)
  BY <1>1 DEF GenerateInvoice
<1>3. a.to = "number" /\ b.to = "invoice" /\ DOMAIN l = {1, 2} /\ l[1] = a /\ l[2] = b
  BY <1>1, ShortLists
<1>4. InvoiceLast(l, invoice)
  BY <1>2, <1>3 DEF InvoiceLast
<1>5. Elsewhere(l)
  BY <1>3 DEF Elsewhere
<1>6. Ready => Busy(l, Call, claim, rework)
  BY <1>5 DEF Ready, Busy
<1> QED
  BY <1>2, <1>4, <1>6, LookGiven

LEMMA DisputesGiven ==
  ASSUME CareInv, GivenInv, Disputes
  PROVE  GivenStep
<1>1. CASE File
  <2>1. PICK h \in BOOLEAN :
          Look("dispute", <<Doc("dispute", Call, NewDispute), Set([dispute |-> Call, hold |-> h, openDispute |-> Call])>>
                          \o IF h THEN <<Void>> ELSE <<>>)
    <3>1. PICK serious \in BOOLEAN, h \in BOOLEAN :
            /\ h = (serious /\ ticket.status = "READY")
            /\ Look("dispute", <<Doc("dispute", Call, NewDispute), Set([dispute |-> Call, hold |-> h, openDispute |-> Call])>>
                               \o IF h THEN <<Void>> ELSE <<>>)
      BY <1>1 DEF File
    <3> QED
      BY <3>1
  <2>2. PICK a, b, v, l : /\ a = Doc("dispute", Call, NewDispute) /\ b = HoldSet(Call, h) /\ v = Void
                          /\ l = <<a, b>> \o IF h THEN <<v>> ELSE <<>>
    OBVIOUS
  <2>3. a.to = "dispute" /\ b.to = "ticket" /\ v.to = "void" /\ Look("dispute", l)
    BY <2>1, <2>2 DEF Doc, HoldSet, Set, Void
  <2>4. l = <<a, b>> \/ l = <<a, b, v>>
    <3>1. CASE h
      BY <2>2, <3>1, TwoAndOne
    <3>2. CASE ~h
      <4>1. PICK w, S : w = <<a, b>> /\ S = {a, b}
        OBVIOUS
      <4>2. w \in Seq(S)
        BY <4>1
      <4> QED
        BY <2>2, <3>2, <4>1, <4>2, ConcatEmptySeq
    <3> QED
      BY <3>1, <3>2
  <2>5. \A k \in DOMAIN l : l[k].to \in {"dispute", "ticket", "void"}
    BY <2>3, <2>4, ShortLists
  <2>6. Elsewhere(l) /\ \A k \in DOMAIN l : l[k].to # "invoice"
    BY <2>5 DEF Elsewhere
  <2> QED
    BY <2>3, <2>6, LookElsewhere
<1>2. ASSUME NEW a, NEW b, a.to = "dispute", b.to = "outcome", Look("dispute", <<a, b>>) PROVE GivenStep
  <2>1. PICK l : l = <<a, b>>
    OBVIOUS
  <2>2. \A k \in DOMAIN l : l[k].to \in {"dispute", "outcome"}
    BY <1>2, <2>1, ShortLists
  <2>3. Elsewhere(l) /\ \A k \in DOMAIN l : l[k].to # "invoice"
    BY <2>2 DEF Elsewhere
  <2> QED
    BY <1>2, <2>1, <2>3, LookElsewhere
<1>3. /\ \A i, f : Doc("dispute", i, f).to = "dispute"
      /\ \A d, o, kept : [to |-> "outcome", d |-> d, outcome |-> o, kept |-> kept, soft |-> FALSE].to = "outcome"
  BY DEF Doc
<1>4. ASSUME NEW d, Dismiss(d) PROVE GivenStep
  BY <1>2, <1>3, <1>4 DEF Dismiss
<1>5. ASSUME NEW d, NEW o, NEW kept, Decide(d, o, kept) PROVE GivenStep
  BY <1>2, <1>3, <1>5 DEF Decide
<1> QED
  BY Zenon, <1>1, <1>4, <1>5 DEF Disputes

LEMMA FileClaimGiven ==
  ASSUME CareInv, GivenInv, FileClaim
  PROVE  GivenStep
<1>1. PICK a, l : a = Doc("claim", Call, NewClaim) /\ l = <<a>>
  OBVIOUS
<1>2. Look("warranty", l) /\ a.to = "claim" /\ Filing(l, Call, claim)
  BY <1>1 DEF FileClaim, Filing, Doc
<1>3. Ready => Busy(l, Call, claim, rework)
  BY <1>2 DEF Busy
<1> QED
  BY <1>1, <1>2, <1>3, LookClaims

LEMMA RespondGiven ==
  ASSUME CareInv, GivenInv, NEW k \in DOMAIN claim, Respond(k) \/ DisputeClaim(k)
  PROVE  GivenStep
<1>1. ASSUME NEW s \in {"DECLINED", "DISPUTED"}, claim[k].status \in {"OPEN", "DECLINED"},
             Look("warranty", <<Doc("claim", k, [status |-> s])>>)
      PROVE  GivenStep
  <2>1. PICK a, l : a = Doc("claim", k, [status |-> s]) /\ l = <<a>>
    OBVIOUS
  <2>2. Look("warranty", l) /\ a.to = "claim" /\ Answering(l, claim)
    BY <1>1, <2>1 DEF Answering, Doc
  <2>3. Ready => Busy(l, Call, claim, rework)
    BY <2>2 DEF Busy, Ready
  <2> QED
    BY <2>1, <2>2, <2>3, LookClaims
<1>2. ASSUME claim[k].status = "OPEN",
             Look("warranty", <<Doc("rework", Call, [status |-> "OPEN", claim |-> k, marked |-> FALSE]),
                                Doc("rework", Call, [marked |-> TRUE]),
                                Doc("claim", k, [status |-> "REBOOKED", rework |-> Call])>>)
      PROVE  GivenStep
  <2>1. PICK a, b, c, l : a = Booked(Call, k) /\ b = Marked(Call) /\ c = Rebooked(Call, k) /\ l = <<a, b, c>>
    OBVIOUS
  <2>2. a.to = "rework" /\ b.to = "rework" /\ c.to = "claim"
    BY <2>1 DEF Booked, Marked, Rebooked, Doc
  <2>3. Look("warranty", l)
    BY <1>2, <2>1 DEF Booked, Marked, Rebooked
  <2>4. Call \notin DOMAIN rework => Booking(l, Call, claim, rework)
    BY <1>2, <2>1 DEF Booking
  <2>5. Ready => Busy(l, Call, claim, rework)
    BY <2>4 DEF Busy, Ready
  <2> QED
    BY <2>1, <2>2, <2>3, <2>5, LookClaims
<1>3. CASE Respond(k)
  <2>1. CASE Look("warranty", <<Doc("claim", k, [status |-> "DECLINED"])>>)
    BY <1>1, <1>3, <2>1 DEF Respond
  <2> QED
    BY <1>2, <1>3, <2>1 DEF Respond
<1>4. CASE DisputeClaim(k)
  BY <1>1, <1>4 DEF DisputeClaim
<1> QED
  BY <1>3, <1>4

\* A claim that may be settled has no rework under way or done.
LEMMA ResolvableIsFree ==
  ASSUME CareInv, Ready, NEW k \in DOMAIN claim, Resolvable(k)
  PROVE  LiveIn(rework, k) = {}
<1>1. PICK C, R, c : C = claim /\ R = rework /\ c = C[k]
  OBVIOUS
<1>2. AtRest(c, k, R) /\ ClaimShape(C, R, DOMAIN req)
  BY <1>1 DEF Ready, AllAtRest
<1>3. CASE c.status \in {"DECLINED", "DISPUTED", "OPEN"}
  BY <1>1, <1>2, <1>3 DEF AtRest
<1>4. CASE c.status = "REBOOKED" /\ ReworkSettled(k)
  <2>1. c.rework \in DOMAIN R /\ LiveIn(R, k) \subseteq {c.rework} /\ R[c.rework].status # "RESOLVED"
    BY <1>2, <1>4 DEF AtRest
  <2>2. c.rework # None
    <3>1. PICK S : req \in Seq(S)
      BY DEF CareInv, CallsInv
    <3>2. DOMAIN R \subseteq Nat
      BY <1>2, <3>1, LenProperties DEF ClaimShape
    <3>3. None \notin Nat
      BY ShopAssumption
    <3> QED
      BY <2>1, <3>2, <3>3
  <2>3. R[c.rework].status # "OPEN"
    BY <1>1, <1>4, <2>2 DEF ReworkSettled
  <2>4. R[c.rework].status = "CANCELLED"
    BY <1>2, <2>1, <2>3 DEF ClaimShape
  <2>5. c.rework \notin LiveIn(R, k)
    BY <2>4 DEF LiveIn
  <2> QED
    BY <1>1, <2>1, <2>5
<1> QED
  BY <1>1, <1>3, <1>4 DEF Resolvable

LEMMA ResolveGiven ==
  ASSUME CareInv, GivenInv, NEW k \in DOMAIN claim, ResolveClaim(k)
  PROVE  GivenStep
<1>1. CASE Look("warranty", <<Doc("claim", k, [status |-> "RESOLVED"])>>)
  <2>1. PICK a, l : a = Doc("claim", k, [status |-> "RESOLVED"]) /\ l = <<a>>
    OBVIOUS
  <2>2. Look("warranty", l) /\ a.to = "claim" /\ Settling(l, claim)
    BY <1>1, <2>1 DEF Settling, Doc
  <2>3. Ready => Busy(l, Call, claim, rework)
    BY <2>2 DEF Busy, Ready
  <2> QED
    BY <2>1, <2>2, <2>3, LookClaims
<1>2. ASSUME NEW i, Look("warranty", <<[Ask(i) EXCEPT !.soft = FALSE],
                                       Doc("claim", k, [status |-> "RESOLVED", refunded |-> TRUE])>>)
      PROVE  GivenStep
  <2>1. PICK a, b, l : a = [Ask(i) EXCEPT !.soft = FALSE] /\ b = PaidBack(k) /\ l = <<a, b>>
    OBVIOUS
  <2>2. a.to = "ask" /\ b.to = "claim" /\ Look("warranty", l)
    BY <1>2, <2>1 DEF Ask, PaidBack, Doc
  <2>3. Head(l) = a
    BY <2>1, ShortTails
  <2>4. Resolvable(k)
    BY DEF ResolveClaim
  <2>5. Ready => PayingBack(l, claim, rework)
    BY <2>1, <2>2, <2>3, <2>4, ResolvableIsFree DEF PayingBack
  <2>6. Ready => Busy(l, Call, claim, rework)
    BY <2>5 DEF Busy, Ready
  <2> QED
    BY <2>1, <2>2, <2>6, LookClaims
<1> QED
  BY <1>1, <1>2 DEF ResolveClaim

LEMMA CloseGiven ==
  ASSUME CareInv, GivenInv, NEW w \in DOMAIN rework, CloseRework(w)
  PROVE  GivenStep
<1>1. CASE Look("warranty", <<Doc("rework", w, [status |-> "CANCELLED"])>>)
  <2>1. PICK a, l : a = Doc("rework", w, [status |-> "CANCELLED"]) /\ l = <<a>>
    OBVIOUS
  <2>2. Look("warranty", l) /\ a.to = "rework" /\ CallingOff(l, rework)
    BY <1>1, <2>1 DEF CallingOff, Doc
  <2>3. Ready => Busy(l, Call, claim, rework)
    BY <2>2 DEF Busy, Ready
  <2> QED
    BY <2>1, <2>2, <2>3, LookClaims
<1>2. CASE Look("warranty", <<Doc("rework", w, [status |-> "RESOLVED"]), [to |-> "complete", i |-> w, soft |-> TRUE]>>)
  <2>1. PICK a, b, l : a = Doc("rework", w, [status |-> "RESOLVED"]) /\ b = Done(w) /\ l = <<a, b>>
    OBVIOUS
  <2>2. a.to = "rework" /\ b.to = "complete" /\ Look("warranty", l)
    BY <1>2, <2>1 DEF Done, Doc
  <2>3. Closing(l, rework)
    BY <2>1 DEF CloseRework, Closing
  <2>4. Ready => Busy(l, Call, claim, rework)
    BY <2>3 DEF Busy, Ready
  <2> QED
    BY <2>1, <2>2, <2>4, LookClaims
<1> QED
  BY <1>1, <1>2 DEF CloseRework

-----------------------------------------------------------------------------
(* The sweep of the claims.                                                *)

\* Claim k follows its rework: done, it is done too; called off, it is open again.
Follows(C2, C, k, R) ==
  /\ DOMAIN C2 = DOMAIN C /\ C[k].status = "REBOOKED" /\ \A j \in DOMAIN C : j # k => C2[j] = C[j]
  /\ DOMAIN C2[k] = DOMAIN C[k] /\ C2[k].refunded = C[k].refunded
  /\ \/ R[C[k].rework].status = "RESOLVED" /\ C2[k].status = "COMPLETED"
     \/ R[C[k].rework].status = "CANCELLED" /\ C2[k].status = "OPEN"

LEMMA FollowsRests ==
  ASSUME NEW C, NEW R, NEW k \in DOMAIN C, NEW C2, Follows(C2, C, k, R), AtRest(C[k], k, R)
  PROVE  AtRest(C2[k], k, R)
<1>1. C[k].status = "REBOOKED" /\ C2[k].refunded = C[k].refunded
  BY DEF Follows
<1>2. LiveIn(R, k) \subseteq {C[k].rework} /\ R[C[k].rework].status # "RESOLVED" /\ ~C[k].refunded
  BY <1>1 DEF AtRest
<1>3. R[C[k].rework].status = "CANCELLED" /\ C2[k].status = "OPEN"
  BY <1>2 DEF Follows
<1>4. C[k].rework \notin LiveIn(R, k)
  BY <1>3 DEF LiveIn
<1>5. LiveIn(R, k) = {}
  BY <1>2, <1>4
<1> QED
  BY <1>1, <1>2, <1>3, <1>5 DEF AtRest

LEMMA FollowsHolds ==
  ASSUME NEW C, NEW R, NEW D, NEW k \in DOMAIN C, NEW C2, Follows(C2, C, k, R), ClaimShape(C, R, D)
  PROVE  /\ ClaimShape(C2, R, D) /\ (AllAtRest(C, R) => AllAtRest(C2, R))
         /\ \A l, r : Busy(l, r, C, R) => Busy(l, r, C2, R)
<1>0. DOMAIN C2 = DOMAIN C /\ C[k].status = "REBOOKED" /\ \A j \in DOMAIN C : j # k => C2[j] = C[j]
  BY DEF Follows
<1>1. ClaimShape(C2, R, D)
  BY DEF ClaimShape, Follows
<1>2. ASSUME AllAtRest(C, R) PROVE AllAtRest(C2, R)
  <2>1. \A j \in DOMAIN C : AtRest(C[j], j, R)
    BY <1>2 DEF AllAtRest
  <2>2. AtRest(C2[k], k, R)
    BY <2>1, FollowsRests
  <2>3. \A j \in DOMAIN C : j # k => C2[j] = C[j] /\ AtRest(C[j], j, R)
    BY <1>0, <2>1
  <2> QED
    BY <1>0, <1>1, <2>2, <2>3, ClaimRests
<1>3. ASSUME NEW l, NEW r, Busy(l, r, C, R) PROVE Busy(l, r, C2, R)
  <2>1. Answering(l, C) => Answering(l, C2)
    BY <1>0 DEF Answering
  <2>2. Settling(l, C) => Settling(l, C2)
    BY <1>0 DEF Settling
  <2>3. Booking(l, r, C, R) => Booking(l, r, C2, R)
    BY <1>0 DEF Booking
  <2>4. PayingBack(l, C, R) => PayingBack(l, C2, R)
    BY <1>0 DEF PayingBack
  <2>5. Filing(l, r, C) => Filing(l, r, C2)
    BY <1>0 DEF Filing
  <2>6. ASSUME NEW j \in DOMAIN C, Rebooking(j, r, C, R) PROVE Rebooking(j, r, C2, R)
    <3>1. j # k /\ C2[j] = C[j] /\ \A i \in DOMAIN C : i # j => AtRest(C[i], i, R)
      BY <1>0, <2>6 DEF Rebooking
    <3>2. AtRest(C2[k], k, R)
      BY <3>1, FollowsRests
    <3>3. \A i \in DOMAIN C2 : i # j => AtRest(C2[i], i, R)
      BY <1>0, <3>1, <3>2
    <3> QED
      BY <2>6, <3>1, <3>3 DEF Rebooking
  <2>7. Telling(l, r, C, R) => Telling(l, r, C2, R)
    BY <1>0, <2>6 DEF Telling
  <2>8. ASSUME NEW w \in DOMAIN R, Completing(w, C, R) PROVE Completing(w, C2, R)
    <3>1. R[w].status = "RESOLVED" /\ \A j \in DOMAIN C : AtRest(C[j], j, R) \/ Completes(C[j], j, w, R)
      BY <2>8 DEF Completing
    <3>2. AtRest(C2[k], k, R)
      <4>1. CASE AtRest(C[k], k, R)
        BY <4>1, FollowsRests
      <4>2. CASE Completes(C[k], k, w, R)
        <5>1. ~C[k].refunded /\ LiveIn(R, k) \subseteq {w} /\ R[C[k].rework].status = "RESOLVED"
          BY <3>1, <4>2 DEF Completes
        <5>2. C2[k].status = "COMPLETED" /\ C2[k].refunded = C[k].refunded
          BY <5>1 DEF Follows
        <5> QED
          BY <5>1, <5>2 DEF AtRest
      <4> QED
        BY <3>1, <4>1, <4>2
    <3>3. \A j \in DOMAIN C2 : AtRest(C2[j], j, R) \/ Completes(C2[j], j, w, R)
      BY <1>0, <3>1, <3>2
    <3> QED
      BY <3>1, <3>3 DEF Completing
  <2>9. Finishing(l, C, R) => Finishing(l, C2, R)
    BY <2>8 DEF Finishing
  <2> QED
    BY <1>2, <1>3, <2>1, <2>2, <2>3, <2>4, <2>5, <2>7, <2>9 DEF Busy
<1> QED
  BY <1>1, <1>2, <1>3

LEMMA SweepGiven ==
  ASSUME GivenInv, SweepWarrantyRebooks
  PROVE  GivenStep
<1>1. PICK k \in DOMAIN claim :
        /\ claim[k].status = "REBOOKED"
        /\ \/ rework[claim[k].rework].status = "RESOLVED" /\ claim' = [claim EXCEPT ![k].status = "COMPLETED"]
           \/ rework[claim[k].rework].status = "CANCELLED" /\ claim' = Reopened(k)
  BY DEF SweepWarrantyRebooks
<1>2. /\ req' = req /\ rework' = rework /\ invoice' = invoice /\ overlap' = overlap /\ faults' = faults
  BY DEF SweepWarrantyRebooks, vars
<1>3. PICK C, C2, R, D : C = claim /\ C2 = claim' /\ R = rework /\ D = DOMAIN req
  OBVIOUS
<1>4. ASSUME ClaimShape(C, R, D) PROVE Follows(C2, C, k, R)
  <2>1. DOMAIN C[k] = ClaimFields
    BY <1>1, <1>3, <1>4 DEF ClaimShape
  <2>2. CASE C2 = [C EXCEPT ![k].status = "COMPLETED"] /\ R[C[k].rework].status = "RESOLVED"
    BY <1>1, <1>3, <2>1, <2>2 DEF Follows, ClaimFields
  <2>3. CASE C2 = [C EXCEPT ![k].status = "OPEN", ![k].rework = None] /\ R[C[k].rework].status = "CANCELLED"
    <3>1. PICK c, c1, c2 : c = C[k] /\ c1 = [c EXCEPT !.status = "OPEN"] /\ c2 = [c1 EXCEPT !.rework = None]
      OBVIOUS
    <3>2. DOMAIN c2 = DOMAIN c /\ c2.status = "OPEN" /\ c2.refunded = c.refunded
      BY <2>1, <3>1 DEF ClaimFields
    <3>3. C2[k] = c2 /\ DOMAIN C2 = DOMAIN C /\ \A j \in DOMAIN C : j # k => C2[j] = C[j]
      BY <1>1, <1>3, <2>3, <3>1
    <3> QED
      BY <1>1, <1>3, <2>3, <3>1, <3>2, <3>3 DEF Follows
  <2> QED
    BY <1>1, <1>3, <2>2, <2>3 DEF Reopened
<1>5. ASSUME ClaimShape(C, R, D)
      PROVE  /\ ClaimShape(C2, R, D) /\ (AllAtRest(C, R) => AllAtRest(C2, R))
             /\ \A l, r : Busy(l, r, C, R) => Busy(l, r, C2, R)
  <2>1. Follows(C2, C, k, R)
    BY <1>4, <1>5
  <2>2. k \in DOMAIN C
    BY <1>1, <1>3
  <2> QED
    BY <1>5, <2>1, <2>2, FollowsHolds
<1>6. Given(req, overlap, faults, C, R, invoice)
  BY <1>3 DEF GivenInv
<1>7. Given(req, overlap, faults, C2, R, invoice)
  BY <1>3, <1>5, <1>6 DEF Given, Holds
<1>8. GivenInv'
  BY <1>2, <1>3, <1>7 DEF GivenInv
<1> QED
  BY <1>2, <1>8 DEF GivenStep, InvoiceStandsStep

LEMMA ClaimsGiven ==
  ASSUME CareInv, GivenInv, Claims
  PROVE  GivenStep
<1>1. ASSUME NEW k \in DOMAIN claim, Respond(k) \/ DisputeClaim(k) \/ ResolveClaim(k) PROVE GivenStep
  BY Zenon, <1>1, RespondGiven, ResolveGiven
<1>2. ASSUME NEW w \in DOMAIN rework, CloseRework(w) PROVE GivenStep
  BY Zenon, <1>2, CloseGiven
<1> QED
  BY Zenon, <1>1, <1>2, FileClaimGiven, SweepGiven DEF Claims

-----------------------------------------------------------------------------
(* A step of Shop, and a call that writes.                                 *)

LEMMA CareGiven ==
  ASSUME GivenInv, UNCHANGED care, faults \in Nat, faults' \in Nat, faults' >= faults
  PROVE  GivenStep
<1>1. /\ req' = req /\ claim' = claim /\ rework' = rework /\ invoice' = invoice /\ overlap' = overlap
      /\ faults' = 0 => faults = 0
  BY DEF care
<1>2. Given(req, overlap, faults', claim, rework, invoice)
  BY <1>1 DEF GivenInv, Given
<1>3. GivenInv'
  BY <1>1, <1>2 DEF GivenInv
<1> QED
  BY <1>1, <1>3 DEF GivenStep, InvoiceStandsStep

LEMMA ShopGiven ==
  ASSUME CareInv, GivenInv, ShopStep \/ Night
  PROVE  GivenStep
<1>0. faults \in Nat
  BY DEF CareInv, ShopState
<1>1. CASE ShopStep
  <2>1. Result /\ UNCHANGED care
    BY <1>1, ShopSteps DEF CareInv, ShopStep
  <2> QED
    BY <1>0, <2>1, CareGiven DEF Result
<1>2. CASE Night
  BY <1>0, <1>2, CareGiven DEF Night, Day
<1> QED
  BY <1>1, <1>2

\* The list l of a call, and what is left of it after its first write, t.
LEMMA InvoiceTail ==
  ASSUME NEW l, NEW t, NEW v, NEW v2, InvoiceLast(l, v), Head(l) = l[1], 1 \in DOMAIN l, DOMAIN t \subseteq Nat \ {0},
         \A k \in DOMAIN t : k + 1 \in DOMAIN l /\ t[k] = l[k + 1],
         Head(l).to # "invoice" => v2 = v
  PROVE  InvoiceLast(t, v2) /\ (v # None => v2 = v)
<1>1. CASE l[1].to = "invoice"
  <2>1. v = None /\ \A i \in DOMAIN l : i <= 1
    BY <1>1 DEF InvoiceLast
  <2>2. DOMAIN t = {}
    <3>1. ASSUME NEW k \in DOMAIN t PROVE FALSE
      <4>1. k + 1 <= 1 /\ k \in Nat \ {0}
        BY <2>1
      <4> QED
        BY <4>1
    <3> QED
      BY <3>1
  <2> QED
    BY <2>1, <2>2 DEF InvoiceLast
<1>2. CASE l[1].to # "invoice"
  <2>1. ASSUME NEW j \in DOMAIN t, t[j].to = "invoice" PROVE v = None /\ \A i \in DOMAIN t : i <= j
    <3>1. v = None /\ \A i \in DOMAIN l : i <= j + 1
      BY <2>1 DEF InvoiceLast
    <3>2. ASSUME NEW i \in DOMAIN t PROVE i <= j
      <4>1. i + 1 <= j + 1 /\ i \in Nat /\ j \in Nat
        BY <3>1
      <4> QED
        BY <4>1
    <3> QED
      BY <3>1, <3>2
  <2> QED
    BY <1>2, <2>1 DEF InvoiceLast
<1> QED
  BY <1>1, <1>2

\* Call r has t left to write.
Moves(r, t) ==
  /\ req' = [req EXCEPT ![r] = t] /\ overlap' = overlap /\ faults' \in Nat /\ faults' >= faults
  /\ ~overlap => InvoiceLast(t, invoice')
  /\ ~overlap /\ faults' = 0 => Holds(t, r, claim', rework', DOMAIN req)

LEMMA CallMoves ==
  ASSUME CareInv, GivenInv, NEW r \in InFlight, NEW t, Moves(r, t)
  PROVE  GivenInv'
<1>0. PICK q2, D, C2, R2, v2, f2 : /\ q2 = req' /\ D = DOMAIN req /\ C2 = claim' /\ R2 = rework'
                                   /\ v2 = invoice' /\ f2 = faults'
  OBVIOUS
<1>1. r \in D /\ req[r] # <<>> /\ DOMAIN q2 = D /\ q2[r] = t /\ \A q \in D : q # r => q2[q] = req[q]
  <2>1. req' = [req EXCEPT ![r] = t]
    BY DEF Moves
  <2> QED
    BY <1>0, <2>1, ReqIs
<1>2. ASSUME ~overlap
      PROVE  /\ \A q, s \in Flying(q2) : q = s
             /\ \A q \in Flying(q2) : InvoiceLast(q2[q], v2)
             /\ f2 = 0 => /\ ClaimShape(C2, R2, DOMAIN q2)
                          /\ Flying(q2) = {} => AllAtRest(C2, R2)
                          /\ \A q \in Flying(q2) : Holds(q2[q], q, C2, R2, DOMAIN q2)
  <2>1. \A q, s \in Flying(req) : q = s
    BY <1>2 DEF GivenInv, Given
  <2>2. r \in Flying(req)
    BY <1>0, <1>1 DEF Flying
  <2>3. Flying(req) = {r}
    BY <2>1, <2>2
  <2>4. Flying(q2) \subseteq {r}
    BY <1>0, <1>1, <2>3 DEF Flying
  <2>5. InvoiceLast(t, v2)
    BY <1>0, <1>2 DEF Moves
  <2>6. f2 = 0 => Holds(t, r, C2, R2, D)
    BY <1>0, <1>2 DEF Moves
  <2>7. Flying(q2) = {} => t = <<>>
    BY <1>1 DEF Flying
  <2>8. f2 = 0 /\ t = <<>> => AllAtRest(C2, R2)
    BY <2>6, RestHolds DEF Holds
  <2>9. f2 = 0 => ClaimShape(C2, R2, D)
    BY <2>6 DEF Holds
  <2> QED
    BY <1>1, <2>4, <2>5, <2>6, <2>7, <2>8, <2>9
<1>3. Given(q2, overlap, f2, C2, R2, v2)
  BY <1>2 DEF Given
<1> QED
  BY <1>0, <1>3 DEF GivenInv, Moves

LEMMA FlightIs ==
  ASSUME GivenInv, NEW r \in InFlight, ~overlap
  PROVE  InvoiceLast(req[r], invoice) /\ (faults = 0 => Holds(req[r], r, claim, rework, DOMAIN req))
<1>1. r \in Flying(req)
  BY DEF Flying, InFlight
<1> QED
  BY <1>1 DEF GivenInv, Given

LEMMA PlainGiven ==
  ASSUME CareInv, GivenInv, NEW r \in InFlight, Write(r), NEW w, w = Head(req[r]), w.to \notin Reads
  PROVE  GivenStep
<1>1. Reaches(w) /\ req' = [req EXCEPT ![r] = Tail(req[r])] /\ faults' = faults
  BY NothingAsked
<1>2. PICK l, t : l = req[r] /\ t = Tail(l)
  OBVIOUS
<1>3. ListOf(r, l, t)
  BY <1>2, CallOf
<1>4. /\ Head(l) = l[1] /\ 1 \in DOMAIN l /\ r \in DOMAIN req /\ \A k \in DOMAIN t : k + 1 \in DOMAIN l /\ t[k] = l[k + 1]
      /\ w = Head(l) /\ w.to \in CareKinds
  BY <1>2, <1>3 DEF ListOf, WriteAt
<1>5. DOMAIN t \subseteq Nat \ {0} /\ req' = [req EXCEPT ![r] = t] /\ overlap' = overlap /\ faults \in Nat
  <2>1. DOMAIN t = 1..(Len(l) - 1)
    BY <1>3 DEF ListOf
  <2>2. overlap' = overlap /\ faults \in Nat
    BY DEF Write, CareInv, ShopState
  <2>3. Len(l) \in Nat
    BY <1>3 DEF ListOf
  <2>4. DOMAIN t \subseteq Nat \ {0}
    BY <2>1, <2>3
  <2> QED
    BY <1>1, <1>2, <2>2, <2>4
<1>6. PICK C, R, C2, R2 : C = claim /\ R = rework /\ C2 = claim' /\ R2 = rework'
  OBVIOUS
<1>7. Changed(w, C, R, C2, R2) /\ (w.to # "invoice" => invoice' = invoice)
  <2>1. CASE w.to = "claim"
    BY <1>1, <1>6, <2>1, ReachesClaim DEF Changed
  <2>2. CASE w.to = "rework"
    BY <1>1, <1>6, <2>2, ReachesRework DEF Changed
  <2>3. CASE w.to \in {"dispute", "number", "invoice", "ticket", "ask", "void"}
    BY <1>1, <1>6, <2>3, ReachesNeither DEF Changed
  <2> QED
    BY <1>4, <2>1, <2>2, <2>3 DEF CareKinds, Reads
<1>8. ASSUME ~overlap PROVE InvoiceLast(t, invoice') /\ (invoice # None => invoice' = invoice)
  <2>1. PICK v, v2 : v = invoice /\ v2 = invoice'
    OBVIOUS
  <2>2. InvoiceLast(l, v)
    BY <1>2, <1>8, <2>1, FlightIs
  <2>3. Head(l).to # "invoice" => v2 = v
    BY <1>4, <1>7, <2>1
  <2>4. InvoiceLast(t, v2) /\ (v # None => v2 = v)
    BY <1>4, <1>5, <2>2, <2>3, InvoiceTail
  <2> QED
    BY <2>1, <2>4
<1>9. ASSUME ~overlap, faults = 0 PROVE Holds(t, r, claim', rework', DOMAIN req)
  <2>1. PICK D : D = DOMAIN req
    OBVIOUS
  <2>2. Holds(l, r, C, R, D)
    BY <1>2, <1>6, <1>9, <2>1, FlightIs
  <2>3. Head(l).to # "complete" /\ Changed(Head(l), C, R, C2, R2) /\ r \in D /\ t = Tail(l)
    BY <1>2, <1>4, <1>7, <2>1 DEF Reads
  <2>4. Holds(t, r, C2, R2, D)
    BY <1>4, <2>2, <2>3, BusyWrites
  <2> QED
    BY <1>6, <2>1, <2>4
<1>10. Moves(r, t)
  <2>1. faults' \in Nat /\ faults' >= faults /\ (faults' = 0 => faults = 0)
    BY <1>1, <1>5
  <2>2. req' = [req EXCEPT ![r] = t] /\ overlap' = overlap
    BY <1>5
  <2>3. ~overlap => InvoiceLast(t, invoice')
    BY <1>8
  <2>4. ~overlap /\ faults' = 0 => Holds(t, r, claim', rework', DOMAIN req)
    BY <1>9, <2>1
  <2> QED
    BY <2>1, <2>2, <2>3, <2>4 DEF Moves
<1>11. GivenInv'
  BY <1>10, CallMoves
<1> QED
  BY <1>5, <1>8, <1>11 DEF GivenStep, InvoiceStandsStep

\* A read that leads to writes on the ticket and the charges only.
Aside(r, t) ==
  /\ req' = [req EXCEPT ![r] = t] /\ claim' = claim /\ rework' = rework /\ invoice' = invoice
  /\ \A k \in DOMAIN t : t[k].to \in {"void", "due", "ask"}

LEMMA AsideGiven ==
  ASSUME CareInv, GivenInv, NEW r \in InFlight, NEW w, w = Head(req[r]), w.to \in {"outcome", "due"},
         NEW t, Aside(r, t), overlap' = overlap, faults' \in Nat, faults' >= faults
  PROVE  GivenStep
<1>1. InvoiceLast(t, invoice') /\ Elsewhere(t)
  BY DEF Aside, InvoiceLast, Elsewhere
<1>2. ASSUME ~overlap, faults' = 0 PROVE Holds(t, r, claim', rework', DOMAIN req)
  <2>1. PICK C, R, D, l : C = claim /\ R = rework /\ D = DOMAIN req /\ l = req[r]
    OBVIOUS
  <2>2. faults = 0
    BY <1>2 DEF CareInv, ShopState
  <2>3. Holds(l, r, C, R, D)
    BY <1>2, <2>1, <2>2, FlightIs
  <2>4. Head(l).to \in {"outcome", "due"}
    BY <2>1
  <2>5. AllAtRest(C, R)
    <3>1. ~Filing(l, r, C) /\ ~Finishing(l, C, R)
      BY <2>4, ShortTails DEF Filing, Finishing, Done, Doc
    <3>2. ~Telling(l, r, C, R)
      <4>1. \A k : Marked(r).to = "rework" /\ Rebooked(r, k).to = "claim"
        BY DEF Marked, Rebooked, Doc
      <4> QED
        BY <2>4, <4>1, ShortTails DEF Telling
    <3> QED
      BY <2>3, <3>1, <3>2 DEF Holds, Busy
  <2>6. Holds(t, r, C, R, D)
    BY <1>1, <2>3, <2>5 DEF Holds, Busy
  <2> QED
    BY <2>1, <2>6 DEF Aside
<1>3. Moves(r, t)
  BY <1>1, <1>2 DEF Aside, Moves
<1>4. GivenInv'
  BY <1>3, CallMoves
<1> QED
  BY <1>4 DEF GivenStep, InvoiceStandsStep, Aside

LEMMA OutcomeGiven ==
  ASSUME CareInv, GivenInv, NEW r \in InFlight, Write(r), NEW w, w = Head(req[r]), w.to = "outcome"
  PROVE  GivenStep
<1>1. PICK plan, rest : plan = Plan(r) /\ rest = OutcomeWrites(w)
  OBVIOUS
<1>2. plan = rest \o <<>>
  <2>1. Tail(req[r]) = <<>>
    BY ReadIsLast DEF Reads
  <2> QED
    BY <1>1, <2>1 DEF Plan
<1>3. /\ plan = <<>> => UNCHANGED documents /\ req' = [req EXCEPT ![r] = <<>>]
      /\ plan # <<>> => Reaches(Head(plan)) /\ req' = [req EXCEPT ![r] = Tail(plan)]
      /\ faults' = IF IsRefused(w) THEN faults + 1 ELSE faults
  BY <1>1, PlanRun
<1>4. faults \in Nat /\ overlap' = overlap
  BY DEF CareInv, ShopState, Write
<1>5. faults' \in Nat /\ faults' >= faults
  BY <1>3, <1>4
<1>6. CASE rest = <<>>
  <2>1. plan = <<>>
    BY <1>2, <1>6
  <2>2. Aside(r, <<>>)
    BY <1>3, <2>1, NothingLeft DEF Aside, documents
  <2> QED
    BY <1>4, <1>5, <2>2, AsideGiven
<1>7. ASSUME NEW a, a.to = "ticket", rest = <<a>> PROVE GivenStep
  <2>1. plan = <<a>>
    BY <1>2, <1>7
  <2>2. plan # <<>> /\ Head(plan) = a /\ Tail(plan) = <<>>
    BY <2>1, ShortTails
  <2>3. Reaches(a) /\ req' = [req EXCEPT ![r] = <<>>]
    BY <1>3, <2>2
  <2>4. Aside(r, <<>>)
    BY <1>7, <2>3, ReachesNeither, NothingLeft DEF Aside
  <2> QED
    BY <1>4, <1>5, <2>4, AsideGiven
<1>8. ASSUME NEW a, NEW b, NEW c, a.to = "ticket", b.to = "void", c.to = "due", rest = <<a, b, c>> PROVE GivenStep
  <2>1. plan = <<a, b, c>>
    <3>1. PICK w3, S : w3 = <<a, b, c>> /\ S = {<<a, b, c>>[k] : k \in DOMAIN <<a, b, c>>}
      OBVIOUS
    <3>2. w3 \in Seq(S)
      BY <3>1, ShortLists
    <3> QED
      BY <1>2, <1>8, <3>1, <3>2, ConcatEmptySeq
  <2>2. PICK t : t = <<b, c>>
    OBVIOUS
  <2>3. plan # <<>> /\ Head(plan) = a /\ Tail(plan) = t
    BY <2>1, <2>2, ShortTails
  <2>4. Reaches(a) /\ req' = [req EXCEPT ![r] = t]
    BY <1>3, <2>3
  <2>5. \A k \in DOMAIN t : t[k].to \in {"void", "due", "ask"}
    BY <1>8, <2>2, ShortLists
  <2>6. Aside(r, t)
    BY <1>8, <2>4, <2>5, ReachesNeither DEF Aside
  <2> QED
    BY <1>4, <1>5, <2>6, AsideGiven
<1>9. \A f, kept : Set(f).to = "ticket" /\ Void.to = "void" /\ Keep(kept).to = "due"
  BY DEF Set, Void, Keep
<1>10. w.outcome \in Outcomes
  <2>1. WriteAt(req[r], 1, r) /\ req[r][1] = w
    BY ReadIsLast DEF Reads
  <2> QED
    BY <2>1 DEF WriteAt
<1>11. CASE rest # <<>>
  <2>1. w.d \in {ticket.openDispute, ticket.dispute}
    BY <1>1, <1>11 DEF OutcomeWrites
  <2>2. CASE w.outcome = "SHOP"
    <3>1. rest = <<Set(NoHold)>>
      BY <1>1, <2>1, <2>2 DEF OutcomeWrites
    <3> QED
      BY <1>7, <1>9, <3>1
  <2>3. CASE w.outcome = "RIDER"
    <3>1. rest = <<Set(Lowered(0)), Void, Keep(0)>>
      BY <1>1, <2>1, <2>3 DEF OutcomeWrites
    <3> QED
      BY <1>8, <1>9, <3>1
  <2>4. CASE w.outcome = "PARTIAL"
    <3>1. w.kept # None
      BY <1>1, <1>11, <2>1, <2>4 DEF OutcomeWrites
    <3>2. rest = <<Set(Lowered(w.kept)), Void, Keep(w.kept)>>
      BY <1>1, <2>1, <2>4, <3>1 DEF OutcomeWrites
    <3> QED
      BY <1>8, <1>9, <3>2
  <2> QED
    BY <1>10, <2>2, <2>3, <2>4 DEF Outcomes
<1> QED
  BY <1>6, <1>11

LEMMA DueGiven ==
  ASSUME CareInv, GivenInv, NEW r \in InFlight, Write(r), NEW w, w = Head(req[r]), w.to = "due"
  PROVE  GivenStep
<1>1. PICK plan, rest, S : /\ plan = Plan(r) /\ rest = RefundWrites(w)
                           /\ S = {c \in Having(charge, IsReceived) : w.kept = 0 \/ charge[c].amount > w.kept}
  OBVIOUS
<1>2. Tail(req[r]) = <<>>
  BY ReadIsLast DEF Reads
<1>3. IsFiniteSet(S)
  <2>1. PICK R : charge \in Seq(R)
    BY StoreIs DEF CareInv, ShopState, Shaped, ChargeList
  <2>2. Len(charge) \in Nat /\ DOMAIN charge = 1..Len(charge)
    BY <2>1, LenProperties
  <2>3. IsFiniteSet(1..Len(charge))
    BY <2>2, FS_Interval
  <2>4. S \subseteq 1..Len(charge)
    BY <1>1, <2>2 DEF Having
  <2> QED
    BY <2>3, <2>4, FS_Subset
<1>4. rest \in Seq({rest[k] : k \in DOMAIN rest}) /\ \A k \in DOMAIN rest : rest[k].to = "ask"
  <2>1. rest = Asks(S)
    BY <1>1 DEF RefundWrites
  <2> QED
    BY <1>3, <2>1, AskList
<1>5. plan = rest
  <2>1. plan = rest \o <<>>
    BY <1>1, <1>2 DEF Plan
  <2> QED
    BY <1>4, <2>1, ConcatEmptySeq
<1>6. /\ plan = <<>> => UNCHANGED documents /\ req' = [req EXCEPT ![r] = <<>>]
      /\ plan # <<>> => Reaches(Head(plan)) /\ req' = [req EXCEPT ![r] = Tail(plan)]
      /\ faults' = faults
  BY <1>1, PlanRun DEF IsRefused
<1>7. faults' \in Nat /\ faults' >= faults /\ overlap' = overlap
  BY <1>6 DEF CareInv, ShopState, Write
<1>8. CASE plan = <<>>
  <2>1. Aside(r, <<>>)
    BY <1>6, <1>8, NothingLeft DEF Aside, documents
  <2> QED
    BY <1>7, <2>1, AsideGiven
<1>9. CASE plan # <<>>
  <2>1. PICK a, t : a = Head(plan) /\ t = Tail(plan)
    OBVIOUS
  <2>2. CallList(plan, r)
    BY <1>4, <1>5 DEF CallList, WriteAt, CareKinds, Reads
  <2>3. /\ Head(plan) = plan[1] /\ 1 \in DOMAIN plan
        /\ \A k \in DOMAIN t : k + 1 \in DOMAIN plan /\ t[k] = plan[k + 1]
    BY <1>9, <2>1, <2>2, ListIs
  <2>4. a.to = "ask" /\ \A k \in DOMAIN t : t[k].to = "ask"
    BY <1>4, <1>5, <2>1, <2>3
  <2>5. Reaches(a) /\ req' = [req EXCEPT ![r] = t]
    BY <1>6, <1>9, <2>1
  <2>6. Aside(r, t)
    BY <2>4, <2>5, ReachesNeither DEF Aside
  <2> QED
    BY <1>7, <2>6, AsideGiven
<1> QED
  BY <1>8, <1>9

LEMMA CompleteGiven ==
  ASSUME CareInv, GivenInv, NEW r \in InFlight, Write(r), NEW w, w = Head(req[r]), w.to = "complete"
  PROVE  GivenStep
<1>1. PICK plan, rest, linked, l :
        /\ plan = Plan(r) /\ rest = CompleteWrites(w) /\ l = req[r]
        /\ linked = {k \in DOMAIN claim : claim[k].rework = w.i /\ claim[k].status = "REBOOKED"}
  OBVIOUS
<1>2. Tail(l) = <<>> /\ DOMAIN l = {1} /\ l[1] = w /\ r \in DOMAIN req /\ l # <<>>
  BY <1>1, ReadIsLast DEF Reads, InFlight
<1>3. plan = rest \o <<>>
  BY <1>1, <1>2 DEF Plan
<1>4. /\ plan = <<>> => UNCHANGED documents /\ req' = [req EXCEPT ![r] = <<>>]
      /\ plan # <<>> => Reaches(Head(plan)) /\ req' = [req EXCEPT ![r] = Tail(plan)]
      /\ faults' = faults
  BY <1>1, PlanRun DEF IsRefused
<1>5. faults \in Nat /\ overlap' = overlap
  BY DEF CareInv, ShopState, Write
<1>6. PICK C, R, D : C = claim /\ R = rework /\ D = DOMAIN req
  OBVIOUS
<1>7. ASSUME ~overlap, faults = 0
      PROVE  /\ ClaimShape(C, R, D)
             /\ linked = {} => AllAtRest(C, R)
             /\ linked # {} => \A C2 : C2 = Put(C, Newest(linked), [status |-> "COMPLETED"]) =>
                                 ClaimShape(C2, R, D) /\ AllAtRest(C2, R)
  <2>1. Holds(l, r, C, R, D)
    BY <1>1, <1>6, <1>7, FlightIs
  <2>2. Head(l).to = "complete" /\ Head(l) = l[1]
    BY <1>1, <1>2
  <2>3. linked = {k \in DOMAIN C : C[k].rework = Head(l).i /\ C[k].status = "REBOOKED"}
    BY <1>1, <1>6
  <2>4. DOMAIN C \subseteq Nat
    <3>1. PICK S : req \in Seq(S)
      BY DEF CareInv, CallsInv
    <3>2. D \subseteq Nat
      BY <1>6, <3>1, LenProperties
    <3> QED
      BY <2>1, <3>2 DEF Holds, ClaimShape
  <2> QED
    BY <1>2, <2>1, <2>2, <2>3, <2>4, FinishingHolds
<1>8. InvoiceLast(<<>>, invoice')
  BY NothingLeft DEF InvoiceLast
<1>9. CASE linked = {}
  <2>1. plan = <<>>
    BY <1>1, <1>3, <1>9 DEF CompleteWrites
  <2>2. claim' = claim /\ rework' = rework /\ invoice' = invoice /\ req' = [req EXCEPT ![r] = <<>>]
    BY <1>4, <2>1 DEF documents
  <2>3. ~overlap /\ faults' = 0 => Holds(<<>>, r, claim', rework', DOMAIN req)
    BY <1>4, <1>6, <1>7, <1>9, <2>2, RestHolds
  <2>4. Moves(r, <<>>)
    BY <1>4, <1>5, <1>8, <2>2, <2>3 DEF Moves
  <2>5. GivenInv'
    BY <2>4, CallMoves
  <2> QED
    BY <2>2, <2>5 DEF GivenStep, InvoiceStandsStep
<1>10. CASE linked # {}
  <2>1. PICK a, f : f = [status |-> "COMPLETED"] /\ a = Soft(Doc("claim", Newest(linked), f))
    OBVIOUS
  <2>2. rest = <<a>>
    BY <1>1, <1>10, <2>1 DEF CompleteWrites
  <2>3. plan = <<a>>
    BY <1>3, <2>2
  <2>4. plan # <<>> /\ Head(plan) = a /\ Tail(plan) = <<>>
    BY <2>3, ShortTails
  <2>5. a.to = "claim" /\ a.i = Newest(linked) /\ a.fields = f
    BY <2>1 DEF Soft, Doc
  <2>6. Reaches(a) /\ req' = [req EXCEPT ![r] = <<>>]
    BY <1>4, <2>4
  <2>7. claim' = Put(claim, a.i, a.fields) /\ rework' = rework /\ invoice' = invoice
    BY <2>5, <2>6, ReachesClaim
  <2>8. PICK C2 : C2 = claim'
    OBVIOUS
  <2>9. C2 = Put(C, Newest(linked), [status |-> "COMPLETED"])
    BY <1>6, <2>1, <2>5, <2>7, <2>8
  <2>10. ~overlap /\ faults' = 0 => Holds(<<>>, r, C2, R, D)
    BY <1>4, <1>7, <1>10, <2>9, RestHolds
  <2>11. ~overlap /\ faults' = 0 => Holds(<<>>, r, claim', rework', DOMAIN req)
    BY <1>6, <2>7, <2>8, <2>10
  <2>12. Moves(r, <<>>)
    BY <1>4, <1>5, <1>8, <2>6, <2>11 DEF Moves
  <2>13. GivenInv'
    BY <2>12, CallMoves
  <2> QED
    BY <2>7, <2>13 DEF GivenStep, InvoiceStandsStep
<1> QED
  BY <1>9, <1>10

LEMMA WriteGiven ==
  ASSUME CareInv, GivenInv, NEW r \in InFlight, Write(r)
  PROVE  GivenStep
<1>1. PICK w : w = Head(req[r])
  OBVIOUS
<1>2. CASE w.to \notin Reads
  BY <1>1, <1>2, PlainGiven
<1>3. CASE w.to = "outcome"
  BY <1>1, <1>3, OutcomeGiven
<1>4. CASE w.to = "due"
  BY <1>1, <1>4, DueGiven
<1>5. CASE w.to = "complete"
  BY <1>1, <1>5, CompleteGiven
<1> QED
  BY <1>2, <1>3, <1>4, <1>5 DEF Reads

LEMMA FaultGiven ==
  ASSUME CareInv, GivenInv, NEW r \in InFlight, Die(r) \/ Skip(r)
  PROVE  GivenStep
<1>1. PICK l, t : l = req[r] /\ t = Tail(l)
  OBVIOUS
<1>2. PICK left : (left = <<>> \/ left = t) /\ Fault(r, left)
  BY <1>1 DEF Die, Skip
<1>3. /\ faults' = faults + 1 /\ req' = [req EXCEPT ![r] = left] /\ claim' = claim /\ rework' = rework
      /\ invoice' = invoice /\ overlap' = overlap
  BY <1>2 DEF Fault
<1>4. ASSUME ~overlap PROVE InvoiceLast(left, invoice')
  <2>1. CASE left = <<>>
    BY <2>1, NothingLeft DEF InvoiceLast
  <2>2. CASE left = t
    <3>1. PICK v : v = invoice
      OBVIOUS
    <3>2. InvoiceLast(l, v)
      BY <1>1, <1>4, <3>1, FlightIs
    <3>3. ListOf(r, l, t)
      BY <1>1, CallOf
    <3>4. Head(l) = l[1] /\ 1 \in DOMAIN l /\ \A k \in DOMAIN t : k + 1 \in DOMAIN l /\ t[k] = l[k + 1]
      BY <3>3 DEF ListOf
    <3>5. DOMAIN t \subseteq Nat \ {0}
      <4>1. DOMAIN t = 1..(Len(l) - 1) /\ Len(l) \in Nat
        BY <3>3 DEF ListOf
      <4> QED
        BY <4>1
    <3>6. InvoiceLast(t, v)
      BY <3>2, <3>4, <3>5, InvoiceTail
    <3> QED
      BY <1>3, <2>2, <3>1, <3>6
  <2> QED
    BY <1>2, <2>1, <2>2
<1>5. faults \in Nat
  BY DEF CareInv, ShopState
<1>6. faults' \in Nat /\ faults' >= faults /\ faults' # 0
  BY <1>3, <1>5
<1>7. Moves(r, left)
  BY <1>3, <1>4, <1>6 DEF Moves
<1>8. GivenInv'
  BY <1>7, CallMoves
<1> QED
  BY <1>3, <1>8 DEF GivenStep, InvoiceStandsStep

-----------------------------------------------------------------------------
(* What is given once, in every step.                                      *)

LEMMA GivenSteps ==
  CareInv /\ GivenInv /\ [CareNext]_all => GivenStep
<1> SUFFICES ASSUME CareInv, GivenInv, [CareNext]_all PROVE GivenStep
  OBVIOUS
<1>1. CASE ShopStep \/ Night
  BY <1>1, ShopGiven
<1>2. CASE Disputes
  BY <1>2, DisputesGiven
<1>3. CASE Claims
  BY <1>3, ClaimsGiven
<1>4. CASE GenerateInvoice
  BY <1>4, InvoiceGiven
<1>5. CASE Steps
  <2>1. PICK r \in InFlight : Write(r) \/ Die(r) \/ Skip(r)
    BY <1>5 DEF Steps
  <2> QED
    BY <2>1, WriteGiven, FaultGiven
<1>6. CASE UNCHANGED all
  <2>1. UNCHANGED care /\ faults' = faults /\ faults \in Nat
    BY <1>6 DEF all, vars, CareInv, ShopState
  <2> QED
    BY <2>1, CareGiven
<1> QED
  BY <1>1, <1>2, <1>3, <1>4, <1>5, <1>6 DEF CareNext

LEMMA GivenInitially ==
  CareInit => GivenInv
<1> SUFFICES ASSUME CareInit PROVE GivenInv
  OBVIOUS
<1>1. req = <<>> /\ claim = <<>> /\ rework = <<>>
  BY DEF CareInit
<1>2. DOMAIN req = {} /\ DOMAIN claim = {} /\ DOMAIN rework = {}
  BY <1>1, NothingLeft
<1> QED
  BY <1>2 DEF GivenInv, Given, Flying, ClaimShape, AllAtRest

LEMMA RemedyAtRest ==
  ASSUME CareInv, GivenInv
  PROVE  RemedyOnce
<1>1. SUFFICES ASSUME Quiet, ~overlap, faults = 0, NEW k \in DOMAIN claim
               PROVE  LET reworks == {w \in DOMAIN rework : rework[w].claim = k /\ rework[w].status # "CANCELLED"}
                      IN Cardinality(reworks) + (IF claim[k].refunded THEN 1 ELSE 0) <= 1
  BY DEF RemedyOnce
<1>2. PICK S : S = {w \in DOMAIN rework : rework[w].claim = k /\ rework[w].status # "CANCELLED"}
  OBVIOUS
<1>3. AtRest(claim[k], k, rework)
  <2>1. Flying(req) = {}
    BY <1>1 DEF Quiet, InFlight, Flying
  <2>2. AllAtRest(claim, rework)
    BY <1>1, <2>1 DEF GivenInv, Given
  <2> QED
    BY <2>2 DEF AllAtRest
<1>4. S = LiveIn(rework, k)
  BY <1>2 DEF LiveIn
<1>5. (\A w, v \in S : w = v) /\ (claim[k].refunded => S = {})
  BY <1>3, <1>4 DEF AtRest
<1>6. Cardinality(S) \in {0, 1} /\ (S = {} => Cardinality(S) = 0)
  <2>1. CASE S = {}
    BY <2>1, FS_EmptySet
  <2>2. CASE S # {}
    <3>1. PICK w : S = {w}
      BY <1>5, <2>2
    <3> QED
      BY <2>2, <3>1, FS_Singleton
  <2> QED
    BY <2>1, <2>2
<1>7. Cardinality(S) + (IF claim[k].refunded THEN 1 ELSE 0) <= 1
  BY <1>5, <1>6
<1> QED
  BY <1>2, <1>7

\* One remedy for a claim, a rework or money back, through every answer, objection,
\* cancelled rework, sweep and decision, as long as calls neither overlap nor die; and a
\* number on an invoice that is never replaced by another unless calls overlap
\* (warrantyService: respond, completeWarrantyForTicket, resolve, sweepWarrantyRebooks;
\* invoiceService.generateInvoice).
THEOREM CareGivenOnce == CareSpec => GivenOnce
<1>1. CareInit => CareInv /\ GivenInv
  BY CareInitially, GivenInitially
<1>2. CareInv /\ GivenInv /\ [CareNext]_all => CareInv' /\ GivenInv'
  BY CareSteps, GivenSteps DEF GivenStep
<1>3. CareInv' /\ GivenInv' => RemedyOnce'
  <2>1. CareInv /\ GivenInv => RemedyOnce
    BY RemedyAtRest
  <2> QED
    BY <2>1, PTL
<1>4. CareInv /\ GivenInv /\ [CareNext]_all => [RemedyOnce' /\ InvoiceStandsStep]_all
  <2> SUFFICES ASSUME CareInv, GivenInv, [CareNext]_all PROVE RemedyOnce' /\ InvoiceStandsStep
    OBVIOUS
  <2> QED
    BY <1>2, <1>3, GivenSteps DEF GivenStep
<1> QED
  BY <1>1, <1>2, <1>4, PTL DEF CareSpec, GivenOnce
=============================================================================
