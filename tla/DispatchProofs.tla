--------------------------- MODULE DispatchProofs ---------------------------
(* Theorems about Dispatch, for any tows, towers and numbers of requests,      *)
(* however the requests overlap and wherever they die: the duties of the       *)
(* towers follow their jobs, and the documents keep TowPromise.                *)
EXTENDS Dispatch, TLAPS

\* What a request is about, and sets out to write, at each point.
Shaped(q) ==
  /\ q.pc = "idle" => q = Idle
  /\ q.pc = "switch" => q.t = None
  /\ q.pc \notin {"idle", "switch"} => q.t \in Tickets
  /\ q.pc = "claim" => q.w \in Towers
  /\ q.pc = "status" => \/ q.kind = "arrive" /\ q.put = "ARRIVED"
                        \/ q.kind = "deliver" /\ q.put = "RESOLVED"
                        \/ q.kind = "cancel" /\ q.put = "CANCELLED"
Placed == \A r \in Requests : Shaped(req[r])

\* No request is about a ticket before it is filed.
Filed == \A r \in Requests : req[r].t \in Tickets => ~Is(req[r].t, {"NONE"})

\* What a request that decides on a ticket has read of it still holds; but a claim
\* may have come since a cancel read it.
Holds(q) ==
  /\ q.pc = "release" => Is(q.t, Engaged) /\ ticket[q.t].tower # None
  /\ q.pc = "requeue" => Is(q.t, Engaged) /\ ticket[q.t].tower = None
  /\ q.pc = "status" =>
       /\ Is(q.t, Engaged \union {"PENDING"})
       /\ q.kind = "arrive" => Is(q.t, {"MATCHED"}) /\ ticket[q.t].tower # None
       /\ q.kind = "deliver" => Is(q.t, {"ARRIVED"}) /\ ticket[q.t].tower # None

\* A tow one request at most decides on.
TicketInv(t) ==
  /\ Is(t, {"NONE", "PENDING"}) => ticket[t].tower = None
  /\ \A r, s \in Deciding(t) : r = s
  /\ \A r \in Deciding(t) : Holds(req[r])
  /\ t \notin cut /\ Is(t, Engaged) /\ ticket[t].tower = None =>
       \E r \in Deciding(t) : At(r, "requeue")

\* The tow of request r, about tower w, and the duty of w, at each point.
OnItsWay(r, w) ==
  /\ ~At(r, "switch") => wish[w]
  /\ req[r].pc \in {"claim", "switch", "given", "quiet", "free", "requeue"} => JobsOf(w) = {}
  /\ req[r].pc \in {"offduty", "eta", "status", "release"} => req[r].t \in JobsOf(w)
  /\ At(r, "requeue") => ticket[req[r].t].tower # w
  /\ w \notin cut => /\ At(r, "claim") => onDuty[w]
                     /\ req[r].pc \in {"eta", "status", "release"} => ~onDuty[w]

\* A tower one request at most is about.
TowerInv(w) ==
  /\ \A t \in Tickets : ticket[t].tower = w =>
       ~Is(t, {"NONE", "PENDING"}) /\ Deciding(t) \subseteq About(w)
  /\ \A t, u \in JobsOf(w) : t = u
  /\ \A r, s \in About(w) : r = s
  /\ \A r \in About(w) : OnItsWay(r, w)
  /\ (onDuty[w] => wish[w]) /\ (JobsOf(w) # {} => wish[w])
  /\ w \notin cut /\ About(w) = {} => (onDuty[w] <=> wish[w] /\ JobsOf(w) = {})

Good ==
  /\ Filed
  /\ \A t \in Tickets \ clash : TicketInv(t)
  /\ \A w \in Towers \ rough : TowerInv(w)

IInv == TypeOK /\ Placed /\ Good

-----------------------------------------------------------------------------
(* Types.                                                                  *)

LEMMA Shapes ==
  /\ Unfiled \in TicketDoc /\ Idle \in RequestDoc
  /\ NothingListed \in [sla : SUBSET Tickets, late : SUBSET Tickets, holds : SUBSET Tickets]
<1>1. 1 \in 1..MaxRounds
  BY DispatchAssumption
<1> QED
  BY <1>1 DEF Unfiled, TicketDoc, Statuses, Idle, RequestDoc, Kinds, Points, NothingListed

\* What a request that begins is typed by.
LEMMA BeginTypes ==
  ASSUME TypeOK, Placed, NEW r \in Requests, NEW doc \in RequestDoc, doc.t \in Tickets,
         Shaped(doc), Begin(r, doc)
  PROVE  TypeOK' /\ Placed'
<1>1. rough' \subseteq Towers /\ clash' \subseteq Tickets
  BY DEF Begin, Joins, TypeOK, RequestDoc
<1>2. req' \in [Requests -> RequestDoc]
  BY DEF Begin, TypeOK
<1>3. Placed'
  BY DEF Begin, TypeOK, Placed, Shaped
<1> QED
  BY <1>1, <1>2, <1>3 DEF Begin, TypeOK

\* A request moves on, or ends.
LEMMA GotoTypes ==
  ASSUME TypeOK, Placed, NEW r \in Requests, NEW pc \in Points,
         \/ Goto(r, pc) /\ req[r].t \in Tickets /\ pc \notin {"idle", "switch", "claim", "status"}
         \/ Done(r)
  PROVE  req' \in [Requests -> RequestDoc] /\ Placed'
<1>1. CASE Goto(r, pc) /\ req[r].t \in Tickets /\ pc \notin {"idle", "switch", "claim", "status"}
  BY <1>1 DEF Goto, RequestDoc, TypeOK, Placed, Shaped
<1>2. CASE Done(r)
  BY <1>2, Shapes DEF Done, TypeOK, Placed, Shaped, Idle
<1> QED
  BY <1>1, <1>2

LEMMA WriteTypes ==
  ASSUME ticket \in [Tickets -> TicketDoc], NEW t \in Tickets, NEW doc \in TicketDoc,
         Write(t, doc)
  PROVE  ticket' \in [Tickets -> TicketDoc]
BY DEF Write

LEMMA AtOnceTypes ==
  ASSUME TypeOK, Placed, NEW t \in Tickets, AskAtOnce(t)
  PROVE  TypeOK' /\ Placed'
<1>1. PICK doc : doc \in TicketDoc /\ AtOnce(t, doc)
  <2>1. ticket[t] \in TicketDoc
    BY DEF TypeOK
  <2>2. CASE Create(t)
    <3>1. [Unfiled EXCEPT !.status = "PENDING"] \in TicketDoc
      BY Shapes DEF TicketDoc, Statuses
    <3> QED
      BY <2>2, <3>1 DEF Create
  <2>3. CASE Load(t)
    BY <2>1, <2>3 DEF Load, TicketDoc
  <2>4. CASE Receive(t)
    BY <2>1, <2>4 DEF Receive, TicketDoc
  <2>5. CASE RefreshEta(t)
    BY <2>1, <2>5 DEF RefreshEta, TicketDoc
  <2>6. CASE SetHold(t)
    BY <2>1, <2>6 DEF SetHold, TicketDoc
  <2>7. CASE ClearHold(t)
    BY <2>1, <2>7 DEF ClearHold, TicketDoc
  <2> QED
    BY <2>2, <2>3, <2>4, <2>5, <2>6, <2>7 DEF AskAtOnce
<1>2. ticket' \in [Tickets -> TicketDoc]
  BY <1>1, WriteTypes DEF AtOnce, TypeOK
<1> QED
  BY <1>1, <1>2 DEF AtOnce, TypeOK, Placed, Shaped

LEMMA AskTypes ==
  ASSUME TypeOK, Placed, NEW r \in Requests, NEW t \in Tickets, Ask(r, t)
  PROVE  TypeOK' /\ Placed'
<1>1. ticket[t].tower \in Towers \union {None}
  BY DEF TypeOK, TicketDoc
<1>2. ASSUME NEW w \in Towers, AcceptRead(r, t, w)
      PROVE  TypeOK' /\ Placed'
  <2>1. [kind |-> "accept", pc |-> "claim", t |-> t, w |-> w, put |-> "NONE"] \in RequestDoc
    BY DEF RequestDoc, Kinds, Points, Statuses
  <2>2. req' \in [Requests -> RequestDoc]
    BY <1>2, <2>1 DEF AcceptRead, TypeOK
  <2>3. rough' \subseteq Towers
    BY <1>2 DEF AcceptRead, Joins, TypeOK
  <2>4. Placed'
    BY <1>2 DEF AcceptRead, TypeOK, Placed, Shaped
  <2> QED
    BY <1>2, <2>2, <2>3, <2>4 DEF AcceptRead, TypeOK
<1>3. CASE ArriveRead(r, t)
  <2>1. [kind |-> "arrive", pc |-> "status", t |-> t, w |-> ticket[t].tower, put |-> "ARRIVED"]
          \in RequestDoc
    BY <1>1 DEF RequestDoc, Kinds, Points, Statuses, Engaged
  <2> QED
    BY <1>3, <2>1, BeginTypes DEF ArriveRead, Shaped
<1>4. CASE DeliverRead(r, t)
  <2>1. [kind |-> "deliver", pc |-> "status", t |-> t, w |-> ticket[t].tower, put |-> "RESOLVED"]
          \in RequestDoc
    BY <1>1 DEF RequestDoc, Kinds, Points, Statuses, Terminal
  <2> QED
    BY <1>4, <2>1, BeginTypes DEF DeliverRead, Shaped
<1>5. CASE CancelRead(r, t)
  <2>1. [kind |-> "cancel", pc |-> "status", t |-> t, w |-> ticket[t].tower, put |-> "CANCELLED"]
          \in RequestDoc
    BY <1>1 DEF RequestDoc, Kinds, Points, Statuses, Terminal
  <2> QED
    BY <1>5, <2>1, BeginTypes DEF CancelRead, Shaped
<1>6. ASSUME NEW how \in {"giveup", "rematch"}, GiveUpRead(r, t, how)
      PROVE  TypeOK' /\ Placed'
  <2>1. [kind |-> how, pc |-> "release", t |-> t, w |-> ticket[t].tower, put |-> "PENDING"]
          \in RequestDoc
    BY <1>1 DEF RequestDoc, Kinds, Points, Statuses
  <2> QED
    BY <1>6, <2>1, BeginTypes DEF GiveUpRead, Shaped
<1> QED
  BY <1>2, <1>3, <1>4, <1>5, <1>6 DEF Ask

LEMMA DutyReadTypes ==
  ASSUME TypeOK, Placed, NEW r \in Requests, NEW w \in Towers, NEW value \in BOOLEAN,
         DutyRead(r, w, value)
  PROVE  TypeOK' /\ Placed'
<1> DEFINE kind == IF value THEN "goon" ELSE "gooff"
<1>1. kind \in Kinds
  BY DEF Kinds
<1>2. [kind |-> kind, pc |-> "switch", t |-> None, w |-> w, put |-> "NONE"] \in RequestDoc
  BY <1>1 DEF RequestDoc, Points, Statuses
<1>3. req' \in [Requests -> RequestDoc]
  BY <1>2 DEF DutyRead, TypeOK
<1>4. rough' \subseteq Towers
  BY DEF DutyRead, Joins, TypeOK
<1>5. Placed'
  BY DEF DutyRead, TypeOK, Placed, Shaped
<1> QED
  BY <1>3, <1>4, <1>5 DEF DutyRead, TypeOK

\* Every step of a request writes one ticket, switches one duty, and moves on.
LEMMA WorkTypes ==
  ASSUME TypeOK, Placed, NEW r \in Requests, Work(r)
  PROVE  TypeOK' /\ Placed'
<1> DEFINE t == req[r].t
<1>1. req[r] \in RequestDoc /\ req[r].put \in Statuses
  BY DEF TypeOK, RequestDoc
<1>2. ~At(r, "idle") /\ ~At(r, "switch") => t \in Tickets /\ ticket[t] \in TicketDoc
  BY DEF TypeOK, Placed, Shaped, At
<1>3. CASE Claim(r)
  <2>1. t \in Tickets /\ ticket[t] \in TicketDoc /\ req[r].w \in Towers
    BY <1>1, <1>2, <1>3 DEF Claim, At, Placed, Shaped
  <2>2. [ticket[t] EXCEPT !.status = "MATCHED", !.tower = req[r].w] \in TicketDoc
    BY <2>1 DEF TicketDoc, Statuses, Engaged
  <2>3. ticket' \in [Tickets -> TicketDoc]
    BY <1>3, <2>1, <2>2, WriteTypes DEF Claim, Take, TypeOK
  <2>4. req' \in [Requests -> RequestDoc] /\ Placed'
    BY <1>3, <2>1, GotoTypes DEF Claim, Take, Points
  <2>5. rough' \subseteq Towers
    BY <1>3, <2>1 DEF Claim, Take, TypeOK
  <2> QED
    BY <1>3, <2>3, <2>4, <2>5 DEF Claim, TypeOK
<1>4. CASE OffDuty(r) \/ Free(r)
  <2>1. req' \in [Requests -> RequestDoc] /\ Placed'
    BY <1>2, <1>4, GotoTypes DEF OffDuty, Free, At, Points
  <2>2. onDuty' \in [Towers -> BOOLEAN]
    BY <1>4 DEF OffDuty, Free, Switch, TypeOK
  <2>3. cut' \subseteq Tickets \union Towers
    BY <1>4 DEF OffDuty, Free, TypeOK
  <2> QED
    BY <1>4, <2>1, <2>2, <2>3 DEF OffDuty, Free, TypeOK
<1>5. CASE SetDuty(r)
  <2>1. req' \in [Requests -> RequestDoc] /\ Placed'
    BY <1>5, GotoTypes DEF SetDuty, Points
  <2>2. onDuty' \in [Towers -> BOOLEAN] /\ wish' \in [Towers -> BOOLEAN]
    BY <1>5 DEF SetDuty, Switch, TypeOK
  <2>3. cut' \subseteq Tickets \union Towers
    BY <1>5 DEF SetDuty, TypeOK
  <2> QED
    BY <1>5, <2>1, <2>2, <2>3 DEF SetDuty, TypeOK
<1>6. CASE StampEta(r) \/ SetStatus(r) \/ Given(r) \/ Quiet(r) \/ Release(r) \/ Requeue(r)
  <2>1. t \in Tickets /\ ticket[t] \in TicketDoc
    BY <1>2, <1>6 DEF StampEta, SetStatus, Given, Quiet, Release, Requeue, At
  <2>2. req' \in [Requests -> RequestDoc] /\ Placed'
    <3>1. CASE StampEta(r)
      BY <3>1, GotoTypes DEF StampEta, Points
    <3>2. CASE SetStatus(r)
      BY <2>1, <3>2, GotoTypes DEF SetStatus, Points
    <3>3. CASE Given(r) \/ Quiet(r)
      BY <2>1, <3>3, GotoTypes DEF Given, Quiet, Points
    <3>4. CASE Release(r) \/ Requeue(r)
      BY <2>1, <3>4, GotoTypes DEF Release, Requeue, Points
    <3> QED
      BY <1>6, <3>1, <3>2, <3>3, <3>4
  <2>3. ticket' \in [Tickets -> TicketDoc]
    <3>1. CASE StampEta(r)
      BY <2>1, <3>1 DEF StampEta, Write, TicketDoc, TypeOK
    <3>2. CASE SetStatus(r)
      <4> DEFINE hold == IF req[r].put \in Terminal THEN "none" ELSE ticket[t].hold
      <4>1. hold \in {"none", "timed", "over"}
        BY <2>1 DEF TicketDoc
      <4>2. [ticket[t] EXCEPT !.status = req[r].put, !.hold = hold] \in TicketDoc
        BY <1>1, <2>1, <4>1 DEF TicketDoc
      <4> QED
        BY <2>1, <3>2, <4>2, WriteTypes DEF SetStatus, TypeOK
    <3>3. CASE Given(r) \/ Quiet(r)
      BY <2>1, <3>3 DEF Given, Quiet, Write, TicketDoc, TypeOK
    <3>4. CASE Release(r)
      <4>1. GivenUp(ticket[t]) \in TicketDoc /\ Rematched(ticket[t]) \in TicketDoc
        BY <2>1 DEF GivenUp, Rematched, TicketDoc
      <4> QED
        BY <2>1, <3>4, <4>1, WriteTypes DEF Release, TypeOK
    <3>5. CASE Requeue(r)
      BY <2>1, <3>5 DEF Requeue, Write, TicketDoc, TypeOK, Statuses
    <3> QED
      BY <1>6, <3>1, <3>2, <3>3, <3>4, <3>5
  <2> QED
    BY <1>6, <2>2, <2>3
       DEF StampEta, SetStatus, Given, Quiet, Release, Requeue, OnlyTicket, TypeOK
<1> QED
  BY <1>3, <1>4, <1>5, <1>6 DEF Work

LEMMA RestTypes ==
  ASSUME TypeOK, Placed
  PROVE  /\ \A t \in Tickets : Passes(t) => TypeOK' /\ Placed'
         /\ SlaStep \/ LateStep \/ HoldStep \/ AbortSweep => TypeOK' /\ Placed'
         /\ \A r \in Requests : Abort(r) => TypeOK' /\ Placed'
<1>1. ASSUME NEW t \in Tickets, Passes(t)
      PROVE  TypeOK' /\ Placed'
  <2>1. ticket' \in [Tickets -> TicketDoc]
    <3>1. ticket[t] \in TicketDoc
      BY DEF TypeOK
    <3>2. /\ [ticket[t] EXCEPT !.due = TRUE] \in TicketDoc
          /\ [ticket[t] EXCEPT !.eta = "behind"] \in TicketDoc
          /\ [ticket[t] EXCEPT !.hold = "over"] \in TicketDoc
      BY <3>1 DEF TicketDoc
    <3> QED
      BY <1>1, <3>2, WriteTypes DEF Passes, AcceptByPasses, EtaPasses, HoldPasses, RunsOut, TypeOK
  <2> QED
    BY <1>1, <2>1 DEF Passes, AcceptByPasses, EtaPasses, HoldPasses, RunsOut, TypeOK, Placed
<1>2. ASSUME ListDue \/ ListLate \/ ListHolds
      PROVE  TypeOK' /\ Placed'
  <2>1. sweep' \in [sla : SUBSET Tickets, late : SUBSET Tickets, holds : SUBSET Tickets]
    BY <1>2, Shapes DEF ListDue, ListLate, ListHolds, Listing, DueForSla, Late, ExpiredHolds
  <2> QED
    BY <1>2, <2>1 DEF ListDue, ListLate, ListHolds, Listing, TypeOK, Placed
<1>3. ASSUME NEW t \in Tickets, Breach(t) \/ Rebroadcast(t) \/ TellLate(t) \/ LiftHold(t)
      PROVE  TypeOK' /\ Placed'
  <2>1. sweep' \in [sla : SUBSET Tickets, late : SUBSET Tickets, holds : SUBSET Tickets]
    BY <1>3 DEF Breach, Rebroadcast, TellLate, LiftHold, SweepWrites, TypeOK
  <2>2. ticket[t] \in TicketDoc
    BY DEF TypeOK
  <2>3. ticket' \in [Tickets -> TicketDoc]
    <3>1. CASE Breach(t) \/ LiftHold(t)
      <4>1. /\ [ticket[t] EXCEPT !.breached = TRUE] \in TicketDoc
            /\ [ticket[t] EXCEPT !.hold = "none"] \in TicketDoc
        BY <2>2 DEF TicketDoc
      <4> QED
        BY <3>1, <4>1, WriteTypes DEF Breach, LiftHold, SweepWrites, TypeOK
    <3>2. CASE Rebroadcast(t)
      <4>1. ticket[t].round + 1 \in 1..MaxRounds
        BY <2>2, <3>2, DispatchAssumption DEF Rebroadcast, TicketDoc
      <4> QED
        BY <2>2, <3>2, <4>1 DEF Rebroadcast, SweepWrites, Write, TypeOK, TicketDoc
    <3>3. CASE TellLate(t)
      <4> DEFINE eta == IF ticket[t].eta = "none" THEN "none" ELSE "told"
      <4>1. [ticket[t] EXCEPT !.eta = eta] \in TicketDoc
        BY <2>2 DEF TicketDoc
      <4> QED
        BY <3>3, <4>1 DEF TellLate, SweepWrites, Write, TypeOK
    <3> QED
      BY <1>3, <3>1, <3>2, <3>3
  <2> QED
    BY <1>3, <2>1, <2>3 DEF Breach, Rebroadcast, TellLate, LiftHold, SweepWrites, TypeOK, Placed
<1>4. ASSUME AbortSweep
      PROVE  TypeOK' /\ Placed'
  <2>1. faults' \in 0..MaxFaults
    BY <1>4, DispatchAssumption DEF AbortSweep, TypeOK
  <2> QED
    BY <1>4, <2>1, Shapes DEF AbortSweep, TypeOK, Placed
<1>5. ASSUME NEW r \in Requests, Abort(r)
      PROVE  TypeOK' /\ Placed'
  <2>1. faults' \in 0..MaxFaults
    BY <1>5, DispatchAssumption DEF Abort, TypeOK
  <2>2. cut' \subseteq Tickets \union Towers
    BY <1>5 DEF Abort, TypeOK, RequestDoc
  <2>3. req' \in [Requests -> RequestDoc] /\ Placed'
    BY <1>5, GotoTypes DEF Abort, Points
  <2> QED
    BY <1>5, <2>1, <2>2, <2>3 DEF Abort, TypeOK
<1> QED
  BY <1>1, <1>2, <1>3, <1>4, <1>5 DEF SlaStep, LateStep, HoldStep

LEMMA TypesKept == TypeOK /\ Placed /\ [Next]_vars => TypeOK' /\ Placed'
<1> SUFFICES ASSUME TypeOK, Placed, [Next]_vars
             PROVE  TypeOK' /\ Placed'
  OBVIOUS
<1>1. CASE Next
  BY <1>1, AskTypes, DutyReadTypes, WorkTypes, RestTypes, AtOnceTypes DEF Next
<1>2. CASE UNCHANGED vars
  BY <1>2 DEF vars, TypeOK, Placed
<1> QED
  BY <1>1, <1>2

\* Whatever requests overlap or die, the tickets, the duties of the towers, the
\* requests in flight and the lists of the sweeps keep their shape: a ticket has one of
\* the statuses of the code and its round stays within DISPATCH_MAX_ROUNDS.
THEOREM Typing == Spec => []TypeOK
<1>1. Init => TypeOK /\ Placed
  BY Shapes, DispatchAssumption DEF Init, TypeOK, Placed, Shaped, Idle
<1> QED
  BY <1>1, TypesKept, PTL DEF Spec

-----------------------------------------------------------------------------
(* What a step writes.                                                     *)

SameWay(t) == ticket'[t].status = ticket[t].status /\ ticket'[t].tower = ticket[t].tower

\* What the requests' writes of a ticket's status or tower change.
LEMMA CreateWrites ==
  ASSUME TypeOK, NEW t \in Tickets, Create(t)
  PROVE  /\ ticket'[t].status = "PENDING" /\ ticket'[t].tower = None
         /\ ticket[t].status = "NONE" /\ ticket[t].tower = None
         /\ \A u \in Tickets \ {t} : ticket'[u] = ticket[u]
BY DEF Create, AtOnce, Write, Unfiled, TypeOK

LEMMA ClaimWrites ==
  ASSUME TypeOK, NEW r \in Requests, Claim(r), NEW t \in Tickets, t = req[r].t, Is(t, {"PENDING"})
  PROVE  /\ ticket'[t].status = "MATCHED" /\ ticket'[t].tower = req[r].w
         /\ \A u \in Tickets \ {t} : ticket'[u] = ticket[u]
<1>1. ticket[t] \in TicketDoc /\ ticket \in [Tickets -> TicketDoc]
  BY DEF TypeOK
<1>2. ticket' = [ticket EXCEPT ![t] = [ticket[t] EXCEPT !.status = "MATCHED", !.tower = req[r].w]]
  BY DEF Claim, Take, Write
<1> QED
  BY <1>1, <1>2 DEF TicketDoc

LEMMA SetStatusWrites ==
  ASSUME TypeOK, NEW r \in Requests, SetStatus(r), NEW t \in Tickets, t = req[r].t
  PROVE  /\ ticket'[t].status = req[r].put /\ ticket'[t].tower = ticket[t].tower
         /\ \A u \in Tickets \ {t} : ticket'[u] = ticket[u]
<1>1. ticket[t] \in TicketDoc /\ ticket \in [Tickets -> TicketDoc]
  BY DEF TypeOK
<1>2. PICK put : put = req[r].put
  OBVIOUS
<1>3. PICK doc : doc = [ticket[t] EXCEPT !.status = put,
                          !.hold = IF put \in Terminal THEN "none" ELSE ticket[t].hold]
  OBVIOUS
<1>4. ticket' = [ticket EXCEPT ![t] = doc]
  BY <1>2, <1>3 DEF SetStatus, Write
<1>5. doc.status = put /\ doc.tower = ticket[t].tower
  BY <1>1, <1>3 DEF TicketDoc
<1> QED
  BY <1>1, <1>2, <1>4, <1>5

LEMMA ReleaseWrites ==
  ASSUME TypeOK, NEW r \in Requests, Release(r), NEW t \in Tickets, t = req[r].t
  PROVE  /\ ticket'[t].status = ticket[t].status /\ ticket'[t].tower = None
         /\ \A u \in Tickets \ {t} : ticket'[u] = ticket[u]
<1>1. ticket[t] \in TicketDoc /\ ticket \in [Tickets -> TicketDoc]
  BY DEF TypeOK
<1>2. PICK doc : doc = IF req[r].kind = "giveup" THEN GivenUp(ticket[t]) ELSE Rematched(ticket[t])
  OBVIOUS
<1>3. ticket' = [ticket EXCEPT ![t] = doc]
  BY <1>2 DEF Release, Write
<1>4. doc.status = ticket[t].status /\ doc.tower = None
  BY <1>1, <1>2 DEF TicketDoc, GivenUp, Rematched
<1> QED
  BY <1>1, <1>3, <1>4

LEMMA RequeueWrites ==
  ASSUME TypeOK, NEW r \in Requests, Requeue(r), NEW t \in Tickets, t = req[r].t
  PROVE  /\ ticket'[t].status = "PENDING" /\ ticket'[t].tower = ticket[t].tower
         /\ \A u \in Tickets \ {t} : ticket'[u] = ticket[u]
<1>1. ticket[t] \in TicketDoc /\ ticket \in [Tickets -> TicketDoc]
  BY DEF TypeOK
<1>2. ticket' = [ticket EXCEPT ![t] = [ticket[t] EXCEPT !.status = "PENDING"]]
  BY DEF Requeue, Write
<1> QED
  BY <1>1, <1>2 DEF TicketDoc

\* A write that sets neither the status nor the tower of a ticket.
LEMMA PlainWrite ==
  ASSUME TypeOK, NEW t \in Tickets, NEW doc, Write(t, doc),
         doc.status = ticket[t].status, doc.tower = ticket[t].tower
  PROVE  \A u \in Tickets : SameWay(u)
<1>1. \A u \in Tickets : ticket'[u] = IF u = t THEN doc ELSE ticket[u]
  BY DEF Write, TypeOK
<1> QED
  BY <1>1 DEF SameWay


\* The actions that write neither a status, nor a tower, nor a duty, nor a request.
LEMMA QuietSteps ==
  ASSUME TypeOK,
         \/ UNCHANGED vars \/ SlaStep \/ LateStep \/ HoldStep \/ AbortSweep
         \/ \E t \in Tickets :
              Passes(t) \/ Load(t) \/ Receive(t) \/ RefreshEta(t) \/ SetHold(t) \/ ClearHold(t)
  PROVE  /\ UNCHANGED <<onDuty, wish, req, cut, rough, clash>>
         /\ \A t \in Tickets : SameWay(t)
<1>1. CASE UNCHANGED vars \/ ListDue \/ ListLate \/ ListHolds \/ AbortSweep
  BY <1>1 DEF vars, ListDue, ListLate, ListHolds, Listing, AbortSweep, SameWay
<1>2. ASSUME NEW t \in Tickets,
             \/ Passes(t) \/ Load(t) \/ Receive(t) \/ RefreshEta(t) \/ SetHold(t) \/ ClearHold(t)
             \/ Breach(t) \/ Rebroadcast(t) \/ TellLate(t) \/ LiftHold(t)
      PROVE  \E doc : /\ Write(t, doc) /\ UNCHANGED <<onDuty, wish, req, cut, rough, clash>>
                      /\ doc.status = ticket[t].status /\ doc.tower = ticket[t].tower
  <2>1. ticket[t] \in TicketDoc
    BY DEF TypeOK
  <2>2. CASE Passes(t)
    BY <2>1, <2>2 DEF Passes, AcceptByPasses, EtaPasses, HoldPasses, RunsOut, TicketDoc
  <2>3. CASE Load(t) \/ Receive(t) \/ RefreshEta(t) \/ SetHold(t) \/ ClearHold(t)
    BY <2>1, <2>3 DEF Load, Receive, RefreshEta, SetHold, ClearHold, AtOnce, TicketDoc
  <2>4. CASE Breach(t) \/ LiftHold(t)
    BY <2>1, <2>4 DEF Breach, LiftHold, SweepWrites, TicketDoc
  <2>5. CASE Rebroadcast(t)
    <3>1. PICK round : round = ticket[t].round + 1
      OBVIOUS
    <3>2. PICK doc : doc = [ticket[t] EXCEPT !.round = round, !.due = FALSE]
      OBVIOUS
    <3>3. doc.status = ticket[t].status /\ doc.tower = ticket[t].tower
      BY <2>1, <3>2 DEF TicketDoc
    <3>4. Write(t, doc) /\ UNCHANGED <<onDuty, wish, req, cut, rough, clash>>
      BY <2>5, <3>1, <3>2 DEF Rebroadcast, SweepWrites
    <3> QED
      BY <3>3, <3>4
  <2>6. CASE TellLate(t)
    <3>1. PICK eta : eta = IF ticket[t].eta = "none" THEN "none" ELSE "told"
      OBVIOUS
    <3> QED
      BY <2>1, <2>6, <3>1 DEF TellLate, SweepWrites, TicketDoc
  <2> QED
    BY <1>2, <2>2, <2>3, <2>4, <2>5, <2>6
<1> QED
  BY <1>1, <1>2, PlainWrite DEF SlaStep, LateStep, HoldStep

\* The steps of a request that write neither a status nor a tower.
LEMMA QuietWork ==
  ASSUME TypeOK, Placed, NEW r \in Requests,
         OffDuty(r) \/ StampEta(r) \/ Given(r) \/ Quiet(r) \/ Free(r) \/ SetDuty(r) \/ Abort(r)
  PROVE  \A t \in Tickets : SameWay(t)
<1>1. PICK t : t = req[r].t
  OBVIOUS
<1>2. CASE OffDuty(r) \/ Free(r) \/ SetDuty(r) \/ Abort(r)
  BY <1>2 DEF OffDuty, Free, SetDuty, Abort, SameWay
<1>3. CASE StampEta(r) \/ Given(r) \/ Quiet(r)
  <2>1. t \in Tickets
    BY <1>1, <1>3 DEF StampEta, Given, Quiet, Placed, Shaped, At
  <2>2. ticket[t] \in TicketDoc
    BY <2>1 DEF TypeOK
  <2>3. UNCHANGED ticket \/ \E doc : Write(t, doc) /\ doc.status = ticket[t].status
                                                  /\ doc.tower = ticket[t].tower
    BY <1>1, <1>3, <2>2 DEF StampEta, Given, Quiet, TicketDoc
  <2> QED
    BY <2>1, <2>3, PlainWrite DEF SameWay
<1> QED
  BY <1>2, <1>3

\* What a request that begins finds, and how it is entered.
Enters(r, doc) ==
  /\ At(r, "idle") /\ doc \in RequestDoc /\ Shaped(doc)
  /\ req' = [req EXCEPT ![r] = doc]
  /\ rough' = (IF doc.w = None \/ About(doc.w) = {} THEN rough ELSE rough \union {doc.w})
  /\ UNCHANGED <<ticket, onDuty, wish, cut>>

\* A request that is to decide on a ticket has read it.
LEMMA AskEnters ==
  ASSUME TypeOK, NEW r \in Requests, NEW t \in Tickets, Ask(r, t)
  PROVE  \E doc :
           /\ Enters(r, doc) /\ doc.t = t /\ ~Is(t, {"NONE"})
           /\ \/ /\ doc.pc = "claim" /\ Is(t, {"PENDING"}) /\ UNCHANGED clash
                 /\ onDuty[doc.w] /\ JobsOf(doc.w) = {}
              \/ /\ doc.pc \in {"status", "release"} /\ doc.w = ticket[t].tower
                 /\ Holds(doc)
                 /\ clash' = IF Deciding(t) = {} THEN clash ELSE clash \union {t}
<1> DEFINE Reads(doc) ==
      /\ doc.pc \in {"status", "release"} /\ doc.w = ticket[t].tower
      /\ Holds(doc)
<1> DEFINE Begun(doc) ==
      /\ doc.t = t /\ ~Is(t, {"NONE"}) /\ Reads(doc) /\ doc \in RequestDoc /\ Shaped(doc)
      /\ Begin(r, doc)
<1>1. ticket[t].tower \in Towers \union {None}
  BY DEF TypeOK, TicketDoc
<1>2. ASSUME NEW w \in Towers, AcceptRead(r, t, w)
      PROVE  \E doc :
               /\ Enters(r, doc) /\ doc.t = t /\ ~Is(t, {"NONE"})
               /\ doc.pc = "claim" /\ Is(t, {"PENDING"}) /\ UNCHANGED clash
               /\ onDuty[doc.w] /\ JobsOf(doc.w) = {}
  <2>1. PICK doc : doc = [kind |-> "accept", pc |-> "claim", t |-> t, w |-> w, put |-> "NONE"]
    OBVIOUS
  <2>2. doc \in RequestDoc /\ Shaped(doc) /\ doc.t = t /\ doc.w = w /\ doc.pc = "claim"
    BY <2>1 DEF RequestDoc, Kinds, Points, Statuses, Shaped
  <2>3. Enters(r, doc)
    BY <1>2, <2>1, <2>2 DEF AcceptRead, Enters, Joins
  <2> QED
    BY <1>2, <2>2, <2>3 DEF AcceptRead, Is
<1>3. CASE ArriveRead(r, t)
  <2>1. PICK doc : doc = [kind |-> "arrive", pc |-> "status", t |-> t, w |-> ticket[t].tower,
                          put |-> "ARRIVED"]
    OBVIOUS
  <2>2. doc \in RequestDoc /\ Shaped(doc) /\ doc.t = t /\ doc.w = ticket[t].tower
    BY <1>1, <2>1 DEF RequestDoc, Kinds, Points, Statuses, Shaped, Engaged
  <2>3. Is(t, {"MATCHED"}) /\ ticket[t].tower # None
    BY <1>3 DEF ArriveRead, May, TowerMay, Engaged, Is
  <2>4. Begin(r, doc) /\ Reads(doc) /\ ~Is(t, {"NONE"})
    BY <1>3, <2>1, <2>3 DEF ArriveRead, Holds, Is, Engaged
  <2>5. Begun(doc)
    BY <2>2, <2>4
  <2> QED
    BY <2>5 DEF Enters, Begin, Joins
<1>4. CASE DeliverRead(r, t)
  <2>1. PICK doc : doc = [kind |-> "deliver", pc |-> "status", t |-> t, w |-> ticket[t].tower,
                          put |-> "RESOLVED"]
    OBVIOUS
  <2>2. doc \in RequestDoc /\ Shaped(doc) /\ doc.t = t /\ doc.w = ticket[t].tower
    BY <1>1, <2>1 DEF RequestDoc, Kinds, Points, Statuses, Shaped, Terminal
  <2>3. Is(t, {"ARRIVED"}) /\ ticket[t].tower # None
    BY <1>4 DEF DeliverRead, May, TowerMay, Engaged, Is
  <2>4. Begin(r, doc) /\ Reads(doc) /\ ~Is(t, {"NONE"})
    BY <1>4, <2>1, <2>3 DEF DeliverRead, Holds, Is, Engaged
  <2>5. Begun(doc)
    BY <2>2, <2>4
  <2> QED
    BY <2>5 DEF Enters, Begin, Joins
<1>5. CASE CancelRead(r, t)
  <2>1. PICK doc : doc = [kind |-> "cancel", pc |-> "status", t |-> t, w |-> ticket[t].tower,
                          put |-> "CANCELLED"]
    OBVIOUS
  <2>2. doc \in RequestDoc /\ Shaped(doc) /\ doc.t = t /\ doc.w = ticket[t].tower
    BY <1>1, <2>1 DEF RequestDoc, Kinds, Points, Statuses, Shaped, Terminal
  <2>3. Is(t, Engaged \union {"PENDING"})
    BY <1>5 DEF CancelRead, May, RiderMay, Engaged, Is
  <2>4. Begin(r, doc) /\ Reads(doc) /\ ~Is(t, {"NONE"})
    BY <1>5, <2>1, <2>3 DEF CancelRead, Holds, Is, Engaged
  <2>5. Begun(doc)
    BY <2>2, <2>4
  <2> QED
    BY <2>5 DEF Enters, Begin, Joins
<1>6. ASSUME NEW how \in {"giveup", "rematch"}, GiveUpRead(r, t, how)
      PROVE  \E doc : Begun(doc)
  <2>1. PICK doc : doc = [kind |-> how, pc |-> "release", t |-> t, w |-> ticket[t].tower,
                          put |-> "PENDING"]
    OBVIOUS
  <2>2. doc \in RequestDoc /\ Shaped(doc) /\ doc.t = t /\ doc.w = ticket[t].tower
    BY <1>1, <2>1 DEF RequestDoc, Kinds, Points, Statuses, Shaped
  <2>3. Is(t, Engaged) /\ ticket[t].tower # None
    BY <1>6 DEF GiveUpRead, May, TowerMay, Engaged, Is
  <2>4. Begin(r, doc) /\ Reads(doc) /\ ~Is(t, {"NONE"})
    BY <1>6, <2>1, <2>3 DEF GiveUpRead, Holds, Is, Engaged
  <2> QED
    BY <2>2, <2>4
<1>7. ASSUME NEW doc, Begun(doc)
      PROVE  Enters(r, doc) /\ clash' = IF Deciding(t) = {} THEN clash ELSE clash \union {t}
  BY <1>7 DEF Enters, Begin, Joins
<1> QED
  BY <1>2, <1>3, <1>4, <1>5, <1>6, <1>7 DEF Ask

-----------------------------------------------------------------------------
(* What a step leaves alone.                                               *)

LEMMA TicketAside ==
  ASSUME NEW t \in Tickets, TicketInv(t), SameWay(t), t \in cut => t \in cut',
         Deciding(t)' \subseteq Deciding(t), t \in cut' \/ Deciding(t)' = Deciding(t),
         \A s \in Deciding(t)' : req'[s] = req[s]
  PROVE  TicketInv(t)'
<1>1. \A s \in Deciding(t)' : Holds(req[s])'
  <2> SUFFICES ASSUME NEW s \in Deciding(t)' PROVE Holds(req[s])'
    OBVIOUS
  <2>1. Holds(req[s]) /\ req'[s] = req[s] /\ req[s].t = t
    BY DEF TicketInv, Deciding
  <2> QED
    BY <2>1 DEF Holds, SameWay, Is
<1>2. \A r, s \in Deciding(t)' : r = s
  BY DEF TicketInv
<1>3. Is(t, {"NONE", "PENDING"})' => ticket'[t].tower = None
  BY DEF TicketInv, SameWay, Is
<1>4. t \notin cut' /\ Is(t, Engaged)' /\ ticket'[t].tower = None =>
        \E r \in Deciding(t)' : At(r, "requeue")'
  BY DEF TicketInv, SameWay, Is, At
<1> QED
  BY <1>1, <1>2, <1>3, <1>4 DEF TicketInv

LEMMA TowerAside ==
  ASSUME Placed, NEW w \in Towers, TowerInv(w),
         onDuty'[w] = onDuty[w], wish'[w] = wish[w], w \in cut' <=> w \in cut,
         \A s \in Requests : req[s].w = w \/ req'[s].w = w => req'[s] = req[s],
         \A t \in Tickets : ticket[t].tower = w \/ ticket'[t].tower = w =>
                              SameWay(t) /\ Deciding(t)' \subseteq Deciding(t)
  PROVE  TowerInv(w)'
<1>1. About(w)' = About(w) /\ \A s \in About(w) : req'[s] = req[s] /\ s \in Requests
  BY DEF About
<1>2. JobsOf(w)' = JobsOf(w)
  BY DEF JobsOf, Is, SameWay
<1>3. ASSUME NEW t \in Tickets, ticket'[t].tower = w
      PROVE  ~Is(t, {"NONE", "PENDING"})' /\ Deciding(t)' \subseteq About(w)'
  BY <1>1, <1>3 DEF TowerInv, SameWay, Is
<1>4. ASSUME NEW s \in About(w)
      PROVE  OnItsWay(s, w)'
  <2>1. OnItsWay(s, w) /\ req'[s] = req[s] /\ s \in Requests /\ Shaped(req[s])
    BY <1>1 DEF TowerInv, Placed
  <2>2. At(s, "requeue") => ticket'[req[s].t].tower # w
    BY <2>1 DEF OnItsWay, Shaped, At, SameWay
  <2> QED
    BY <1>2, <2>1, <2>2 DEF OnItsWay, At
<1> QED
  BY <1>1, <1>2, <1>3, <1>4 DEF TowerInv

\* A request begins: of its ticket, and of its tower, it is the only one, or no more
\* is said of them.
LEMMA EnterKeeps ==
  ASSUME IInv, NEW r \in Requests, NEW doc, Enters(r, doc),
         \/ /\ doc.pc = "claim" /\ onDuty[doc.w] /\ JobsOf(doc.w) = {} /\ UNCHANGED clash
            /\ ~Is(doc.t, {"NONE"})
         \/ doc.pc = "switch" /\ JobsOf(doc.w) = {} /\ UNCHANGED clash
         \/ /\ doc.pc \in {"status", "release"} /\ ~Is(doc.t, {"NONE"})
            /\ doc.w = ticket[doc.t].tower /\ Holds(doc)
            /\ clash' = (IF Deciding(doc.t) = {} THEN clash ELSE clash \union {doc.t})
  PROVE  Good'
<1>1. /\ \A s \in Requests : req'[s] = IF s = r THEN doc ELSE req[s]
      /\ req[r] = Idle /\ UNCHANGED <<ticket, onDuty, wish, cut>>
  BY DEF Enters, IInv, Placed, Shaped, At, TypeOK
<1>2. None \notin Tickets /\ None \notin Towers
  BY DispatchAssumption
<1>3. \A u \in Tickets : SameWay(u)
  BY <1>1 DEF SameWay
<1>4. Filed'
  BY <1>1, <1>2 DEF Filed, IInv, Good, Is, Enters, Shaped
<1>5. ASSUME NEW u \in Tickets \ clash'
      PROVE  TicketInv(u)'
  <2>1. TicketInv(u)
    BY <1>5 DEF IInv, Good
  <2>2. CASE u = doc.t /\ doc.pc \in {"status", "release"}
    <3>1. Deciding(u) = {} /\ Deciding(u)' = {r} /\ Holds(doc)
      BY <1>1, <1>5, <2>2 DEF Deciding, Idle
    <3>2. \A s \in Deciding(u)' : Holds(req[s])'
      BY <1>1, <3>1 DEF Holds, Is
    <3> QED
      BY <1>1, <2>1, <3>1, <3>2 DEF TicketInv, Is
  <2>3. CASE ~(u = doc.t /\ doc.pc \in {"status", "release"})
    <3>1. doc.pc \in {"claim", "switch", "status", "release"}
      OBVIOUS
    <3>2. Deciding(u)' = Deciding(u) /\ \A s \in Deciding(u) : req'[s] = req[s]
      BY <1>1, <2>3, <3>1 DEF Deciding, Idle
    <3> QED
      BY <1>1, <1>3, <2>1, <3>2, TicketAside
  <2> QED
    BY <2>2, <2>3
<1>6. ASSUME NEW x \in Towers \ rough'
      PROVE  TowerInv(x)'
  <2>1. TowerInv(x)
    BY <1>6 DEF IInv, Good, Enters
  <2>2. CASE x # doc.w
    <3>1. \A s \in Requests : req[s].w = x \/ req'[s].w = x => req'[s] = req[s]
      BY <1>1, <1>2, <2>2 DEF Idle
    <3>2. \A u \in Tickets : ticket[u].tower = x => Deciding(u)' \subseteq Deciding(u)
      BY <1>1, <2>2 DEF Deciding
    <3> QED
      BY <1>1, <1>3, <2>1, <3>1, <3>2, TowerAside DEF IInv, SameWay
  <2>3. CASE x = doc.w
    <3>1. About(x) = {} /\ About(x)' = {r}
      BY <1>1, <1>2, <1>6, <2>3 DEF About, Enters, Idle
    <3>2. JobsOf(x)' = JobsOf(x)
      BY <1>1 DEF JobsOf, Is
    <3>3. \A u \in Tickets : ticket[u].tower = x => Deciding(u)' \subseteq About(x)'
      BY <1>1, <2>1, <3>1 DEF TowerInv, Deciding
    <3>4. doc.pc \in {"status", "release"} => doc.t \in JobsOf(x)
      <4> SUFFICES ASSUME doc.pc \in {"status", "release"} PROVE doc.t \in JobsOf(x)
        OBVIOUS
      <4>1. doc.t \in Tickets /\ ticket[doc.t].tower = x /\ Holds(doc)
        BY <2>3 DEF Enters, Shaped
      <4>2. ~Is(doc.t, {"PENDING"})
        BY <2>1, <4>1 DEF TowerInv, Is
      <4> QED
        BY <4>1, <4>2 DEF Holds, JobsOf, Is, Engaged
    <3>5. OnItsWay(r, x)'
      <4>1. doc.pc = "claim" => JobsOf(x) = {} /\ onDuty[x] /\ wish[x]
        BY <2>1, <2>3 DEF TowerInv
      <4>2. doc.pc = "switch" => JobsOf(x) = {}
        BY <2>3
      <4>3. doc.pc \in {"status", "release"} => wish[x] /\ (x \notin cut => ~onDuty[x])
        BY <2>1, <3>1, <3>4 DEF TowerInv
      <4>4. doc.pc \in {"claim", "switch", "status", "release"}
        OBVIOUS
      <4> QED
        BY <1>1, <3>2, <3>4, <4>1, <4>2, <4>3, <4>4 DEF OnItsWay, At
    <3> QED
      BY <1>1, <2>1, <3>1, <3>2, <3>3, <3>5 DEF TowerInv, Is
  <2> QED
    BY <2>2, <2>3
<1> QED
  BY <1>4, <1>5, <1>6 DEF Good

LEMMA Moving ==
  ASSUME TypeOK, NEW r \in Requests
  PROVE  /\ Done(r) => /\ \A s \in Requests : req'[s] = IF s = r THEN Idle ELSE req[s]
         /\ \A pc \in Points :
              Goto(r, pc) => \A s \in Requests :
                /\ s # r => req'[s] = req[s]
                /\ s = r => /\ req'[s].pc = pc /\ req'[s].t = req[s].t
                            /\ req'[s].w = req[s].w /\ req'[s].kind = req[s].kind
BY DEF Done, Goto, TypeOK, RequestDoc

\* Tickets and towers that the step of r is not about.
Elsewhere(r) ==
  /\ \A u \in Tickets \ {req[r].t} : SameWay(u) /\ (u \in cut => u \in cut')
  /\ \A x \in Towers \ {req[r].w} :
       onDuty'[x] = onDuty[x] /\ wish'[x] = wish[x] /\ (x \in cut' <=> x \in cut)
  /\ clash \subseteq clash' /\ rough \subseteq rough'
  /\ \A u \in Tickets : ~Is(u, {"NONE"}) => ~Is(u, {"NONE"})'

\* A request ends or moves on, and decides on a ticket only if it did before.
Goes(r) ==
  /\ \A s \in Requests : s # r => req'[s] = req[s]
  /\ \/ req'[r] = Idle
     \/ /\ req'[r].t = req[r].t /\ req'[r].w = req[r].w
        /\ req'[r].pc \in {"status", "release", "requeue"} =>
             req[r].pc \in {"status", "release", "requeue"}

LEMMA ElsewhereKeeps ==
  ASSUME IInv, NEW r \in Requests, Goes(r), Elsewhere(r),
         \A t \in Tickets : t = req[r].t =>
            \A x \in Towers \ (rough' \union {req[r].w}) :
              ticket[t].tower = x \/ ticket'[t].tower = x => SameWay(t)
  PROVE  /\ Filed'
         /\ \A u \in Tickets \ clash' : u # req[r].t => TicketInv(u)'
         /\ \A x \in Towers \ rough' : x # req[r].w => TowerInv(x)'
<1>1. None \notin Tickets /\ None \notin Towers
  BY DispatchAssumption
<1>2. Filed'
  <2>1. ASSUME NEW s \in Requests, NEW u \in Tickets, req'[s].t = u
        PROVE  ticket'[u].status # "NONE"
    <3>1. req[s].t = u
      BY <1>1, <2>1 DEF Goes, Idle
    <3>2. ticket[u].status # "NONE"
      BY <3>1 DEF IInv, Good, Filed, Is
    <3> QED
      BY <3>2 DEF Elsewhere, Is
  <2> QED
    BY <2>1 DEF Filed, Is
<1>3. ASSUME NEW u \in Tickets \ clash', u # req[r].t
      PROVE  TicketInv(u)'
  <2>1. Deciding(u)' = Deciding(u) /\ \A s \in Deciding(u) : req'[s] = req[s]
    BY <1>1, <1>3 DEF Deciding, Goes, Idle
  <2>2. TicketInv(u) /\ SameWay(u) /\ (u \in cut => u \in cut')
    BY <1>3 DEF IInv, Good, Elsewhere
  <2> QED
    BY <2>1, <2>2, TicketAside
<1>4. ASSUME NEW x \in Towers \ rough', x # req[r].w
      PROVE  TowerInv(x)'
  <2>1. \A s \in Requests : req[s].w = x \/ req'[s].w = x => req'[s] = req[s]
    BY <1>1, <1>4 DEF Goes, Idle
  <2>2. \A u \in Tickets : Deciding(u)' \subseteq Deciding(u)
    BY <1>1 DEF Deciding, Goes, Idle
  <2>3. \A u \in Tickets : ticket[u].tower = x \/ ticket'[u].tower = x => SameWay(u)
    BY <1>4 DEF Elsewhere
  <2>4. /\ TowerInv(x) /\ onDuty'[x] = onDuty[x] /\ wish'[x] = wish[x]
        /\ x \in cut' <=> x \in cut
    BY <1>4 DEF IInv, Good, Elsewhere
  <2> QED
    BY <2>1, <2>2, <2>3, <2>4, TowerAside DEF IInv
<1> QED
  BY <1>2, <1>3, <1>4

\* The tower the step of r is about.
LEMMA OwnTower ==
  ASSUME TypeOK, NEW r \in Requests, NEW w \in Towers, w = req[r].w, TowerInv(w), Goes(r),
         \A u \in Tickets : ticket'[u].tower = w =>
            /\ ~Is(u, {"NONE", "PENDING"})'
            /\ ticket[u].tower = w \/ Deciding(u) = {},
         \A t, u \in JobsOf(w)' : t = u,
         onDuty'[w] => wish'[w], JobsOf(w)' # {} => wish'[w],
         \/ /\ req'[r] = Idle
            /\ w \notin cut' => (onDuty'[w] <=> wish'[w] /\ JobsOf(w)' = {})
         \/ req'[r] # Idle /\ OnItsWay(r, w)'
  PROVE  TowerInv(w)'
<1>1. None \notin Tickets /\ None \notin Towers
  BY DispatchAssumption
<1>2. About(w) = {r}
  BY DEF TowerInv, About
<1>3. About(w)' = IF req'[r] = Idle THEN {} ELSE {r}
  BY <1>1, <1>2 DEF About, Goes, Idle
<1>4. \A u \in Tickets : Deciding(u)' = IF req'[r] = Idle THEN Deciding(u) \ {r} ELSE Deciding(u)'
  BY <1>1 DEF Deciding, Goes, Idle
<1>5. \A u \in Tickets : Deciding(u)' \subseteq Deciding(u)
  BY <1>1 DEF Deciding, Goes, Idle
<1>6. ASSUME NEW u \in Tickets, ticket'[u].tower = w
      PROVE  Deciding(u)' \subseteq About(w)'
  <2>1. Deciding(u) \subseteq {r}
    BY <1>2, <1>6 DEF TowerInv
  <2> QED
    BY <1>3, <1>4, <1>5, <2>1
<1> QED
  BY <1>3, <1>6 DEF TowerInv

-----------------------------------------------------------------------------
(* The steps of a request.                                                 *)

LEMMA ClaimKeeps ==
  ASSUME IInv, NEW r \in Requests, Claim(r)
  PROVE  Good'
<1>1. PICK t, w : t = req[r].t /\ w = req[r].w
  OBVIOUS
<1>2. /\ TypeOK /\ t \in Tickets /\ w \in Towers /\ w # None /\ req[r].pc = "claim"
      /\ UNCHANGED <<onDuty, wish, cut, clash>>
  BY <1>1, DispatchAssumption DEF IInv, Placed, Shaped, Claim, At
<1>3. CASE ~Is(t, {"PENDING"})
  <2>1. UNCHANGED <<ticket, rough>> /\ Done(r)
    BY <1>1, <1>3 DEF Claim
  <2>2. Goes(r) /\ req'[r] = Idle
    BY <1>2, <2>1, Moving DEF Goes
  <2>3. \A u \in Tickets : SameWay(u)
    BY <2>1 DEF SameWay
  <2>4. Elsewhere(r)
    BY <1>2, <2>1, <2>3 DEF Elsewhere, SameWay, Is
  <2>5. TicketInv(t)' \/ t \in clash'
    <3>1. Deciding(t)' = Deciding(t) /\ \A s \in Deciding(t) : req'[s] = req[s]
      BY <1>1, <1>2, <2>2, DispatchAssumption DEF Deciding, Goes, Idle
    <3> QED
      BY <1>2, <2>3, <3>1, TicketAside DEF IInv, Good
  <2>6. TowerInv(w)' \/ w \in rough'
    <3> SUFFICES ASSUME w \notin rough PROVE TowerInv(w)'
      BY <2>1
    <3>1. TowerInv(w) /\ OnItsWay(r, w)
      BY <1>1, <1>2 DEF IInv, Good, TowerInv, About
    <3>2. JobsOf(w)' = JobsOf(w) /\ JobsOf(w) = {} /\ wish[w] /\ (w \notin cut => onDuty[w])
      BY <1>2, <2>1, <3>1 DEF JobsOf, Is, OnItsWay, At
    <3> QED
      BY <1>1, <1>2, <2>1, <2>2, <3>1, <3>2, OwnTower DEF TowerInv, Is
  <2> QED
    BY <1>1, <2>2, <2>3, <2>4, <2>5, <2>6, ElsewhereKeeps DEF Good
<1>4. CASE Is(t, {"PENDING"})
  <2>1. /\ Goto(r, "offduty")
        /\ rough' = IF Deciding(t) = {} THEN rough ELSE rough \union {w}
    BY <1>1, <1>4 DEF Claim, Take
  <2>2. /\ Goes(r) /\ req'[r] # Idle /\ req'[r].pc = "offduty"
        /\ req'[r].t = t /\ req'[r].w = w
    BY <1>1, <1>2, <2>1, Moving DEF Goes, Points, Idle
  <2>3. /\ ticket'[t].status = "MATCHED" /\ ticket'[t].tower = w
        /\ \A u \in Tickets \ {t} : ticket'[u] = ticket[u]
    BY <1>1, <1>2, <1>4, ClaimWrites
  <2>4. Elsewhere(r)
    BY <1>1, <1>2, <2>1, <2>3 DEF Elsewhere, SameWay, Is
  <2>5. \A u \in Tickets : Deciding(u)' = Deciding(u) /\ \A s \in Deciding(u) : req'[s] = req[s]
    BY <1>2, <2>2 DEF Deciding, Goes
  <2>6. TicketInv(t)' \/ t \in clash'
    <3> SUFFICES ASSUME TicketInv(t) PROVE TicketInv(t)'
      BY <1>2 DEF IInv, Good
    <3>1. \A s \in Deciding(t) : Holds(req[s])'
      <4> SUFFICES ASSUME NEW s \in Deciding(t) PROVE Holds(req[s])'
        OBVIOUS
      <4>1. Holds(req[s]) /\ req[s].t = t /\ req'[s] = req[s]
        BY <1>2, <2>5 DEF TicketInv, Deciding
      <4>2. req[s].pc = "status" /\ req[s].kind \notin {"arrive", "deliver"}
        BY <1>4, <4>1 DEF Holds, Is, Engaged, Deciding
      <4> QED
        BY <2>3, <4>1, <4>2 DEF Holds, Is, Engaged
    <3> QED
      BY <1>2, <2>3, <2>5, <3>1 DEF TicketInv, Is
  <2>7. TowerInv(w)' \/ w \in rough'
    <3> SUFFICES ASSUME w \notin rough' PROVE TowerInv(w)'
      OBVIOUS
    <3>1. w \notin rough /\ Deciding(t) = {}
      BY <2>1
    <3>2. TowerInv(w) /\ OnItsWay(r, w)
      BY <1>1, <1>2, <3>1 DEF IInv, Good, TowerInv, About
    <3>3. JobsOf(w) = {} /\ wish[w]
      BY <1>2, <3>2 DEF OnItsWay, At
    <3>4. JobsOf(w)' = {t}
      <4>1. t \in JobsOf(w)'
        BY <1>2, <2>3 DEF JobsOf, Is, Engaged
      <4>2. ASSUME NEW u \in Tickets \ {t}
            PROVE  ~(ticket'[u].tower = w /\ ticket'[u].status \in Engaged)
        BY <2>3, <3>3 DEF JobsOf, Is
      <4> QED
        BY <4>1, <4>2 DEF JobsOf, Is
    <3>5. OnItsWay(r, w)'
      BY <1>2, <2>2, <3>3, <3>4 DEF OnItsWay, At
    <3>6. \A u \in Tickets : ticket'[u].tower = w =>
             /\ ~Is(u, {"NONE", "PENDING"})'
             /\ ticket[u].tower = w \/ Deciding(u) = {}
      BY <2>3, <3>1, <3>2 DEF TowerInv, Is
    <3> QED
      BY <1>1, <1>2, <2>2, <3>2, <3>3, <3>4, <3>5, <3>6, OwnTower DEF TowerInv
  <2>8. \A x \in Towers \ (rough' \union {w}) : ticket[t].tower # x /\ ticket'[t].tower # x
    <3> SUFFICES ASSUME NEW x \in Towers \ (rough' \union {w}) PROVE ticket[t].tower # x
      BY <2>3
    <3>1. TowerInv(x)
      BY <2>1 DEF IInv, Good
    <3> QED
      BY <1>2, <1>4, <3>1 DEF TowerInv, Is
  <2> QED
    BY <1>1, <2>2, <2>4, <2>6, <2>7, <2>8, ElsewhereKeeps DEF Good
<1> QED
  BY <1>3, <1>4

\* Between the claim and the status, and after it: neither a status nor a tower is
\* written, and no request takes up a decision.
LEMMA SteadyKeeps ==
  ASSUME IInv, NEW r \in Requests, Goes(r), Elsewhere(r), \A u \in Tickets : SameWay(u),
         req[r].pc \in {"status", "release", "requeue"} => req'[r] = Idle /\ req[r].t \in cut',
         req[r].t \in cut => req[r].t \in cut',
         \A w \in Towers \ rough' : w = req[r].w => TowerInv(w)'
  PROVE  Good'
<1>1. PICK t : t = req[r].t
  OBVIOUS
<1>2. ASSUME t \in Tickets \ clash'
      PROVE  TicketInv(t)'
  <2>1. Deciding(t)' \subseteq Deciding(t) /\ (t \in cut' \/ Deciding(t)' = Deciding(t))
    BY <1>1, <1>2, DispatchAssumption DEF Deciding, Goes, Idle
  <2>2. \A s \in Deciding(t)' : s # r => req'[s] = req[s]
    BY DEF Deciding, Goes
  <2>3. req'[r] = Idle \/ req[r].pc \notin {"status", "release", "requeue"} => r \notin Deciding(t)'
    BY <1>2, DispatchAssumption DEF Deciding, Goes, Idle
  <2>4. TicketInv(t)
    BY <1>2 DEF IInv, Good, Elsewhere
  <2> QED
    BY <1>1, <1>2, <2>1, <2>2, <2>3, <2>4, TicketAside
<1> QED
  BY <1>1, <1>2, ElsewhereKeeps DEF Good

LEMMA RestKeeps ==
  ASSUME IInv, NEW r \in Requests,
         OffDuty(r) \/ StampEta(r) \/ Given(r) \/ Quiet(r) \/ Free(r) \/ SetDuty(r) \/ Abort(r)
  PROVE  Good'
<1>1. PICK t, w : t = req[r].t /\ w = req[r].w
  OBVIOUS
<1>2. /\ TypeOK /\ Placed /\ t \in Tickets \union {None} /\ w \in Towers \union {None}
      /\ Shaped(req[r]) /\ req[r].pc # "idle"
      /\ \A u \in Tickets : SameWay(u)
  <2>1. t \in Tickets \union {None} /\ w \in Towers \union {None}
    BY <1>1 DEF IInv, TypeOK, RequestDoc
  <2>2. req[r].pc # "idle"
    BY DEF OffDuty, StampEta, Given, Quiet, Free, SetDuty, Abort, At
  <2> QED
    BY <2>1, <2>2, QuietWork DEF IInv, Placed
<1>3. Goes(r)
  <2>1. Done(r) => Goes(r)
    BY <1>2, Moving DEF Goes
  <2>2. \A pc \in Points : Goto(r, pc) /\ pc \notin {"status", "release", "requeue"} => Goes(r)
    BY <1>2, Moving DEF Goes
  <2> QED
    BY <2>1, <2>2 DEF OffDuty, StampEta, Given, Quiet, Free, SetDuty, Abort, Points
<1>4. Elsewhere(r)
  <2>1. \A u \in Tickets \ {t} : u \in cut => u \in cut'
    BY <1>1, <1>2, DispatchAssumption
       DEF OffDuty, StampEta, Given, Quiet, Free, SetDuty, Abort, OnlyTicket
  <2>2. \A x \in Towers \ {w} : /\ onDuty'[x] = onDuty[x] /\ wish'[x] = wish[x]
                                /\ x \in cut' <=> x \in cut
    <3> SUFFICES ASSUME NEW x \in Towers \ {w}
                 PROVE  /\ onDuty'[x] = onDuty[x] /\ wish'[x] = wish[x]
                        /\ x \in cut' <=> x \in cut
      OBVIOUS
    <3>1. x # t
      BY <1>2, DispatchAssumption
    <3>2. CASE Abort(r)
      BY <1>1, <3>1, <3>2 DEF Abort
    <3>3. CASE OffDuty(r) \/ Free(r) \/ SetDuty(r)
      BY <1>1, <1>2, <3>3 DEF OffDuty, Free, SetDuty, Switch, TypeOK
    <3>4. CASE StampEta(r) \/ Given(r) \/ Quiet(r)
      BY <3>4 DEF StampEta, Given, Quiet, OnlyTicket
    <3> QED
      BY <3>2, <3>3, <3>4
  <2>3. UNCHANGED <<clash, rough>>
    BY DEF OffDuty, StampEta, Given, Quiet, Free, SetDuty, Abort, OnlyTicket
  <2> QED
    BY <1>1, <1>2, <2>1, <2>2, <2>3 DEF Elsewhere, SameWay, Is
<1>5. req[r].pc \in {"status", "release", "requeue"} => req'[r] = Idle /\ t \in cut'
  <2> SUFFICES ASSUME req[r].pc \in {"status", "release", "requeue"}
               PROVE  req'[r] = Idle /\ t \in cut'
    OBVIOUS
  <2>1. Abort(r) /\ t \in Tickets
    BY <1>1, <1>2 DEF OffDuty, StampEta, Given, Quiet, Free, SetDuty, Shaped, At
  <2> QED
    BY <1>1, <1>2, <2>1, Moving, DispatchAssumption DEF Abort
<1>6. t \in cut => t \in cut' \/ t \notin Tickets
  BY <1>1, <1>2, DispatchAssumption
     DEF OffDuty, StampEta, Given, Quiet, Free, SetDuty, Abort, OnlyTicket
<1>7. ASSUME w \in Towers \ rough'
      PROVE  TowerInv(w)'
  <2>1. TowerInv(w) /\ OnItsWay(r, w)
    BY <1>1, <1>4, <1>7 DEF IInv, Good, TowerInv, About, Elsewhere
  <2>2. JobsOf(w)' = JobsOf(w)
    BY <1>2 DEF JobsOf, SameWay, Is
  <2>3. /\ \A u \in Tickets : ticket'[u].tower = w => ticket[u].tower = w /\ ~Is(u, {"NONE", "PENDING"})'
        /\ \A x, u \in JobsOf(w)' : x = u
    BY <1>2, <2>1, <2>2 DEF TowerInv, SameWay, Is
  <2>4. /\ onDuty'[w] => wish'[w]
        /\ JobsOf(w)' # {} => wish'[w]
    <3>1. CASE OffDuty(r) \/ Free(r)
      BY <1>1, <1>2, <1>7, <2>1, <2>2, <3>1
         DEF OffDuty, Free, Switch, TypeOK, TowerInv, OnItsWay, At
    <3>2. CASE SetDuty(r)
      BY <1>1, <1>2, <1>7, <2>1, <2>2, <3>2 DEF SetDuty, Switch, TypeOK, OnItsWay, At
    <3>3. CASE StampEta(r) \/ Given(r) \/ Quiet(r) \/ Abort(r)
      BY <2>1, <2>2, <3>3 DEF StampEta, Given, Quiet, Abort, OnlyTicket, TowerInv
    <3> QED
      BY <3>1, <3>2, <3>3
  <2>5. \/ /\ req'[r] = Idle
           /\ w \notin cut' => (onDuty'[w] <=> wish'[w] /\ JobsOf(w)' = {})
        \/ req'[r] # Idle /\ OnItsWay(r, w)'
    <3>1. CASE OffDuty(r)
      <4>1. req'[r].pc = "eta" /\ req'[r].t = t /\ req'[r] # Idle
        BY <1>1, <1>2, <3>1, Moving DEF OffDuty, Points, Idle
      <4>2. ~onDuty'[w] /\ UNCHANGED wish /\ wish[w] /\ t \in JobsOf(w)
        BY <1>1, <1>2, <1>7, <2>1, <3>1 DEF OffDuty, Switch, TypeOK, OnItsWay, At
      <4> QED
        BY <2>2, <4>1, <4>2 DEF OnItsWay, At
    <3>2. CASE StampEta(r)
      <4>1. req'[r] = Idle /\ UNCHANGED <<onDuty, wish, cut>>
        BY <1>2, <3>2, Moving DEF StampEta, OnlyTicket
      <4>2. JobsOf(w) # {} /\ (w \notin cut => ~onDuty[w])
        BY <1>1, <2>1, <3>2 DEF StampEta, OnItsWay, At
      <4> QED
        BY <2>2, <4>1, <4>2
    <3>3. CASE Given(r) \/ Quiet(r)
      <4>1. w # None
        BY <1>7, DispatchAssumption
      <4>2. req'[r].pc \in {"quiet", "free"} /\ req'[r] # Idle /\ UNCHANGED wish
        BY <1>1, <1>2, <3>3, <4>1, Moving DEF Given, Quiet, OnlyTicket, Points, Idle
      <4>3. wish[w] /\ JobsOf(w) = {}
        BY <1>1, <2>1, <3>3 DEF Given, Quiet, OnItsWay, At
      <4> QED
        BY <2>2, <4>2, <4>3 DEF OnItsWay, At
    <3>4. CASE Free(r)
      <4>1. req'[r] = Idle /\ onDuty'[w] /\ UNCHANGED wish
        BY <1>1, <1>2, <1>7, <3>4, Moving DEF Free, Switch, TypeOK
      <4>2. wish[w] /\ JobsOf(w) = {}
        BY <1>1, <2>1, <3>4 DEF Free, OnItsWay, At
      <4> QED
        BY <2>2, <4>1, <4>2
    <3>5. CASE SetDuty(r)
      <4>1. req'[r] = Idle /\ onDuty'[w] = wish'[w]
        BY <1>1, <1>2, <1>7, <3>5, Moving DEF SetDuty, Switch, TypeOK
      <4>2. JobsOf(w) = {}
        BY <1>1, <2>1, <3>5 DEF SetDuty, OnItsWay, At
      <4> QED
        BY <2>2, <4>1, <4>2
    <3>6. CASE Abort(r)
      <4>1. req'[r] = Idle /\ w \in cut'
        BY <1>1, <1>2, <1>7, <3>6, Moving, DispatchAssumption DEF Abort
      <4> QED
        BY <4>1
    <3> QED
      BY <3>1, <3>2, <3>3, <3>4, <3>5, <3>6
  <2> QED
    BY <1>1, <1>2, <1>3, <1>7, <2>1, <2>3, <2>4, <2>5, OwnTower
<1>8. CASE t \in Tickets
  BY <1>1, <1>2, <1>3, <1>4, <1>5, <1>6, <1>7, <1>8, SteadyKeeps
<1>9. CASE t = None
  <2>1. \A u \in Tickets : u # t
    BY <1>9, DispatchAssumption
  <2>2. /\ Filed'
        /\ \A u \in Tickets \ clash' : TicketInv(u)'
        /\ \A x \in Towers \ rough' : x # w => TowerInv(x)'
    BY <1>1, <1>2, <1>3, <1>4, <2>1, ElsewhereKeeps
  <2> QED
    BY <1>7, <2>2 DEF Good
<1> QED
  BY <1>2, <1>8, <1>9

\* A step that decides on its ticket: no other request does, when the ticket is not
\* astray, and the tower it is about serves it, when that tower is in order.
LEMMA Decides ==
  ASSUME IInv, NEW r \in Requests, SetStatus(r) \/ Release(r) \/ Requeue(r),
         NEW t, NEW w, t = req[r].t, w = req[r].w
  PROVE  /\ TypeOK /\ t \in Tickets /\ Shaped(req[r]) /\ r \in Deciding(t)
         /\ UNCHANGED <<onDuty, wish, cut, clash, rough>>
         /\ t \notin clash => TicketInv(t) /\ Deciding(t) = {r} /\ Holds(req[r])
         /\ w \in Towers \ rough => TowerInv(w) /\ About(w) = {r} /\ OnItsWay(r, w)
         /\ \A x \in Towers \ (rough \union {w}) : ticket[t].tower # x
<1>1. /\ TypeOK /\ t \in Tickets /\ Shaped(req[r]) /\ r \in Deciding(t)
      /\ UNCHANGED <<onDuty, wish, cut, clash, rough>>
  BY DEF IInv, Placed, Shaped, SetStatus, Release, Requeue, At, OnlyTicket, Deciding
<1>2. t \notin clash => TicketInv(t) /\ Deciding(t) = {r} /\ Holds(req[r])
  BY <1>1 DEF IInv, Good, TicketInv
<1>3. w \in Towers \ rough => TowerInv(w) /\ About(w) = {r} /\ OnItsWay(r, w)
  BY DEF IInv, Good, TowerInv, About
<1>4. ASSUME NEW x \in Towers \ (rough \union {w}), ticket[t].tower = x
      PROVE  FALSE
  BY <1>1, <1>4 DEF IInv, Good, TowerInv, About
<1> QED
  BY <1>1, <1>2, <1>3, <1>4

LEMMA SetStatusKeeps ==
  ASSUME IInv, NEW r \in Requests, SetStatus(r)
  PROVE  Good'
<1>1. PICK t, w, put : t = req[r].t /\ w = req[r].w /\ put = req[r].put
  OBVIOUS
<1>2. /\ TypeOK /\ t \in Tickets /\ r \in Deciding(t)
      /\ UNCHANGED <<onDuty, wish, cut, clash, rough>>
      /\ t \notin clash => TicketInv(t) /\ Deciding(t) = {r} /\ Holds(req[r])
      /\ w \in Towers \ rough => TowerInv(w) /\ About(w) = {r} /\ OnItsWay(r, w)
      /\ \A x \in Towers \ (rough \union {w}) : ticket[t].tower # x
  BY <1>1, Decides
<1>3. /\ req[r].pc = "status"
      /\ \/ req[r].kind = "arrive" /\ put = "ARRIVED"
         \/ req[r].kind = "deliver" /\ put = "RESOLVED"
         \/ req[r].kind = "cancel" /\ put = "CANCELLED"
  BY <1>1 DEF SetStatus, At, IInv, Placed, Shaped
<1>4. /\ ticket'[t].status = put /\ ticket'[t].tower = ticket[t].tower
      /\ \A u \in Tickets \ {t} : ticket'[u] = ticket[u]
  BY <1>1, <1>2, SetStatusWrites
<1>5. /\ \A s \in Requests : s # r => req'[s] = req[s]
      /\ req[r].kind = "arrive" => req'[r] = Idle
      /\ req[r].kind # "arrive" =>
           req'[r].pc \in {"given", "quiet"} /\ req'[r].t = t /\ req'[r].w = w /\ req'[r] # Idle
  BY <1>1, <1>2, Moving DEF SetStatus, Points, Idle
<1>6. Goes(r)
  BY <1>1, <1>5 DEF Goes
<1>7. Elsewhere(r)
  BY <1>1, <1>2, <1>3, <1>4 DEF Elsewhere, SameWay, Is
<1>8. TicketInv(t)' \/ t \in clash'
  <2> SUFFICES ASSUME t \notin clash PROVE TicketInv(t)'
    BY <1>2
  <2>1. Deciding(t)' = {}
    BY <1>2, <1>5, DispatchAssumption DEF Deciding, Idle
  <2>2. put = "ARRIVED" => ticket[t].tower # None
    BY <1>1, <1>2, <1>3 DEF Holds
  <2> QED
    BY <1>3, <1>4, <2>1, <2>2 DEF TicketInv, Is, Engaged
<1>9. ASSUME w \in Towers \ rough
      PROVE  TowerInv(w)'
  <2>1. /\ TowerInv(w) /\ OnItsWay(r, w) /\ t \in JobsOf(w) /\ wish[w]
        /\ w \notin cut => ~onDuty[w]
    BY <1>1, <1>2, <1>3, <1>9 DEF OnItsWay, At
  <2>2. JobsOf(w)' = IF put = "ARRIVED" THEN JobsOf(w) ELSE {}
    <3>1. \A u \in Tickets \ {t} : u \notin JobsOf(w)
      BY <2>1 DEF TowerInv
    <3>2. ASSUME NEW u \in Tickets \ {t}
          PROVE  ~(ticket'[u].tower = w /\ ticket'[u].status \in Engaged)
      BY <1>4, <3>1, <3>2 DEF JobsOf, Is
    <3>3. ticket[t].tower = w /\ JobsOf(w) = {t}
      BY <1>2, <2>1, <3>1 DEF JobsOf
    <3>4. put \in Engaged <=> put = "ARRIVED"
      BY <1>3 DEF Engaged
    <3>5. \A u \in Tickets : ticket'[u].tower = w /\ ticket'[u].status \in Engaged <=>
                             u = t /\ put = "ARRIVED"
      BY <1>4, <3>2, <3>3, <3>4
    <3> QED
      BY <1>2, <3>3, <3>5 DEF JobsOf, Is
  <2>3. \A u \in Tickets : ticket'[u].tower = w => ticket[u].tower = w /\ ~Is(u, {"NONE", "PENDING"})'
    BY <1>3, <1>4, <2>1 DEF TowerInv, Is
  <2>4. \/ /\ req'[r] = Idle
           /\ w \notin cut' => (onDuty'[w] <=> wish'[w] /\ JobsOf(w)' = {})
        \/ req'[r] # Idle /\ OnItsWay(r, w)'
    <3>1. CASE req[r].kind = "arrive"
      BY <1>2, <1>3, <1>5, <2>1, <2>2, <3>1
    <3>2. CASE req[r].kind # "arrive"
      <4>1. JobsOf(w)' = {}
        BY <1>3, <2>2, <3>2
      <4> QED
        BY <1>2, <1>5, <2>1, <3>2, <4>1 DEF OnItsWay, At
    <3> QED
      BY <3>1, <3>2
  <2>5. /\ \A x, u \in JobsOf(w)' : x = u
        /\ onDuty'[w] => wish'[w]
        /\ JobsOf(w)' # {} => wish'[w]
    BY <1>2, <2>1, <2>2 DEF TowerInv
  <2> QED
    BY <1>1, <1>2, <1>6, <1>9, <2>1, <2>3, <2>4, <2>5, OwnTower
<1> QED
  BY <1>1, <1>2, <1>4, <1>6, <1>7, <1>8, <1>9, ElsewhereKeeps DEF Good

LEMMA ReleaseKeeps ==
  ASSUME IInv, NEW r \in Requests, Release(r)
  PROVE  Good'
<1>1. PICK t, w : t = req[r].t /\ w = req[r].w
  OBVIOUS
<1>2. /\ TypeOK /\ t \in Tickets /\ r \in Deciding(t) /\ req[r].pc = "release"
      /\ UNCHANGED <<onDuty, wish, cut, clash, rough>>
      /\ t \notin clash => TicketInv(t) /\ Deciding(t) = {r} /\ Holds(req[r])
      /\ w \in Towers \ rough => TowerInv(w) /\ About(w) = {r} /\ OnItsWay(r, w)
      /\ \A x \in Towers \ (rough \union {w}) : ticket[t].tower # x
  BY <1>1, Decides DEF Release, At
<1>3. /\ ticket'[t].status = ticket[t].status /\ ticket'[t].tower = None
      /\ \A u \in Tickets \ {t} : ticket'[u] = ticket[u]
  BY <1>1, <1>2, ReleaseWrites
<1>4. /\ \A s \in Requests : s # r => req'[s] = req[s]
      /\ req'[r].pc = "requeue" /\ req'[r].t = t /\ req'[r].w = w /\ req'[r] # Idle
  BY <1>1, <1>2, Moving DEF Release, Points, Idle
<1>5. Goes(r)
  BY <1>1, <1>2, <1>4 DEF Goes
<1>6. Elsewhere(r)
  BY <1>1, <1>2, <1>3 DEF Elsewhere, SameWay, Is
<1>7. TicketInv(t)' \/ t \in clash'
  <2> SUFFICES ASSUME t \notin clash PROVE TicketInv(t)'
    BY <1>2
  <2>1. Deciding(t)' = {r}
    BY <1>2, <1>4 DEF Deciding
  <2>2. ticket[t].status \in Engaged
    BY <1>1, <1>2 DEF Holds, Is
  <2>3. Holds(req[r])'
    BY <1>3, <1>4, <2>2 DEF Holds, Is
  <2> QED
    BY <1>3, <1>4, <2>1, <2>2, <2>3 DEF TicketInv, Is, Engaged, At
<1>8. ASSUME w \in Towers \ rough
      PROVE  TowerInv(w)'
  <2>1. TowerInv(w) /\ t \in JobsOf(w) /\ wish[w] /\ w # None
    BY <1>1, <1>2, <1>8, DispatchAssumption DEF OnItsWay, At
  <2>2. JobsOf(w)' = {}
    <3>1. \A u \in Tickets \ {t} : u \notin JobsOf(w)
      BY <2>1 DEF TowerInv
    <3>2. \A u \in Tickets : ~(ticket'[u].tower = w /\ ticket'[u].status \in Engaged)
      BY <1>3, <2>1, <3>1 DEF JobsOf, Is
    <3> QED
      BY <3>2 DEF JobsOf, Is
  <2>3. \A u \in Tickets : ticket'[u].tower = w => ticket[u].tower = w /\ ~Is(u, {"NONE", "PENDING"})'
    BY <1>3, <2>1 DEF TowerInv, Is
  <2>4. OnItsWay(r, w)'
    BY <1>2, <1>3, <1>4, <2>1, <2>2 DEF OnItsWay, At
  <2> QED
    BY <1>1, <1>2, <1>4, <1>5, <1>8, <2>1, <2>2, <2>3, <2>4, OwnTower DEF TowerInv
<1>9. \A x \in Towers : ticket'[t].tower # x
  BY <1>3, DispatchAssumption
<1> QED
  BY <1>1, <1>2, <1>5, <1>6, <1>7, <1>8, <1>9, ElsewhereKeeps DEF Good

LEMMA RequeueKeeps ==
  ASSUME IInv, NEW r \in Requests, Requeue(r)
  PROVE  Good'
<1>1. PICK t, w : t = req[r].t /\ w = req[r].w
  OBVIOUS
<1>2. /\ TypeOK /\ t \in Tickets /\ r \in Deciding(t) /\ req[r].pc = "requeue"
      /\ UNCHANGED <<onDuty, wish, cut, clash, rough>>
      /\ t \notin clash => TicketInv(t) /\ Deciding(t) = {r} /\ Holds(req[r])
      /\ w \in Towers \ rough => TowerInv(w) /\ About(w) = {r} /\ OnItsWay(r, w)
      /\ \A x \in Towers \ (rough \union {w}) : ticket[t].tower # x
  BY <1>1, Decides DEF Requeue, At
<1>3. /\ ticket'[t].status = "PENDING" /\ ticket'[t].tower = ticket[t].tower
      /\ \A u \in Tickets \ {t} : ticket'[u] = ticket[u]
  BY <1>1, <1>2, RequeueWrites
<1>4. /\ \A s \in Requests : s # r => req'[s] = req[s]
      /\ req'[r].pc = "free" /\ req'[r].t = t /\ req'[r].w = w /\ req'[r] # Idle
  BY <1>1, <1>2, Moving DEF Requeue, Points, Idle
<1>5. Goes(r)
  BY <1>1, <1>2, <1>4 DEF Goes
<1>6. Elsewhere(r)
  BY <1>1, <1>2, <1>3 DEF Elsewhere, SameWay, Is
<1>7. TicketInv(t)' \/ t \in clash'
  <2> SUFFICES ASSUME t \notin clash PROVE TicketInv(t)'
    BY <1>2
  <2>1. Deciding(t)' = {}
    BY <1>2, <1>4 DEF Deciding
  <2>2. ticket[t].tower = None
    BY <1>1, <1>2 DEF Holds, Is
  <2> QED
    BY <1>3, <2>1, <2>2 DEF TicketInv, Is, Engaged
<1>8. ASSUME w \in Towers \ rough
      PROVE  TowerInv(w)'
  <2>1. TowerInv(w) /\ JobsOf(w) = {} /\ wish[w] /\ ticket[t].tower # w
    BY <1>1, <1>2, <1>8 DEF OnItsWay, At
  <2>2. JobsOf(w)' = {}
    <3>1. \A u \in Tickets : ~(ticket'[u].tower = w /\ ticket'[u].status \in Engaged)
      BY <1>3, <2>1 DEF JobsOf, Is
    <3> QED
      BY <3>1 DEF JobsOf, Is
  <2>3. \A u \in Tickets : ticket'[u].tower = w => ticket[u].tower = w /\ ~Is(u, {"NONE", "PENDING"})'
    BY <1>3, <2>1 DEF TowerInv, Is
  <2>4. OnItsWay(r, w)'
    BY <1>2, <1>4, <2>1, <2>2 DEF OnItsWay, At
  <2> QED
    BY <1>1, <1>2, <1>4, <1>5, <1>8, <2>1, <2>2, <2>3, <2>4, OwnTower DEF TowerInv
<1> QED
  BY <1>1, <1>2, <1>3, <1>5, <1>6, <1>7, <1>8, ElsewhereKeeps DEF Good

\* A tow that is filed has no request yet.
LEMMA CreateKeeps ==
  ASSUME IInv, NEW t \in Tickets, Create(t)
  PROVE  Good'
<1>1. /\ ticket'[t].status = "PENDING" /\ ticket'[t].tower = None
      /\ ticket[t].status = "NONE" /\ ticket[t].tower = None
      /\ \A u \in Tickets \ {t} : ticket'[u] = ticket[u]
  BY CreateWrites DEF IInv
<1>2. UNCHANGED <<onDuty, wish, req, cut, rough, clash>>
  BY DEF Create, AtOnce
<1>3. Filed'
  BY <1>1, <1>2 DEF IInv, Good, Filed, Is
<1>4. \A u \in Tickets : Deciding(u)' = Deciding(u)
  BY <1>2 DEF Deciding
<1>5. Deciding(t) = {}
  BY <1>1 DEF IInv, Good, Filed, Deciding, Is
<1>6. ASSUME NEW u \in Tickets \ clash'
      PROVE  TicketInv(u)'
  <2>1. CASE u = t
    BY <1>1, <1>4, <1>5, <2>1 DEF TicketInv, Is, Engaged
  <2>2. CASE u # t
    <3>1. TicketInv(u) /\ SameWay(u)
      BY <1>1, <1>2, <1>6, <2>2 DEF IInv, Good, SameWay
    <3> QED
      BY <1>2, <1>4, <3>1, TicketAside
  <2> QED
    BY <2>1, <2>2
<1>7. ASSUME NEW x \in Towers \ rough'
      PROVE  TowerInv(x)'
  <2>1. x # None /\ TowerInv(x)
    BY <1>2, <1>7, DispatchAssumption DEF IInv, Good
  <2>2. \A u \in Tickets : ticket[u].tower = x \/ ticket'[u].tower = x => SameWay(u)
    BY <1>1, <2>1 DEF SameWay
  <2> QED
    BY <1>2, <1>4, <2>1, <2>2, TowerAside DEF IInv
<1> QED
  BY <1>3, <1>6, <1>7 DEF Good

LEMMA QuietKeeps ==
  ASSUME IInv, UNCHANGED <<onDuty, wish, req, cut, rough, clash>>, \A t \in Tickets : SameWay(t)
  PROVE  Good'
<1>1. Filed'
  BY DEF IInv, Good, Filed, SameWay, Is
<1>2. \A u \in Tickets : Deciding(u)' = Deciding(u)
  BY DEF Deciding
<1>3. \A u \in Tickets \ clash' : TicketInv(u)'
  BY <1>2, TicketAside DEF IInv, Good
<1>4. \A x \in Towers \ rough' : TowerInv(x)'
  BY <1>2, TowerAside DEF IInv, Good
<1> QED
  BY <1>1, <1>3, <1>4 DEF Good

LEMMA DutyReadKeeps ==
  ASSUME IInv, NEW r \in Requests, NEW w \in Towers, NEW value \in BOOLEAN, DutyRead(r, w, value)
  PROVE  Good'
<1>1. PICK kind : kind = IF value THEN "goon" ELSE "gooff"
  OBVIOUS
<1>2. PICK doc : doc = [kind |-> kind, pc |-> "switch", t |-> None, w |-> w, put |-> "NONE"]
  OBVIOUS
<1>3. doc \in RequestDoc /\ Shaped(doc) /\ doc.pc = "switch" /\ doc.w = w
  BY <1>1, <1>2 DEF RequestDoc, Kinds, Points, Statuses, Shaped
<1>4. Enters(r, doc) /\ JobsOf(doc.w) = {} /\ UNCHANGED clash
  BY <1>1, <1>2, <1>3 DEF DutyRead, Enters, Joins
<1> QED
  BY <1>3, <1>4, EnterKeeps

LEMMA AskKeeps ==
  ASSUME IInv, NEW r \in Requests, NEW t \in Tickets, Ask(r, t)
  PROVE  Good'
<1>1. PICK doc :
        /\ Enters(r, doc) /\ doc.t = t /\ ~Is(t, {"NONE"})
        /\ \/ /\ doc.pc = "claim" /\ Is(t, {"PENDING"}) /\ UNCHANGED clash
              /\ onDuty[doc.w] /\ JobsOf(doc.w) = {}
           \/ /\ doc.pc \in {"status", "release"} /\ doc.w = ticket[t].tower
              /\ Holds(doc)
              /\ clash' = IF Deciding(t) = {} THEN clash ELSE clash \union {t}
  BY AskEnters DEF IInv
<1>2. CASE doc.pc = "claim"
  BY <1>1, <1>2, EnterKeeps
<1>3. CASE doc.pc # "claim"
  <2>1. /\ doc.pc \in {"status", "release"} /\ ~Is(doc.t, {"NONE"})
        /\ doc.w = ticket[doc.t].tower /\ Holds(doc)
        /\ clash' = (IF Deciding(doc.t) = {} THEN clash ELSE clash \union {doc.t})
    BY <1>1, <1>3
  <2> QED
    BY <1>1, <2>1, EnterKeeps
<1> QED
  BY <1>2, <1>3

LEMMA GoodKept == IInv /\ [Next]_vars => Good'
<1> SUFFICES ASSUME IInv, [Next]_vars PROVE Good'
  OBVIOUS
<1>1. CASE \E r \in Requests : \E t \in Tickets : Ask(r, t)
  BY <1>1, AskKeeps
<1>2. CASE \E r \in Requests : \E w \in Towers, value \in BOOLEAN : DutyRead(r, w, value)
  BY <1>2, DutyReadKeeps
<1>3. CASE \E r \in Requests : Work(r) \/ Abort(r)
  BY <1>3, ClaimKeeps, RestKeeps, SetStatusKeeps, ReleaseKeeps, RequeueKeeps DEF Work
<1>4. CASE \E t \in Tickets : AskAtOnce(t) \/ Passes(t)
  BY <1>4, CreateKeeps, QuietSteps, QuietKeeps DEF AskAtOnce, IInv
<1>5. CASE SlaStep \/ LateStep \/ HoldStep \/ AbortSweep \/ UNCHANGED vars
  BY <1>5, QuietSteps, QuietKeeps DEF IInv
<1> QED
  BY <1>1, <1>2, <1>3, <1>4, <1>5 DEF Next

LEMMA Beginning == Init => IInv
<1> SUFFICES ASSUME Init PROVE IInv
  OBVIOUS
<1>1. TypeOK /\ Placed
  BY Shapes, DispatchAssumption DEF Init, TypeOK, Placed, Shaped, Idle
<1>2. /\ \A t \in Tickets : ticket[t].status = "NONE" /\ ticket[t].tower = None
      /\ \A r \in Requests : req[r] = Idle
      /\ \A w \in Towers : onDuty[w] /\ wish[w]
      /\ None \notin Tickets /\ None \notin Towers
  BY DispatchAssumption DEF Init, Unfiled
<1>3. /\ \A t \in Tickets : Deciding(t) = {}
      /\ \A w \in Towers : About(w) = {} /\ JobsOf(w) = {}
  BY <1>2 DEF Deciding, About, JobsOf, Idle
<1>4. Filed
  BY <1>2 DEF Filed, Idle
<1>5. \A t \in Tickets : TicketInv(t)
  BY <1>2, <1>3 DEF TicketInv, Is, Engaged
<1>6. \A w \in Towers : TowerInv(w)
  BY <1>2, <1>3 DEF TowerInv
<1> QED
  BY <1>1, <1>4, <1>5, <1>6 DEF IInv, Good

LEMMA Invariance == Spec => []IInv
<1>1. IInv /\ [Next]_vars => IInv'
  BY TypesKept, GoodKept DEF IInv
<1> QED
  BY Beginning, <1>1, PTL DEF Spec

\* However accepts, deliveries, re-matches, cancels and switches of the duty overlap
\* and die: a tower no request is about is on duty exactly when its operator wants it
\* and it tows nothing, unless two requests about it overlapped, it took a tow in the
\* midst of its cancel, or a request died and nothing righted the tower since; and a tow
\* names its tower while it is under way, and none while it is searched for, unless two
\* requests decided on it at once or one died.
THEOREM DutyKept == Spec => []DutyFollowsJob
<1>1. IInv => DutyFollowsJob
  <2> SUFFICES ASSUME IInv
               PROVE  DutyFollowsJob
    OBVIOUS
  <2>1. ASSUME NEW w \in Towers \ (cut \union rough), About(w) = {}
        PROVE  onDuty[w] = (wish[w] /\ JobsOf(w) = {})
    <3>1. onDuty[w] <=> wish[w] /\ JobsOf(w) = {}
      BY <2>1 DEF IInv, Good, TowerInv
    <3>2. onDuty[w] \in BOOLEAN
      BY DEF IInv, TypeOK
    <3> QED
      BY <3>1, <3>2
  <2>2. ASSUME NEW t \in Tickets \ (cut \union clash), Deciding(t) = {}
        PROVE  /\ Is(t, {"PENDING"}) => ticket[t].tower = None
               /\ Is(t, Engaged) => ticket[t].tower # None
    BY <2>2 DEF IInv, Good, TicketInv, Is
  <2> QED
    BY <2>1, <2>2 DEF DutyFollowsJob, TowerIsNamed
<1> QED
  BY Invariance, <1>1, PTL

-----------------------------------------------------------------------------
(* The tow service's promise.                                              *)

Stages == [t \in Tickets |-> Stage(t)]
Helpers == [t \in Tickets |-> ticket[t].tower]
Asking == {<<req[r].t, req[r].w>> : r \in Accepting}
Promised == <<Stages, Helpers, Asking, clash>>

\* What a step that writes one ticket does to the promise's view.
LEMMA OneTicket ==
  ASSUME NEW t \in Tickets, \A u \in Tickets \ {t} : ticket'[u] = ticket[u]
  PROVE  /\ Stages' = [Stages EXCEPT ![t] = Stage(t)']
         /\ Helpers' = [Helpers EXCEPT ![t] = ticket'[t].tower]
         /\ Stages[t] = Stage(t) /\ Helpers[t] = ticket[t].tower
<1>1. \A u \in Tickets \ {t} : Stage(u)' = Stage(u)
  BY DEF Stage, Is
<1> QED
  BY <1>1 DEF Stages, Helpers

LEMMA SameStages ==
  ASSUME \A t \in Tickets : SameWay(t)
  PROVE  UNCHANGED <<Stages, Helpers>>
BY DEF Stages, Helpers, Stage, Is, SameWay

\* Who asks for a tow, as a request begins, goes on or ends.
LEMMA SameAsking ==
  ASSUME NEW r \in Requests, \A s \in Requests : s # r => req'[s] = req[s],
         req[r].pc # "claim", req'[r].pc # "claim"
  PROVE  UNCHANGED Asking
<1>1. Accepting' = Accepting /\ \A s \in Accepting : req'[s] = req[s]
  BY DEF Accepting, At
<1> QED
  BY <1>1 DEF Asking

LEMMA OneAsks ==
  ASSUME NEW r \in Requests, \A s \in Requests : s # r => req'[s] = req[s],
         req[r].pc # "claim", req'[r].pc = "claim"
  PROVE  Asking' = Asking \union {<<req'[r].t, req'[r].w>>}
<1>1. Accepting' = Accepting \union {r} /\ \A s \in Accepting : req'[s] = req[s]
  BY DEF Accepting, At
<1> QED
  BY <1>1 DEF Asking

LEMMA OneAnswered ==
  ASSUME NEW r \in Requests, \A s \in Requests : s # r => req'[s] = req[s],
         req'[r].pc # "claim"
  PROVE  Asking' \in {Asking, Asking \ {<<req[r].t, req[r].w>>}}
<1>1. Accepting' = Accepting \ {r} /\ \A s \in Accepting \ {r} : req'[s] = req[s]
  BY DEF Accepting, At
<1>2. Asking' = {<<req[s].t, req[s].w>> : s \in Accepting \ {r}}
  BY <1>1 DEF Asking
<1>3. PICK p : p = <<req[r].t, req[r].w>>
  OBVIOUS
<1>4. CASE r \notin Accepting \/ \E s \in Accepting \ {r} : <<req[s].t, req[s].w>> = p
  <2>1. Asking' = Asking
    BY <1>2, <1>3, <1>4 DEF Asking
  <2> QED
    BY <2>1
<1>5. CASE r \in Accepting /\ \A s \in Accepting \ {r} : <<req[s].t, req[s].w>> # p
  <2>1. Asking' = Asking \ {p}
    BY <1>2, <1>3, <1>5 DEF Asking
  <2> QED
    BY <1>3, <2>1
<1> QED
  BY <1>4, <1>5

LEMMA CreateFiles ==
  ASSUME TypeOK, NEW t \in Tickets, Create(t)
  PROVE  Promise!File(t)
<1>1. /\ ticket'[t].status = "PENDING" /\ ticket'[t].tower = None
      /\ ticket[t].status = "NONE" /\ ticket[t].tower = None
      /\ \A u \in Tickets \ {t} : ticket'[u] = ticket[u]
  BY CreateWrites
<1>2. Stage(t) = "unfiled" /\ Stage(t)' = "searching"
  BY <1>1 DEF Stage, Is, Engaged
<1>3. /\ Stages' = [Stages EXCEPT ![t] = "searching"] /\ Stages[t] = "unfiled"
      /\ UNCHANGED <<Asking, clash>>
  BY <1>1, <1>2, OneTicket DEF Create, AtOnce, Asking, Accepting, At
<1>4. Helpers' = Helpers
  <2>1. \A u \in Tickets : ticket'[u].tower = ticket[u].tower
    BY <1>1
  <2> QED
    BY <2>1 DEF Helpers
<1> QED
  BY <1>3, <1>4 DEF Stages, Helpers, Asking, Promise!File, Promise!Becomes

\* A request begins: a tower asks for a tow, or a caller is to decide on one.
LEMMA AskPromises ==
  ASSUME IInv, NEW r \in Requests, NEW t \in Tickets, Ask(r, t)
  PROVE  \/ \E w \in Towers : Promise!Ask(t, w)
         \/ Promise!Stray(t) \/ UNCHANGED Promised
<1>1. PICK doc :
        /\ Enters(r, doc) /\ doc.t = t /\ ~Is(t, {"NONE"})
        /\ \/ /\ doc.pc = "claim" /\ Is(t, {"PENDING"}) /\ UNCHANGED clash
              /\ onDuty[doc.w] /\ JobsOf(doc.w) = {}
           \/ /\ doc.pc \in {"status", "release"} /\ doc.w = ticket[t].tower
              /\ Holds(doc)
              /\ clash' = IF Deciding(t) = {} THEN clash ELSE clash \union {t}
  BY AskEnters DEF IInv
<1>2. /\ \A s \in Requests : s # r => req'[s] = req[s]
      /\ req'[r] = doc /\ req[r].pc = "idle" /\ UNCHANGED ticket
  BY <1>1 DEF Enters, At, IInv, TypeOK
<1>3. UNCHANGED <<Stages, Helpers>>
  BY <1>2, SameStages DEF SameWay
<1>4. CASE doc.pc = "claim"
  <2>1. PICK w \in Towers : w = doc.w
    BY <1>1, <1>4 DEF Enters, Shaped
  <2>2. Asking' = Asking \union {<<t, w>>}
    BY <1>1, <1>2, <1>4, <2>1, OneAsks
  <2>3. Is(t, {"PENDING"}) /\ UNCHANGED clash /\ JobsOf(w) = {}
    BY <1>1, <1>4, <2>1
  <2>4. Stages[t] = "searching"
    BY <2>3 DEF Stages, Stage, Is, Engaged
  <2>5. ASSUME NEW u \in Tickets, Stages[u] = "engaged", Helpers[u] = w
        PROVE  FALSE
    BY <2>3, <2>5 DEF Stages, Helpers, Stage, JobsOf, Is
  <2>6. Promise!Ask(t, w)
    BY <1>3, <2>2, <2>3, <2>4, <2>5 DEF Promise!Ask, Promise!Serving, Stages, Helpers, Asking
  <2> QED
    BY <2>6
<1>5. CASE doc.pc # "claim"
  <2>1. UNCHANGED Asking
    BY <1>2, <1>5, SameAsking
  <2>2. clash' = clash \/ clash' = clash \union {t}
    BY <1>1
  <2> QED
    BY <1>3, <2>1, <2>2 DEF Promise!Stray, Promised, Stages, Helpers, Asking
<1> QED
  BY <1>4, <1>5

LEMMA ClaimEngages ==
  ASSUME IInv, NEW r \in Requests, Claim(r)
  PROVE  Promise!Forget \/ \E t \in Tickets, w \in Towers : Promise!Engage(t, w)
<1>1. PICK t, w : t = req[r].t /\ w = req[r].w
  OBVIOUS
<1>2. /\ TypeOK /\ t \in Tickets /\ w \in Towers /\ w # None /\ req[r].pc = "claim"
      /\ UNCHANGED clash
  BY <1>1, DispatchAssumption DEF IInv, Placed, Shaped, Claim, At
<1>3. \A s \in Requests : s # r => req'[s] = req[s]
  BY <1>2, Moving DEF Claim, Take, Points
<1>4. req'[r].pc # "claim"
  BY <1>2, Moving DEF Claim, Take, Points, Idle
<1>5. Asking' \in {Asking, Asking \ {<<t, w>>}}
  BY <1>1, <1>3, <1>4, OneAnswered
<1>6. CASE ~Is(t, {"PENDING"})
  <2>1. UNCHANGED <<Stages, Helpers>>
    BY <1>1, <1>6, SameStages DEF Claim, SameWay
  <2> QED
    BY <1>2, <1>5, <2>1 DEF Promise!Forget, Stages, Helpers, Asking
<1>7. CASE Is(t, {"PENDING"})
  <2>1. /\ ticket'[t].status = "MATCHED" /\ ticket'[t].tower = w
        /\ \A u \in Tickets \ {t} : ticket'[u] = ticket[u]
    BY <1>1, <1>2, <1>7, ClaimWrites
  <2>2. Stage(t) = "searching" /\ Stage(t)' = "engaged"
    BY <1>2, <1>7, <2>1 DEF Stage, Is, Engaged
  <2>3. /\ Stages' = [Stages EXCEPT ![t] = "engaged"] /\ Stages[t] = "searching"
        /\ Helpers' = [Helpers EXCEPT ![t] = w]
    BY <1>2, <2>1, <2>2, OneTicket
  <2>4. <<t, w>> \in Asking
    BY <1>1, <1>2 DEF Asking, Accepting, At
  <2>5. Promise!Engage(t, w)
    BY <1>2, <1>5, <2>3, <2>4
       DEF Promise!Engage, Promise!Becomes, Promise!Names, Stages, Helpers, Asking
  <2> QED
    BY <1>2, <2>5
<1> QED
  BY <1>6, <1>7

\* Whatever is written to a tow that went astray, it stays filed and names nobody new.
LEMMA Drifts ==
  ASSUME TypeOK, NEW t \in Tickets, t \in clash, UNCHANGED <<Asking, clash>>,
         \A u \in Tickets \ {t} : ticket'[u] = ticket[u],
         ~Is(t, {"NONE"})', ticket'[t].tower \in {ticket[t].tower, None}
  PROVE  Promise!Drift(t)
<1>1. Stage(t)' \in {"searching", "engaged", "delivered", "withdrawn"}
  BY DEF Stage, Is
<1>2. /\ Stages' = [Stages EXCEPT ![t] = Stage(t)']
      /\ Helpers' = [Helpers EXCEPT ![t] = ticket'[t].tower]
      /\ Helpers[t] = ticket[t].tower
  BY OneTicket
<1>3. \E next \in Promise!Stages \ {"unfiled"} : Stages' = [Stages EXCEPT ![t] = next]
  BY <1>1, <1>2 DEF Promise!Stages
<1>4. \E w \in {Helpers[t], None} : Helpers' = [Helpers EXCEPT ![t] = w]
  BY <1>2
<1> QED
  BY <1>3, <1>4 DEF Promise!Drift, Promise!Becomes, Promise!Names, Stages, Helpers, Asking

LEMMA SetStatusPromises ==
  ASSUME IInv, NEW r \in Requests, SetStatus(r)
  PROVE  \/ \E t \in Tickets : Promise!Deliver(t) \/ Promise!Withdraw(t) \/ Promise!Drift(t)
         \/ UNCHANGED Promised
<1>1. PICK t, w, put : t = req[r].t /\ w = req[r].w /\ put = req[r].put
  OBVIOUS
<1>2. /\ TypeOK /\ t \in Tickets /\ UNCHANGED clash
      /\ t \notin clash => Holds(req[r])
  BY <1>1, Decides
<1>3. /\ req[r].pc = "status"
      /\ \/ req[r].kind = "arrive" /\ put = "ARRIVED"
         \/ req[r].kind = "deliver" /\ put = "RESOLVED"
         \/ req[r].kind = "cancel" /\ put = "CANCELLED"
  BY <1>1 DEF SetStatus, At, IInv, Placed, Shaped
<1>4. /\ ticket'[t].status = put /\ ticket'[t].tower = ticket[t].tower
      /\ \A u \in Tickets \ {t} : ticket'[u] = ticket[u]
  BY <1>1, <1>2, SetStatusWrites
<1>5. UNCHANGED Asking
  <2>1. (\A s \in Requests : s # r => req'[s] = req[s]) /\ req'[r].pc # "claim"
    BY <1>1, <1>2, Moving DEF SetStatus, Points, Idle
  <2> QED
    BY <1>3, <2>1, SameAsking
<1>6. /\ Stages' = [Stages EXCEPT ![t] = Stage(t)'] /\ Stages[t] = Stage(t)
      /\ Helpers' = Helpers
  <2>1. \A u \in Tickets : ticket'[u].tower = ticket[u].tower
    BY <1>4
  <2> QED
    BY <1>2, <1>4, <2>1, OneTicket DEF Helpers
<1>7. CASE t \in clash
  BY <1>2, <1>3, <1>4, <1>5, <1>7, Drifts DEF Is
<1>8. CASE t \notin clash /\ req[r].kind = "arrive"
  <2>1. ticket[t].status = "MATCHED" /\ put = "ARRIVED" /\ ticket[t].tower # None
    BY <1>1, <1>2, <1>3, <1>8 DEF Holds, Is
  <2>2. Stage(t) = "engaged" /\ Stage(t)' = "engaged"
    BY <1>4, <2>1 DEF Stage, Is, Engaged
  <2>3. Stages' = Stages
    BY <1>2, <1>6, <2>2 DEF Stages
  <2> QED
    BY <1>2, <1>5, <1>6, <2>3 DEF Promised
<1>9. CASE t \notin clash /\ req[r].kind = "deliver"
  <2>1. ticket[t].status = "ARRIVED" /\ put = "RESOLVED" /\ ticket[t].tower # None
    BY <1>1, <1>2, <1>3, <1>9 DEF Holds, Is
  <2>2. Stage(t) = "engaged" /\ Stage(t)' = "delivered"
    BY <1>4, <2>1 DEF Stage, Is, Engaged
  <2>3. Promise!Deliver(t)
    BY <1>2, <1>5, <1>6, <2>2 DEF Promise!Deliver, Promise!Becomes, Stages, Helpers, Asking
  <2> QED
    BY <1>2, <2>3
<1>10. CASE t \notin clash /\ req[r].kind = "cancel"
  <2>1. ticket[t].status \in Engaged \union {"PENDING"} /\ put = "CANCELLED"
    BY <1>1, <1>2, <1>3, <1>10 DEF Holds, Is
  <2>2. Stage(t) \in {"searching", "engaged"} /\ Stage(t)' = "withdrawn"
    BY <1>4, <2>1 DEF Stage, Is, Engaged
  <2>3. Promise!Withdraw(t)
    BY <1>2, <1>5, <1>6, <2>2 DEF Promise!Withdraw, Promise!Becomes, Stages, Helpers, Asking
  <2> QED
    BY <1>2, <2>3
<1> QED
  BY <1>3, <1>7, <1>8, <1>9, <1>10

LEMMA ReleaseLeaves ==
  ASSUME IInv, NEW r \in Requests, Release(r)
  PROVE  \E t \in Tickets : Promise!Leave(t) \/ Promise!Drift(t)
<1>1. PICK t, w : t = req[r].t /\ w = req[r].w
  OBVIOUS
<1>2. /\ TypeOK /\ t \in Tickets /\ UNCHANGED clash /\ req[r].pc = "release"
      /\ t \notin clash => Holds(req[r])
      /\ ticket[t].status # "NONE"
  BY <1>1, Decides DEF Release, At, IInv, Good, Filed, Is
<1>3. /\ ticket'[t].status = ticket[t].status /\ ticket'[t].tower = None
      /\ \A u \in Tickets \ {t} : ticket'[u] = ticket[u]
  BY <1>1, <1>2, ReleaseWrites
<1>4. UNCHANGED Asking
  <2>1. (\A s \in Requests : s # r => req'[s] = req[s]) /\ req'[r].pc # "claim"
    BY <1>1, <1>2, Moving DEF Release, Points
  <2> QED
    BY <1>2, <2>1, SameAsking
<1>5. CASE t \in clash
  BY <1>2, <1>3, <1>4, <1>5, Drifts DEF Is
<1>6. CASE t \notin clash
  <2>1. ticket[t].status \in Engaged /\ ticket[t].tower # None
    BY <1>1, <1>2, <1>6 DEF Holds, Is
  <2>2. Stage(t) = "engaged" /\ Stage(t)' = "searching"
    BY <1>3, <2>1 DEF Stage, Is, Engaged
  <2>3. Promise!Leave(t)
    BY <1>2, <1>3, <1>4, <2>2, OneTicket
       DEF Promise!Leave, Promise!Becomes, Promise!Names, Stages, Helpers, Asking
  <2> QED
    BY <1>2, <2>3
<1> QED
  BY <1>5, <1>6

\* A tow that is searched for again has been without a tower since it was released.
LEMMA RequeueStutters ==
  ASSUME IInv, NEW r \in Requests, Requeue(r)
  PROVE  UNCHANGED Promised \/ \E t \in Tickets : Promise!Drift(t)
<1>1. PICK t, w : t = req[r].t /\ w = req[r].w
  OBVIOUS
<1>2. /\ TypeOK /\ t \in Tickets /\ UNCHANGED clash /\ req[r].pc = "requeue"
      /\ t \notin clash => Holds(req[r])
  BY <1>1, Decides DEF Requeue, At
<1>3. /\ ticket'[t].status = "PENDING" /\ ticket'[t].tower = ticket[t].tower
      /\ \A u \in Tickets \ {t} : ticket'[u] = ticket[u]
  BY <1>1, <1>2, RequeueWrites
<1>4. UNCHANGED Asking
  <2>1. (\A s \in Requests : s # r => req'[s] = req[s]) /\ req'[r].pc # "claim"
    BY <1>1, <1>2, Moving DEF Requeue, Points
  <2> QED
    BY <1>2, <2>1, SameAsking
<1>5. CASE t \in clash
  BY <1>2, <1>3, <1>4, <1>5, Drifts DEF Is
<1>6. CASE t \notin clash
  <2>1. ticket[t].status \in Engaged /\ ticket[t].tower = None
    BY <1>1, <1>2, <1>6 DEF Holds, Is
  <2>2. Stage(t) = "searching" /\ Stage(t)' = "searching"
    BY <1>3, <2>1 DEF Stage, Is, Engaged
  <2>3. /\ Stages' = [Stages EXCEPT ![t] = "searching"] /\ Stages[t] = "searching"
        /\ Helpers' = [Helpers EXCEPT ![t] = None] /\ Helpers[t] = None
    BY <1>2, <1>3, <2>1, <2>2, OneTicket
  <2>4. UNCHANGED <<Stages, Helpers>>
    BY <2>3 DEF Stages, Helpers
  <2> QED
    BY <1>2, <1>4, <2>4 DEF Promised
<1> QED
  BY <1>5, <1>6

\* The other steps of a request write neither a status nor a tower.
LEMMA WorkStutters ==
  ASSUME IInv, NEW r \in Requests,
         OffDuty(r) \/ StampEta(r) \/ Given(r) \/ Quiet(r) \/ Free(r) \/ SetDuty(r) \/ Abort(r)
  PROVE  Promise!Forget \/ UNCHANGED Promised
<1>1. UNCHANGED <<Stages, Helpers, clash>>
  <2>1. UNCHANGED clash
    BY DEF OffDuty, StampEta, Given, Quiet, Free, SetDuty, Abort, OnlyTicket
  <2> QED
    BY <2>1, QuietWork, SameStages DEF IInv
<1>2. (\A s \in Requests : s # r => req'[s] = req[s]) /\ req'[r].pc # "claim"
  <2> DEFINE Ends == (\A s \in Requests : s # r => req'[s] = req[s]) /\ req'[r].pc # "claim"
  <2>1. Done(r) => Ends
    BY Moving DEF Idle, IInv
  <2>2. Goto(r, "eta") \/ Goto(r, "quiet") \/ Goto(r, "free") => Ends
    BY Moving DEF Points, IInv
  <2> QED
    BY <2>1, <2>2 DEF OffDuty, StampEta, Given, Quiet, Free, SetDuty, Abort
<1>3. Asking' \in {Asking, Asking \ {<<req[r].t, req[r].w>>}}
  BY <1>2, OneAnswered
<1> QED
  BY <1>1, <1>3 DEF Promise!Forget, Stages, Helpers, Asking

LEMMA PromiseKept ==
  ASSUME IInv, [Next]_vars
  PROVE  [Promise!Next]_Promised
<1>1. CASE \E r \in Requests : \E t \in Tickets : Ask(r, t)
  BY <1>1, AskPromises DEF Promise!Next
<1>2. CASE \E r \in Requests : \E w \in Towers, value \in BOOLEAN : DutyRead(r, w, value)
  <2>1. PICK r \in Requests : \E w \in Towers, value \in BOOLEAN : DutyRead(r, w, value)
    BY <1>2
  <2>2. /\ \A s \in Requests : s # r => req'[s] = req[s]
        /\ req[r].pc # "claim" /\ req'[r].pc # "claim"
    BY <2>1 DEF DutyRead, At, IInv, TypeOK
  <2>3. UNCHANGED <<ticket, clash>>
    BY <2>1 DEF DutyRead
  <2> QED
    BY <2>2, <2>3, SameAsking, SameStages DEF Promised, SameWay
<1>3. CASE \E r \in Requests : Work(r) \/ Abort(r)
  <2>1. PICK r \in Requests : Work(r) \/ Abort(r)
    BY <1>3
  <2>2. CASE Claim(r)
    BY <2>2, ClaimEngages DEF Promise!Next
  <2>3. CASE SetStatus(r)
    BY <2>3, SetStatusPromises DEF Promise!Next
  <2>4. CASE Release(r)
    BY <2>4, ReleaseLeaves DEF Promise!Next
  <2>5. CASE Requeue(r)
    BY <2>5, RequeueStutters DEF Promise!Next
  <2>6. CASE OffDuty(r) \/ StampEta(r) \/ Given(r) \/ Quiet(r) \/ Free(r) \/ SetDuty(r) \/ Abort(r)
    BY <2>6, WorkStutters DEF Promise!Next
  <2> QED
    BY <2>1, <2>2, <2>3, <2>4, <2>5, <2>6 DEF Work
<1>4. ASSUME UNCHANGED <<onDuty, wish, req, cut, rough, clash>>, \A t \in Tickets : SameWay(t)
      PROVE  UNCHANGED Promised
  BY <1>4, SameStages DEF Promised, Asking, Accepting, At
<1>5. CASE \E t \in Tickets : AskAtOnce(t) \/ Passes(t)
  BY <1>4, <1>5, CreateFiles, QuietSteps DEF AskAtOnce, IInv, Promise!Next
<1>6. CASE SlaStep \/ LateStep \/ HoldStep \/ AbortSweep \/ UNCHANGED vars
  BY <1>4, <1>6, QuietSteps DEF IInv
<1> QED
  BY <1>1, <1>2, <1>3, <1>5, <1>6 DEF Next

\* However requests overlap and wherever they die, the documents keep the tow service's
\* promise: a tower asks for a tow only when it serves none; of those who ask for a tow
\* one gets it, and only while it is searched for; the towers of a tow follow one another
\* by way of the search; and a tow that is over stays over.  Of a tow two requests other
\* than accepts decided on at once, no more is promised than that it stays filed and
\* names nobody who did not ask for it.
THEOREM KeepsThePromise == Spec => KeepsPromise
<1>1. Init => Promise!Init
  <2> SUFFICES ASSUME Init PROVE Promise!Init
    OBVIOUS
  <2>1. \A t \in Tickets : ticket[t].status = "NONE" /\ ticket[t].tower = None
    BY DEF Init, Unfiled
  <2>2. \A t \in Tickets : Stage(t) = "unfiled"
    BY <2>1 DEF Stage, Is
  <2>3. clash = {} /\ Accepting = {}
    BY DEF Init, Accepting, At, Idle
  <2> QED
    BY <2>1, <2>2, <2>3 DEF Promise!Init
<1>2. IInv /\ [Next]_vars => [Promise!Next]_Promised
  BY PromiseKept
<1> QED
  BY Invariance, <1>1, <1>2, PTL
     DEF Spec, KeepsPromise, Promise!Spec, Promised, Stages, Helpers, Asking
=============================================================================
