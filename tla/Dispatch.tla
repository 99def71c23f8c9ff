------------------------------ MODULE Dispatch ------------------------------
(***************************************************************************)
(* Tows from the rider's request to the hand-over of the vehicle: towers    *)
(* accept, arrive, load, deliver or give the tow back, riders and admins    *)
(* cancel, and the sweeps widen a search nobody answers, tell of a late     *)
(* tower and lift expired holds (dispatch/accept, dispatch/tickets,         *)
(* dispatch/sla, dispatch/hold, dispatch/shop/sweep, dispatchRepository).   *)
(*                                                                         *)
(* Only the claim of a pending ticket is a transaction; every other request *)
(* reads the ticket, checks it, and later writes it without a condition.    *)
(* A tower is its operator: each operates one tow truck.                    *)
(***************************************************************************)
EXTENDS Integers, FiniteSets

CONSTANTS
  Tickets,    \* tows, each of another rider and vehicle
  Towers,     \* tow trucks
  Requests,   \* slots for HTTP requests in flight
  None,       \* no ticket, no tower
  Alone,      \* bound: tickets that are filed when the bustle is not "many"
  Bustles,    \* bound: what a behaviour is busy with, besides the tows' way
  MaxRounds,  \* DISPATCH_MAX_ROUNDS
  MaxFaults   \* bound: requests that die

BustleNames == {"many", "search", "eta", "hold", "shift"}

ASSUME DispatchAssumption ==
  /\ IsFiniteSet(Tickets) /\ Alone \subseteq Tickets /\ Bustles \subseteq BustleNames
  /\ None \notin Tickets /\ None \notin Towers /\ Tickets \intersect Towers = {}
  /\ MaxRounds \in Nat \ {0} /\ MaxFaults \in Nat

VARIABLES
  bustle,    \* which bustle of the tickets runs, from the beginning
  ticket,   \* ticket[t]: the document of dispatch_tickets
  onDuty,   \* onDuty[w]: accepting, of the provider
  wish,     \* what the operator last switched the duty to (history)
  req,      \* req[r]: the request in flight in slot r
  sweep,    \* what the running sweep has listed and not handled
  cut,      \* tickets one of whose requests died, and towers nothing righted since (history)
  rough,    \* towers with two requests at once, or that took a tow being cancelled (history)
  clash,    \* tickets two requests were to write the status of at once (history)
  faults    \* how many requests died

vars == <<bustle, ticket, onDuty, wish, req, sweep, cut, rough, clash, faults>>

Terminal == {"RESOLVED", "CANCELLED"}
Engaged == {"MATCHED", "ARRIVED"}

\* eta: etaPickupAt is null, ahead, behind by more than the grace, or the rider
\* was told (etaNotifiedAt).  hold: none, with an ETA, or past it.
Unfiled ==
  [status |-> "NONE", tower |-> None, loaded |-> FALSE, eta |-> "none", round |-> 1,
   due |-> FALSE, breached |-> FALSE, hold |-> "none", given |-> "no"]
Idle == [kind |-> "none", pc |-> "idle", t |-> None, w |-> None, put |-> "NONE"]
NothingListed == [sla |-> {}, late |-> {}, holds |-> {}]

Init ==
  /\ bustle \in Bustles
  /\ ticket = [t \in Tickets |-> Unfiled]
  /\ onDuty = [w \in Towers |-> TRUE]
  /\ wish = [w \in Towers |-> TRUE]
  /\ req = [r \in Requests |-> Idle]
  /\ sweep = NothingListed
  /\ cut = {} /\ rough = {} /\ clash = {} /\ faults = 0

-----------------------------------------------------------------------------
Is(t, statuses) == ticket[t].status \in statuses
Write(t, doc) == ticket' = [ticket EXCEPT ![t] = doc]
At(r, pc) == req[r].pc = pc
Goto(r, pc) == req' = [req EXCEPT ![r].pc = pc]
Done(r) == req' = [req EXCEPT ![r] = Idle]
Switch(w, value) == onDuty' = [onDuty EXCEPT ![w] = value]

\* findActiveForShop.
JobsOf(w) == {t \in Tickets : ticket[t].tower = w /\ Is(t, Engaged)}

\* Requests still to write the status or the tower of ticket t by what they read of
\* it, and those about tower w.
Deciding(t) == {r \in Requests : req[r].t = t /\ req[r].pc \in {"status", "release", "requeue"}}
About(w) == {r \in Requests : req[r].w = w}

\* A request about tower w, when there is one, joins those in flight.
Joins(w) == rough' = IF w = None \/ About(w) = {} THEN rough ELSE rough \union {w}

Begin(r, doc) ==
  /\ At(r, "idle")
  /\ req' = [req EXCEPT ![r] = doc]
  /\ Joins(doc.w)
  /\ clash' = IF Deciding(doc.t) = {} THEN clash ELSE clash \union {doc.t}
  /\ UNCHANGED <<bustle, ticket, onDuty, wish, sweep, cut, faults>>

\* A handler that reads one document and writes one field of it.
AtOnce(t, doc) ==
  /\ Write(t, doc)
  /\ UNCHANGED <<bustle, onDuty, wish, req, sweep, cut, rough, clash, faults>>

OnlyTicket == UNCHANGED <<bustle, onDuty, wish, sweep, cut, rough, clash, faults>>

\* createDispatch of a TOW: the first broadcast begins a round.
Create(t) ==
  /\ ticket[t] = Unfiled /\ (t \in Alone \/ bustle = "many")
  /\ AtOnce(t, [Unfiled EXCEPT !.status = "PENDING"])

-----------------------------------------------------------------------------
(* POST /dispatch/accept.                                                  *)

AcceptRead(r, t, w) ==
  /\ Is(t, {"PENDING"}) /\ onDuty[w] /\ JobsOf(w) = {}
  /\ At(r, "idle")
  /\ req' = [req EXCEPT ![r] =
       [kind |-> "accept", pc |-> "claim", t |-> t, w |-> w, put |-> "NONE"]]
  /\ Joins(w)
  /\ UNCHANGED <<bustle, ticket, onDuty, wish, sweep, cut, clash, faults>>

\* The claim is written; a cancel that read the ticket before knows of no tower.
Take(r, t) ==
  /\ Write(t, [ticket[t] EXCEPT !.status = "MATCHED", !.tower = req[r].w])
  /\ Goto(r, "offduty")
  /\ rough' = IF Deciding(t) = {} THEN rough ELSE rough \union {req[r].w}

\* Mutant of Claim: the transaction trusts the status that was read before it.
ClaimUnchecked(r) ==
  /\ At(r, "claim")
  /\ Take(r, req[r].t)
  /\ UNCHANGED <<bustle, onDuty, wish, sweep, cut, clash, faults>>

\* claimForAssignment, a transaction: whoever comes second is refused.
Claim(r) ==
  /\ At(r, "claim")
  /\ \/ Is(req[r].t, {"PENDING"}) /\ Take(r, req[r].t)
     \/ ~Is(req[r].t, {"PENDING"}) /\ UNCHANGED <<ticket, rough>> /\ Done(r)
  /\ UNCHANGED <<bustle, onDuty, wish, sweep, cut, clash, faults>>

OffDuty(r) ==
  /\ At(r, "offduty")
  /\ Switch(req[r].w, FALSE)
  /\ Goto(r, "eta")
  /\ UNCHANGED <<bustle, ticket, wish, sweep, cut, rough, clash, faults>>

\* stampTowEta: without a fresh fix of the tower, or a route, nothing is written.
StampEta(r) ==
  /\ At(r, "eta")
  /\ \/ bustle = "eta" /\ Write(req[r].t, [ticket[req[r].t] EXCEPT !.eta = "ahead"])
     \/ UNCHANGED ticket
  /\ Done(r) /\ OnlyTicket

-----------------------------------------------------------------------------
(* The tower's way: POST /dispatch/status, /dispatch/tow/loaded.           *)

\* assertTransition: what the tower, and the rider, may set a tow to.
TowerMay == {<<"MATCHED", "ARRIVED">>, <<"ARRIVED", "RESOLVED">>} \union (Engaged \X {"CANCELLED"})
RiderMay == (Engaged \union {"PENDING"}) \X {"CANCELLED"}
May(t, pairs, status) == <<ticket[t].status, status>> \in pairs

ArriveRead(r, t) ==
  /\ May(t, TowerMay, "ARRIVED") /\ ticket[t].tower # None
  /\ Begin(r, [kind |-> "arrive", pc |-> "status", t |-> t, w |-> ticket[t].tower,
               put |-> "ARRIVED"])

Load(t) ==
  /\ Is(t, {"ARRIVED"}) /\ ticket[t].tower # None /\ ~ticket[t].loaded
  /\ AtOnce(t, [ticket[t] EXCEPT !.loaded = TRUE])

DeliverRead(r, t) ==
  /\ May(t, TowerMay, "RESOLVED") /\ ticket[t].tower # None /\ ticket[t].loaded
  /\ Begin(r, [kind |-> "deliver", pc |-> "status", t |-> t, w |-> ticket[t].tower,
               put |-> "RESOLVED"])

\* The rider, or an admin, gives the tow up; later writes go by the tower read here.
CancelRead(r, t) ==
  /\ May(t, RiderMay, "CANCELLED")
  /\ Begin(r, [kind |-> "cancel", pc |-> "status", t |-> t, w |-> ticket[t].tower,
               put |-> "CANCELLED"])

\* updateStatus: a terminal status lifts the hold.
SetStatus(r) ==
  /\ At(r, "status")
  /\ LET t == req[r].t IN
     Write(t, [ticket[t] EXCEPT !.status = req[r].put,
                                !.hold = IF req[r].put \in Terminal THEN "none" ELSE ticket[t].hold])
  /\ IF req[r].kind = "arrive" THEN Done(r)
     ELSE Goto(r, IF req[r].kind = "deliver" THEN "given" ELSE "quiet")
  /\ OnlyTicket

Given(r) ==
  /\ At(r, "given")
  /\ Write(req[r].t, [ticket[req[r].t] EXCEPT !.given = "delivered"])
  /\ Goto(r, "quiet") /\ OnlyTicket

\* The ETAs are cleared; a tow nobody had taken has no tower to free.
Quiet(r) ==
  /\ At(r, "quiet")
  /\ Write(req[r].t, [ticket[req[r].t] EXCEPT !.eta = "none"])
  /\ IF req[r].w = None THEN Done(r) ELSE Goto(r, "free")
  /\ OnlyTicket

\* Mutant of Free: only a delivery puts the tower back on duty.
FreeDelivered(r) ==
  /\ At(r, "free")
  /\ IF req[r].kind = "deliver" THEN Switch(req[r].w, TRUE) ELSE UNCHANGED onDuty
  /\ cut' = cut \ {req[r].w}
  /\ Done(r)
  /\ UNCHANGED <<bustle, ticket, wish, sweep, rough, clash, faults>>

\* Back on duty, when the tower still is off duty.
Free(r) ==
  /\ At(r, "free")
  /\ Switch(req[r].w, TRUE)
  /\ cut' = cut \ {req[r].w}
  /\ Done(r)
  /\ UNCHANGED <<bustle, ticket, wish, sweep, rough, clash, faults>>

Receive(t) ==
  /\ Is(t, {"RESOLVED"}) /\ ticket[t].given = "delivered"
  /\ AtOnce(t, [ticket[t] EXCEPT !.given = "received"])

\* refreshTowEta: the rider asks where the tower is.
RefreshEta(t) ==
  /\ bustle = "eta" /\ Is(t, Engaged) /\ ticket[t].tower # None
  /\ AtOnce(t, [ticket[t] EXCEPT !.eta = "ahead"])

-----------------------------------------------------------------------------
(* The tower gives the tow back, by POST /dispatch/status or by             *)
(* /dispatch/tow/rematch, and the search begins again.                     *)

GiveUpRead(r, t, how) ==
  /\ May(t, TowerMay, "CANCELLED") /\ ticket[t].tower # None
  /\ Begin(r, [kind |-> how, pc |-> "release", t |-> t, w |-> ticket[t].tower,
               put |-> "PENDING"])

\* Mutant of Release: the tower's name stays on the ticket.
ReleaseKept(r) ==
  /\ At(r, "release")
  /\ Write(req[r].t, [ticket[req[r].t] EXCEPT !.eta = "none"])
  /\ Goto(r, "requeue") /\ OnlyTicket

\* A tower that cancels leaves the vehicle as loaded as it was; a re-match does not.
GivenUp(doc) == [doc EXCEPT !.tower = None, !.eta = "none"]
Rematched(doc) == [doc EXCEPT !.tower = None, !.eta = "none", !.loaded = FALSE]

Release(r) ==
  /\ At(r, "release")
  /\ LET doc == ticket[req[r].t] IN
     Write(req[r].t, IF req[r].kind = "giveup" THEN GivenUp(doc) ELSE Rematched(doc))
  /\ Goto(r, "requeue") /\ OnlyTicket

\* Neither the round nor the time to accept by begins anew.
Requeue(r) ==
  /\ At(r, "requeue")
  /\ Write(req[r].t, [ticket[req[r].t] EXCEPT !.status = "PENDING"])
  /\ Goto(r, "free") /\ OnlyTicket

-----------------------------------------------------------------------------
(* POST /providers/update: the operator switches the tower's duty.         *)

DutyRead(r, w, value) ==
  /\ bustle = "shift" /\ (value # wish[w] \/ value # onDuty[w]) /\ JobsOf(w) = {}
  /\ At(r, "idle")
  /\ req' = [req EXCEPT ![r] =
       [kind |-> IF value THEN "goon" ELSE "gooff", pc |-> "switch", t |-> None, w |-> w,
        put |-> "NONE"]]
  /\ Joins(w)
  /\ UNCHANGED <<bustle, ticket, onDuty, wish, sweep, cut, clash, faults>>

SetDuty(r) ==
  /\ At(r, "switch")
  /\ LET value == req[r].kind = "goon" IN
     /\ Switch(req[r].w, value)
     /\ wish' = [wish EXCEPT ![req[r].w] = value]
  /\ cut' = cut \ {req[r].w}
  /\ Done(r)
  /\ UNCHANGED <<bustle, ticket, sweep, rough, clash, faults>>

-----------------------------------------------------------------------------
(* Holds: POST /dispatch/hold, always with an ETA here, and /hold/clear.    *)

SetHold(t) ==
  /\ bustle = "hold" /\ Is(t, Engaged)
  /\ AtOnce(t, [ticket[t] EXCEPT !.hold = "timed"])

ClearHold(t) ==
  /\ ticket[t].hold # "none"
  /\ AtOnce(t, [ticket[t] EXCEPT !.hold = "none"])

-----------------------------------------------------------------------------
(* Time passes, and the scheduler sweeps every five minutes.               *)

RunsOut(t, doc) ==
  /\ Write(t, doc)
  /\ UNCHANGED <<bustle, onDuty, wish, req, sweep, cut, rough, clash, faults>>

AcceptByPasses(t) ==
  /\ bustle = "search" /\ Is(t, {"PENDING"}) /\ ~ticket[t].due
  /\ RunsOut(t, [ticket[t] EXCEPT !.due = TRUE])
EtaPasses(t) == ticket[t].eta = "ahead" /\ RunsOut(t, [ticket[t] EXCEPT !.eta = "behind"])
HoldPasses(t) == ticket[t].hold = "timed" /\ RunsOut(t, [ticket[t] EXCEPT !.hold = "over"])

SweepWrites(t, doc, left) ==
  /\ Write(t, doc) /\ sweep' = left
  /\ UNCHANGED <<bustle, onDuty, wish, req, cut, rough, clash, faults>>

Listing(listed) ==
  /\ sweep = NothingListed /\ listed # NothingListed
  /\ sweep' = listed
  /\ UNCHANGED <<bustle, ticket, onDuty, wish, req, cut, rough, clash, faults>>

DueForSla == {t \in Tickets : Is(t, {"PENDING"}) /\ ticket[t].due}
ListDue == Listing([NothingListed EXCEPT !.sla = DueForSla])

\* Mutant of Breach: a search that found nobody is left as it is.
BreachLast(t) ==
  /\ t \in sweep.sla
  /\ SweepWrites(t, [ticket[t] EXCEPT !.breached = ticket[t].breached \/ ticket[t].round > MaxRounds],
                 [sweep EXCEPT !.sla = sweep.sla \ {t}])

\* The rounds are over, or a wider search finds nobody new: the rider is told once.
Breach(t) ==
  /\ t \in sweep.sla
  /\ SweepWrites(t, [ticket[t] EXCEPT !.breached = TRUE], [sweep EXCEPT !.sla = sweep.sla \ {t}])

\* findTowOperators, wherever they are: on duty, and operators of no running job.
Reachable == {w \in Towers : onDuty[w] /\ JobsOf(w) = {}}

\* A wider search finds others: they have their time to accept.
Rebroadcast(t) ==
  /\ t \in sweep.sla /\ ticket[t].round < MaxRounds /\ Reachable # {}
  /\ SweepWrites(t, [ticket[t] EXCEPT !.round = ticket[t].round + 1, !.due = FALSE],
                 [sweep EXCEPT !.sla = sweep.sla \ {t}])

Late == {t \in Tickets : Is(t, {"MATCHED"}) /\ ticket[t].eta = "behind"}

ListLate == Listing([NothingListed EXCEPT !.late = Late])
TellLate(t) ==
  /\ t \in sweep.late
  /\ SweepWrites(t, [ticket[t] EXCEPT !.eta = IF ticket[t].eta = "none" THEN "none" ELSE "told"],
                 [sweep EXCEPT !.late = sweep.late \ {t}])

ExpiredHolds == {t \in Tickets : ticket[t].hold = "over"}
ListHolds == Listing([NothingListed EXCEPT !.holds = ExpiredHolds])
LiftHold(t) ==
  /\ t \in sweep.holds
  /\ SweepWrites(t, [ticket[t] EXCEPT !.hold = "none"], [sweep EXCEPT !.holds = sweep.holds \ {t}])

-----------------------------------------------------------------------------
\* An instance dies, or a call throws: the rest of the handler never happens.
Abort(r) ==
  /\ ~At(r, "idle") /\ faults < MaxFaults
  /\ Done(r)
  /\ cut' = cut \union ({req[r].t, req[r].w} \ {None})
  /\ faults' = faults + 1
  /\ UNCHANGED <<bustle, ticket, onDuty, wish, sweep, rough, clash>>

\* The scheduler's instance dies: what was listed waits for the next sweep.
AbortSweep ==
  /\ sweep # NothingListed /\ faults < MaxFaults
  /\ sweep' = NothingListed
  /\ faults' = faults + 1
  /\ UNCHANGED <<bustle, ticket, onDuty, wish, req, cut, rough, clash>>

Ask(r, t) ==
  \/ \E w \in Towers : AcceptRead(r, t, w)
  \/ ArriveRead(r, t) \/ DeliverRead(r, t) \/ CancelRead(r, t)
  \/ \E how \in {"giveup", "rematch"} : GiveUpRead(r, t, how)

Work(r) ==
  \/ Claim(r) \/ OffDuty(r) \/ StampEta(r)
  \/ SetStatus(r) \/ Given(r) \/ Quiet(r) \/ Free(r)
  \/ Release(r) \/ Requeue(r) \/ SetDuty(r)

AskAtOnce(t) ==
  \/ Create(t) \/ Load(t) \/ Receive(t) \/ RefreshEta(t) \/ SetHold(t) \/ ClearHold(t)

Passes(t) == AcceptByPasses(t) \/ EtaPasses(t) \/ HoldPasses(t)
SlaStep == ListDue \/ \E t \in Tickets : Breach(t) \/ Rebroadcast(t)
LateStep == ListLate \/ \E t \in Tickets : TellLate(t)
HoldStep == ListHolds \/ \E t \in Tickets : LiftHold(t)

Next ==
  \/ \E r \in Requests :
       \/ \E t \in Tickets : Ask(r, t)
       \/ \E w \in Towers, value \in BOOLEAN : DutyRead(r, w, value)
       \/ Work(r) \/ Abort(r)
  \/ \E t \in Tickets : AskAtOnce(t) \/ Passes(t)
  \/ SlaStep \/ LateStep \/ HoldStep \/ AbortSweep

Spec == Init /\ [][Next]_vars

\* Time passes and each sweep runs to its end, again and again: strongly fair,
\* as they take turns.  Nothing is assumed of the riders and the operators.
FairSpec ==
  /\ Spec
  /\ \A t \in Tickets : WF_vars(AcceptByPasses(t))
  /\ SF_vars(SlaStep) /\ SF_vars(LateStep) /\ SF_vars(HoldStep)

-----------------------------------------------------------------------------
(* What must hold.                                                         *)

Statuses == {"NONE", "PENDING"} \union Engaged \union Terminal

TicketDoc ==
  [status : Statuses, tower : Towers \union {None}, loaded : BOOLEAN,
   eta : {"none", "ahead", "behind", "told"}, round : 1..MaxRounds,
   due : BOOLEAN, breached : BOOLEAN,
   hold : {"none", "timed", "over"}, given : {"no", "delivered", "received"}]
Kinds ==
  {"none", "accept", "arrive", "deliver", "cancel", "giveup", "rematch", "goon", "gooff"}
Points ==
  {"idle", "claim", "offduty", "eta", "status", "given", "quiet", "free", "release",
   "requeue", "switch"}
RequestDoc ==
  [kind : Kinds, pc : Points, t : Tickets \union {None}, w : Towers \union {None},
   put : Statuses]

\* Tickets, duties, requests and the sweep's lists have their shape.
TypeOK ==
  /\ bustle \in Bustles
  /\ ticket \in [Tickets -> TicketDoc]
  /\ onDuty \in [Towers -> BOOLEAN] /\ wish \in [Towers -> BOOLEAN]
  /\ req \in [Requests -> RequestDoc]
  /\ sweep \in [sla : SUBSET Tickets, late : SUBSET Tickets, holds : SUBSET Tickets]
  /\ cut \subseteq Tickets \union Towers /\ rough \subseteq Towers /\ clash \subseteq Tickets
  /\ faults \in 0..MaxFaults

\* A tow that is searched for names no tower and one that is under way does, between
\* the requests that decide on it.
TowerIsNamed ==
  \A t \in Tickets \ (cut \union clash) : Deciding(t) = {} =>
    /\ Is(t, {"PENDING"}) => ticket[t].tower = None
    /\ Is(t, Engaged) => ticket[t].tower # None

\* A tower no request is about is on duty exactly when its operator wants it and it
\* tows nothing, and a tow names its tower.  A request that dies half-way may leave a
\* tower on or off duty, until its tow ends or its operator switches; and a ticket,
\* for good (cut).  A tower whose requests overlapped, or that took a tow in the midst
\* of its cancel, may be left off duty with no tow, or on duty with one (rough), and
\* a tow two requests decided on at once without its tower (clash): API.md:1137 does
\* not say so.
DutyFollowsJob ==
  /\ \A w \in Towers \ (cut \union rough) :
       About(w) = {} => onDuty[w] = (wish[w] /\ JobsOf(w) = {})
  /\ TowerIsNamed

Stage(t) ==
  CASE Is(t, {"NONE"}) -> "unfiled"
    [] Is(t, {"RESOLVED"}) -> "delivered"
    [] Is(t, {"CANCELLED"}) -> "withdrawn"
    [] Is(t, Engaged) /\ ticket[t].tower # None -> "engaged"
    [] OTHER -> "searching"

Accepting == {r \in Requests : At(r, "claim")}

Promise ==
  INSTANCE TowPromise WITH stage <- [t \in Tickets |-> Stage(t)],
                           helper <- [t \in Tickets |-> ticket[t].tower],
                           asking <- {<<req[r].t, req[r].w>> : r \in Accepting},
                           astray <- clash

\* The documents, written field by field by requests that overlap and die at any
\* point, keep the promise: a tower asks for a tow when it has none, and has as many as
\* it asked for before the first was its own; of those who ask for a tow one gets it;
\* towers follow one another by way of the search only; and a tow that is over stays
\* over, though it was accepted while it was cancelled.  A tow is astray, and promised
\* no more than that it names nobody who did not ask, once two requests other than
\* accepts were to write its status at the same time (clash).
KeepsPromise == Promise!Spec

\* A search nobody answers ends or its rider is told; the rider of a tower that is
\* late is told; and a hold past its time is lifted.  Sweeps may fail, finitely often.
SweepsAnswer ==
  \A t \in Alone :
    /\ bustle = "search" /\ Is(t, {"PENDING"}) ~> ticket[t].breached \/ ~Is(t, {"PENDING"})
    /\ Is(t, {"MATCHED"}) /\ ticket[t].eta = "behind"
         ~> ticket[t].eta # "behind" \/ ~Is(t, {"MATCHED"})
    /\ ticket[t].hold = "over" ~> ticket[t].hold # "over"
=============================================================================
