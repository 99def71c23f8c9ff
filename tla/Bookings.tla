------------------------------ MODULE Bookings ------------------------------
(***************************************************************************)
(* Bookings of one slot of a shop's day: the shop answers, riders cancel,   *)
(* check in or have their vehicle towed in, deposits are asked and taken,   *)
(* and a sweep closes what nobody closed (bookingService, booking/sweep,    *)
(* bookingRepository, and the link from a delivered tow).                   *)
(*                                                                         *)
(* The slot's counter is claimed and released in transactions of its own;   *)
(* a booking is read, and later written without a condition.               *)
(***************************************************************************)
EXTENDS Integers, FiniteSets, Sequences

CONSTANTS
  Bookings,    \* bookings of the slot, each of another rider
  ByVehicle,   \* those that name a vehicle of the rider
  Deposits,    \* those whose services ask for a deposit
  Requests,    \* slots for HTTP requests in flight
  None,        \* no booking
  Capacity,    \* bookingCapacity of the shop
  OutsideHours, \* whether the slot lies outside the shop's hours
  MaxTickets,  \* bound: tickets opened for these bookings
  MaxFaults    \* bound: requests and sweeps that die

ASSUME BookingsAssumption ==
  /\ ByVehicle \subseteq Bookings /\ Deposits \subseteq Bookings
  /\ IsFiniteSet(Bookings) /\ None \notin Bookings
  /\ Capacity \in Nat \ {0} /\ OutsideHours \in BOOLEAN
  /\ MaxTickets \in Nat /\ MaxFaults \in Nat

VARIABLES
  clock,    \* where now is: see Phases
  slot,     \* booking_slots: how much of the slot is claimed
  booking,  \* booking[b]: status, arrivedAt set or not, ticketId, linkedTicketIds, depositStatus
  tickets,  \* the dispatch tickets of these bookings, in the order of creation
  req,      \* req[c]: the request in flight in slot c
  sweep,    \* sweepBookings: what it has listed and does next
  rough,    \* bookings whose requests overlapped, or died half-way (history)
  faults    \* how many handlers died

vars == <<clock, slot, booking, tickets, req, sweep, rough, faults>>

\* "early": more than 2 hours before the time; "open": from then until half an
\* hour after it; "grace": until 2 hours after it; "shut": later than that.
Phases == <<"early", "open", "grace", "shut">>
Now(phases) == Phases[clock] \in phases

Unmade == [status |-> "NONE", came |-> FALSE, ticket |-> 0, links |-> {}, deposit |-> "NONE"]
Idle ==
  [kind |-> "none", pc |-> "idle", b |-> None, t |-> 0, put |-> "NONE",
   links |-> {}, deposit |-> "NONE", first |-> FALSE]
Resting == [pc |-> "idle", b |-> None, left |-> {}]

Init ==
  /\ clock = 1
  /\ slot = 0
  /\ booking = [b \in Bookings |-> Unmade]
  /\ tickets = <<>>
  /\ req = [c \in Requests |-> Idle]
  /\ sweep = Resting
  /\ rough = {}
  /\ faults = 0

-----------------------------------------------------------------------------
At(c, pc) == req[c].pc = pc
Goto(c, next) == req' = [req EXCEPT ![c] = next]
Done(c) == Goto(c, Idle)
Is(b, statuses) == booking[b].status \in statuses
Write(b, doc) == booking' = [booking EXCEPT ![b] = doc]
Stamp(t, doc) == tickets' = [tickets EXCEPT ![t] = doc]

Listed(b) == sweep.pc # "idle" /\ (sweep.b = b \/ b \in sweep.left)
InFlight(b) == (\E c \in Requests : req[c].b = b) \/ Listed(b)

\* A request begins with its read of the booking.
Begin(c, b, next) ==
  /\ At(c, "idle")
  /\ Goto(c, next)
  /\ rough' = IF InFlight(b) THEN rough \union {b} ELSE rough
  /\ UNCHANGED <<clock, slot, booking, sweep, faults>>

\* What a request remembers of the booking it read.
Reading(b, kind, pc) ==
  [Idle EXCEPT !.kind = kind, !.pc = pc, !.b = b, !.t = booking[b].ticket,
               !.links = booking[b].links, !.deposit = booking[b].deposit]

Claimed == {b \in Bookings : booking[b].status = "CONFIRMED"}

\* Within hours a slot whose confirmed bookings fill it is refused.
Create(b) ==
  /\ booking[b] = Unmade /\ Now({"early", "open"})
  /\ OutsideHours \/ Cardinality(Claimed) < Capacity
  /\ Write(b, [Unmade EXCEPT !.status = "REQUESTED",
                             !.deposit = IF b \in Deposits THEN "DUE" ELSE "NONE"])
  /\ UNCHANGED <<clock, slot, tickets, req, sweep, rough, faults>>

Tick ==
  /\ clock < Len(Phases)
  /\ clock' = clock + 1
  /\ UNCHANGED <<slot, booking, tickets, req, sweep, rough, faults>>

-----------------------------------------------------------------------------
(* POST /bookings/respond, /cancel and /complete.                          *)

AcceptRead(c, b) ==
  /\ Is(b, {"REQUESTED"})
  /\ Begin(c, b, [Reading(b, "accept", "claim") EXCEPT !.put = "CONFIRMED"])
  /\ UNCHANGED tickets

DeclineRead(c, b) ==
  /\ Is(b, {"REQUESTED"})
  /\ Begin(c, b, [Reading(b, "decline", "write") EXCEPT !.put = "DECLINED"])
  /\ UNCHANGED tickets

\* Mutant of CancelRead: the slot is released whether or not it was claimed.
CancelReadAny(c, b) ==
  /\ Is(b, {"REQUESTED", "CONFIRMED"})
  /\ Begin(c, b, [Reading(b, "cancel", "release") EXCEPT !.put = "CANCELLED"])
  /\ UNCHANGED tickets

\* Only a confirmed booking holds capacity to release.
CancelRead(c, b) ==
  /\ Is(b, {"REQUESTED", "CONFIRMED"})
  /\ Begin(c, b, [Reading(b, "cancel", IF Is(b, {"CONFIRMED"}) THEN "release" ELSE "write")
                    EXCEPT !.put = "CANCELLED"])
  /\ UNCHANGED tickets

CompleteRead(c, b) ==
  /\ Is(b, {"CONFIRMED", "ARRIVED"})
  /\ Begin(c, b, [Reading(b, "complete", "write") EXCEPT !.put = "COMPLETED"])
  /\ UNCHANGED tickets

\* claimSlot, one transaction: a full slot refuses the request.
Claim(c) ==
  /\ At(c, "claim")
  /\ IF slot < Capacity
     THEN slot' = slot + 1 /\ Goto(c, [req[c] EXCEPT !.pc = "write"])
     ELSE UNCHANGED slot /\ Done(c)
  /\ UNCHANGED <<clock, booking, tickets, sweep, rough, faults>>

\* releaseSlot, one transaction that stops at zero.
Freed == IF slot > 0 THEN slot - 1 ELSE 0

Release(c) ==
  /\ At(c, "release")
  /\ slot' = Freed
  /\ Goto(c, [req[c] EXCEPT !.pc = "write"])
  /\ UNCHANGED <<clock, booking, tickets, sweep, rough, faults>>

SetStatus(c) ==
  /\ At(c, "write")
  /\ Write(req[c].b, [booking[req[c].b] EXCEPT !.status = req[c].put])
  /\ Done(c)
  /\ UNCHANGED <<clock, slot, tickets, sweep, rough, faults>>

-----------------------------------------------------------------------------
(* Tickets of a booking: POST /bookings/arrive and /bookings/tow.          *)

New(kind, b) ==
  [kind |-> kind, b |-> b, live |-> TRUE, parent |-> 0, deposit |-> "NONE", charge |-> "none"]
Next1 == Len(tickets) + 1
LiveOf(b) == {t \in DOMAIN tickets : tickets[t].b = b /\ tickets[t].live}

\* liveTicketConflict: by vehicle when there is one, else by type.
Conflict(b) == \E t \in LiveOf(b) : b \in ByVehicle \/ tickets[t].kind = "WALK_IN"

ArriveRead(c, b) ==
  /\ Is(b, {"CONFIRMED"}) /\ Now({"open", "grace"})
  /\ Begin(c, b, Reading(b, "arrive", "check"))
  /\ UNCHANGED tickets

Check(c) ==
  /\ At(c, "check")
  /\ IF Conflict(req[c].b) THEN Done(c) ELSE Goto(c, [req[c] EXCEPT !.pc = "open"])
  /\ UNCHANGED <<clock, slot, booking, tickets, sweep, rough, faults>>

OpenWalkIn(c) ==
  /\ At(c, "open") /\ Len(tickets) < MaxTickets
  /\ tickets' = Append(tickets, New("WALK_IN", req[c].b))
  /\ Goto(c, [req[c] EXCEPT !.pc = IF req[c].kind = "arrive" THEN "arrived" ELSE "adopt",
                            !.t = Next1])
  /\ UNCHANGED <<clock, slot, booking, sweep, rough, faults>>

\* The deposit, when there is one, is copied to the ticket by another call.
ThenCopy(c) ==
  IF req[c].b \in Deposits THEN [req[c] EXCEPT !.pc = "copy"] ELSE Idle

Arrived(c) ==
  /\ At(c, "arrived")
  /\ Write(req[c].b, [booking[req[c].b] EXCEPT !.status = "ARRIVED", !.came = TRUE,
                        !.ticket = req[c].t, !.links = req[c].links \union {req[c].t}])
  /\ Goto(c, ThenCopy(c))
  /\ UNCHANGED <<clock, slot, tickets, sweep, rough, faults>>

\* Mutant of Copy: the ticket gets the deposit as it was when it was booked.
CopyDue(c) ==
  /\ At(c, "copy")
  /\ Stamp(req[c].t, [tickets[req[c].t] EXCEPT !.deposit = "DUE"])
  /\ Done(c)
  /\ UNCHANGED <<clock, slot, booking, sweep, rough, faults>>

Copy(c) ==
  /\ At(c, "copy")
  /\ Stamp(req[c].t, [tickets[req[c].t] EXCEPT !.deposit = req[c].deposit])
  /\ Done(c)
  /\ UNCHANGED <<clock, slot, booking, sweep, rough, faults>>

TowRead(c, b) ==
  /\ Is(b, {"CONFIRMED"}) /\ ~Now({"shut"})
  /\ Begin(c, b, Reading(b, "tow", "look"))
  /\ UNCHANGED tickets

\* A linked tow that is still open is returned instead of filing another.
Look(c) ==
  /\ At(c, "look")
  /\ IF \E t \in req[c].links : tickets[t].kind = "TOW" /\ tickets[t].live
     THEN Done(c)
     ELSE Goto(c, [req[c] EXCEPT !.pc = "file"])
  /\ UNCHANGED <<clock, slot, booking, tickets, sweep, rough, faults>>

FileTow(c) ==
  /\ At(c, "file") /\ Len(tickets) < MaxTickets
  /\ tickets' = Append(tickets, New("TOW", req[c].b))
  /\ Goto(c, [req[c] EXCEPT !.pc = "link", !.t = Next1])
  /\ UNCHANGED <<clock, slot, booking, sweep, rough, faults>>

LinkTow(c) ==
  /\ At(c, "link")
  /\ Write(req[c].b, [booking[req[c].b] EXCEPT !.links = req[c].links \union {req[c].t}])
  /\ Done(c)
  /\ UNCHANGED <<clock, slot, tickets, sweep, rough, faults>>

\* A ticket ends by its own life: the work is done, declined or cancelled.
CloseTicket(t) ==
  /\ tickets[t].live
  /\ Stamp(t, [tickets[t] EXCEPT !.live = FALSE])
  /\ UNCHANGED <<clock, slot, booking, req, sweep, rough, faults>>

-----------------------------------------------------------------------------
(* A tow is delivered: spawnShopTicket and linkBookingArrival.             *)

DeliverRead(c, t) ==
  /\ tickets[t].kind = "TOW" /\ tickets[t].live
  /\ Begin(c, tickets[t].b, [Idle EXCEPT !.kind = "deliver", !.pc = "resolve",
                                          !.b = tickets[t].b, !.links = {t}])
  /\ UNCHANGED tickets

Parent(c) == CHOOSE t \in req[c].links : TRUE

Resolve(c) ==
  /\ At(c, "resolve")
  /\ Stamp(Parent(c), [tickets[Parent(c)] EXCEPT !.live = FALSE])
  /\ Goto(c, [req[c] EXCEPT !.pc = "find"])
  /\ UNCHANGED <<clock, slot, booking, sweep, rough, faults>>

WalkInsOf(b) == {t \in DOMAIN tickets : tickets[t].b = b /\ tickets[t].kind = "WALK_IN"}

\* Mutant of Find: every delivered tow opens a walk-in of its own.
FindNothing(c) ==
  /\ At(c, "find")
  /\ Goto(c, [req[c] EXCEPT !.pc = "open"])
  /\ UNCHANGED <<clock, slot, booking, tickets, sweep, rough, faults>>

\* A walk-in this tow already has, else a live one younger than the tow that
\* belongs to no other tow, else a new one.
Find(c) ==
  /\ At(c, "find")
  /\ LET walkIns == WalkInsOf(req[c].b)
         linked == {t \in walkIns : tickets[t].parent = Parent(c)}
         free == {t \in walkIns : tickets[t].live /\ tickets[t].parent = 0 /\ t > Parent(c)}
         found == IF linked # {} THEN linked ELSE free
     IN \/ \E t \in found :
             Goto(c, [req[c] EXCEPT !.pc = IF t \in linked THEN "meet" ELSE "adopt", !.t = t])
        \/ found = {} /\ Goto(c, [req[c] EXCEPT !.pc = "open"])
  /\ UNCHANGED <<clock, slot, booking, tickets, sweep, rough, faults>>

Adopt(c) ==
  /\ At(c, "adopt")
  /\ Stamp(req[c].t, [tickets[req[c].t] EXCEPT !.parent = Parent(c)])
  /\ Goto(c, [req[c] EXCEPT !.pc = "meet"])
  /\ UNCHANGED <<clock, slot, booking, sweep, rough, faults>>

\* The read of linkBookingArrival: an open booking is to be marked ARRIVED.
Meet(c) ==
  /\ At(c, "meet")
  /\ LET b == req[c].b IN
     Goto(c, [req[c] EXCEPT
       !.pc = "join",
       !.put = IF Is(b, {"REQUESTED", "CONFIRMED"}) THEN "ARRIVED" ELSE "NONE",
       !.first = booking[b].ticket = 0,
       !.links = booking[b].links \union {Parent(c), req[c].t},
       !.deposit = booking[b].deposit])
  /\ UNCHANGED <<clock, slot, booking, tickets, sweep, rough, faults>>

Join(c) ==
  /\ At(c, "join")
  /\ LET b == req[c].b
         doc == booking[b]
     IN Write(b, [doc EXCEPT
          !.status = IF req[c].put = "NONE" THEN doc.status ELSE req[c].put,
          !.came = TRUE,
          !.ticket = IF req[c].first THEN req[c].t ELSE doc.ticket,
          !.links = req[c].links])
  /\ Goto(c, ThenCopy(c))
  /\ UNCHANGED <<clock, slot, tickets, sweep, rough, faults>>

-----------------------------------------------------------------------------
(* Deposits: POST /bookings/deposit and /deposit/request, and the payment. *)

\* The ticket is stamped first, when the booking read had one.
CollectRead(c, b, how) ==
  /\ b \in Deposits /\ Is(b, {"CONFIRMED", "ARRIVED"})
  /\ Begin(c, b, [Reading(b, "collect", IF booking[b].ticket = 0 THEN "keep" ELSE "stamp")
                    EXCEPT !.put = how])
  /\ UNCHANGED tickets

RequestRead(c, b) ==
  /\ b \in Deposits /\ Is(b, {"CONFIRMED", "ARRIVED"}) /\ booking[b].ticket # 0
  /\ Begin(c, b, [Reading(b, "request", "charge") EXCEPT !.put = "REQUESTED"])
  /\ UNCHANGED tickets

\* createDepositPayment: a charge that exists is returned as it is; a ticket
\* without a deposit is refused.
Charge(c) ==
  /\ At(c, "charge")
  /\ LET t == tickets[req[c].t] IN
     IF t.deposit = "NONE" THEN UNCHANGED tickets /\ Done(c)
     ELSE IF t.charge # "none" THEN UNCHANGED tickets /\ Goto(c, [req[c] EXCEPT !.pc = "keep"])
     ELSE Stamp(req[c].t, [t EXCEPT !.charge = "open"]) /\ Goto(c, [req[c] EXCEPT !.pc = "stamp"])
  /\ UNCHANGED <<clock, slot, booking, sweep, rough, faults>>

\* The rider pays: the charge is confirmed, then markDepositConfirmed begins.
Paid(c, t) ==
  /\ tickets[t].charge = "open"
  /\ Begin(c, tickets[t].b, [Idle EXCEPT !.kind = "paid", !.pc = "stamp", !.t = t,
                                         !.b = tickets[t].b, !.put = "CONFIRMED"])
  /\ Stamp(t, [tickets[t] EXCEPT !.charge = "held"])

StampDeposit(c) ==
  /\ At(c, "stamp")
  /\ Stamp(req[c].t, [tickets[req[c].t] EXCEPT !.deposit = req[c].put])
  /\ Goto(c, [req[c] EXCEPT !.pc = "keep"])
  /\ UNCHANGED <<clock, slot, booking, sweep, rough, faults>>

KeepDeposit(c) ==
  /\ At(c, "keep")
  /\ Write(req[c].b, [booking[req[c].b] EXCEPT !.deposit = req[c].put])
  /\ Done(c)
  /\ UNCHANGED <<clock, slot, tickets, sweep, rough, faults>>

-----------------------------------------------------------------------------
(* sweepBookings: no-shows first, then bookings that arrived long ago.     *)

Due == {b \in Bookings : Is(b, {"CONFIRMED"}) /\ Now({"grace", "shut"})}
\* Mutant of LongAgo: a booking the rider checked into stays open.
LongAgoNever == {b \in Bookings : Is(b, {"ARRIVED"}) /\ ~booking[b].came}

LongAgo == {b \in Bookings : Is(b, {"ARRIVED"}) /\ Now({"shut"})}

Overlapping(bs) == {b \in bs : \E c \in Requests : req[c].b = b}

\* Rows listed with arrivedAt set are skipped.
ListNoShows ==
  /\ sweep.pc = "idle" /\ Due \union LongAgo # {}
  /\ sweep' = [Resting EXCEPT !.pc = "noshow", !.left = {b \in Due : ~booking[b].came}]
  /\ rough' = rough \union Overlapping({b \in Due : ~booking[b].came})
  /\ UNCHANGED <<clock, slot, booking, tickets, req, faults>>

ReleaseNoShow(b) ==
  /\ sweep.pc = "noshow" /\ b \in sweep.left
  /\ slot' = Freed
  /\ sweep' = [pc |-> "mark", b |-> b, left |-> sweep.left \ {b}]
  /\ UNCHANGED <<clock, booking, tickets, req, rough, faults>>

\* Mutant of MarkNoShow: the whole document is written, arrivedAt as it was listed.
MarkNoShowWhole ==
  /\ sweep.pc = "mark"
  /\ Write(sweep.b, [booking[sweep.b] EXCEPT !.status = "NO_SHOW", !.came = FALSE])
  /\ sweep' = [pc |-> "noshow", b |-> None, left |-> sweep.left]
  /\ UNCHANGED <<clock, slot, tickets, req, rough, faults>>

MarkNoShow ==
  /\ sweep.pc = "mark"
  /\ Write(sweep.b, [booking[sweep.b] EXCEPT !.status = "NO_SHOW"])
  /\ sweep' = [pc |-> "noshow", b |-> None, left |-> sweep.left]
  /\ UNCHANGED <<clock, slot, tickets, req, rough, faults>>

ListArrived ==
  /\ sweep.pc = "noshow" /\ sweep.left = {}
  /\ sweep' = IF LongAgo = {} THEN Resting ELSE [Resting EXCEPT !.pc = "complete", !.left = LongAgo]
  /\ rough' = rough \union Overlapping(LongAgo)
  /\ UNCHANGED <<clock, slot, booking, tickets, req, faults>>

AutoComplete(b) ==
  /\ sweep.pc = "complete" /\ b \in sweep.left
  /\ Write(b, [booking[b] EXCEPT !.status = "COMPLETED"])
  /\ sweep' = IF sweep.left = {b} THEN Resting ELSE [sweep EXCEPT !.left = sweep.left \ {b}]
  /\ UNCHANGED <<clock, slot, tickets, req, rough, faults>>

-----------------------------------------------------------------------------
\* An instance dies, or a call throws: the rest of the handler never happens.
Abort(c) ==
  /\ ~At(c, "idle") /\ faults < MaxFaults
  /\ Done(c)
  /\ rough' = rough \union {req[c].b}
  /\ faults' = faults + 1
  /\ UNCHANGED <<clock, slot, booking, tickets, sweep>>

AbortSweep ==
  /\ sweep.pc # "idle" /\ faults < MaxFaults
  /\ sweep' = Resting
  /\ rough' = IF sweep.pc = "mark" THEN rough \union {sweep.b} ELSE rough
  /\ faults' = faults + 1
  /\ UNCHANGED <<clock, slot, booking, tickets, req>>

Ask(c, b) ==
  \/ AcceptRead(c, b) \/ DeclineRead(c, b) \/ CancelRead(c, b) \/ CompleteRead(c, b)
  \/ ArriveRead(c, b) \/ TowRead(c, b) \/ RequestRead(c, b)
  \/ \E how \in {"COLLECTED", "WAIVED"} : CollectRead(c, b, how)

Work(c) ==
  \/ Claim(c) \/ Release(c) \/ SetStatus(c)
  \/ Check(c) \/ OpenWalkIn(c) \/ Arrived(c) \/ Copy(c)
  \/ Look(c) \/ FileTow(c) \/ LinkTow(c)
  \/ Resolve(c) \/ Find(c) \/ Adopt(c) \/ Meet(c) \/ Join(c)
  \/ Charge(c) \/ StampDeposit(c) \/ KeepDeposit(c)

SweepStep ==
  \/ ListNoShows \/ MarkNoShow \/ ListArrived
  \/ \E b \in Bookings : ReleaseNoShow(b) \/ AutoComplete(b)

Next ==
  \/ Tick \/ \E b \in Bookings : Create(b)
  \/ \E c \in Requests :
       \/ \E b \in Bookings : Ask(c, b)
       \/ \E t \in DOMAIN tickets : DeliverRead(c, t) \/ Paid(c, t)
       \/ Work(c) \/ Abort(c)
  \/ \E t \in DOMAIN tickets : CloseTicket(t)
  \/ SweepStep \/ AbortSweep

Spec == Init /\ [][Next]_vars

\* Time passes, and every five minutes the scheduler runs the sweep to its end
\* or to the failure of one of its calls, of which there are finitely many.
FairSpec == Spec /\ WF_vars(SweepStep) /\ WF_vars(Tick)

-----------------------------------------------------------------------------
(* What must hold.                                                         *)

Statuses ==
  {"REQUESTED", "CONFIRMED", "DECLINED", "CANCELLED", "ARRIVED", "COMPLETED", "NO_SHOW"}
DepositStatuses == {"NONE", "DUE", "REQUESTED", "COLLECTED", "WAIVED", "CONFIRMED"}
Kinds ==
  {"none", "accept", "decline", "cancel", "complete", "arrive", "tow", "deliver",
   "collect", "request", "paid"}
Points ==
  {"idle", "claim", "release", "write", "check", "open", "arrived", "copy", "look", "file",
   "link", "resolve", "find", "adopt", "meet", "join", "charge", "stamp", "keep"}
Ids == 1..MaxTickets

BookingDoc ==
  [status : Statuses \union {"NONE"}, came : BOOLEAN, ticket : Ids \union {0},
   links : SUBSET Ids, deposit : DepositStatuses]
TicketDoc ==
  [kind : {"WALK_IN", "TOW"}, b : Bookings, live : BOOLEAN, parent : Ids \union {0},
   deposit : DepositStatuses, charge : {"none", "open", "held"}]
RequestDoc ==
  [kind : Kinds, pc : Points, b : Bookings \union {None}, t : Ids \union {0},
   put : Statuses \union DepositStatuses, links : SUBSET Ids,
   deposit : DepositStatuses, first : BOOLEAN]

\* Every document, request and sweep has its shape, the slot is never claimed
\* beyond its capacity, and a booking's tickets exist.
TypeOK ==
  /\ clock \in 1..Len(Phases)
  /\ slot \in 0..Capacity
  /\ booking \in [Bookings -> BookingDoc]
  /\ tickets \in Seq(TicketDoc) /\ Len(tickets) <= MaxTickets
  /\ \A b \in Bookings : booking[b].links \union ({booking[b].ticket} \ {0}) \subseteq DOMAIN tickets
  /\ req \in [Requests -> RequestDoc]
  /\ sweep.pc \in {"idle", "noshow", "mark", "complete"}
  /\ sweep.b \in Bookings \union {None} /\ sweep.left \subseteq Bookings
  /\ rough \subseteq Bookings
  /\ faults \in 0..MaxFaults

\* Who has a share of the slot: bookings that were confirmed and not given up,
\* counting a claim just made and not a share just released.
ClaimedBy(b) == \E c \in Requests : req[c].b = b /\ req[c].kind = "accept" /\ At(c, "write")
ReleasedBy(b) ==
  \/ \E c \in Requests : req[c].b = b /\ req[c].kind = "cancel" /\ At(c, "write")
  \/ sweep.pc = "mark" /\ sweep.b = b
Holding(b) ==
  ClaimedBy(b) \/ (Is(b, {"CONFIRMED", "ARRIVED", "COMPLETED"}) /\ ~ReleasedBy(b))

\* As long as no booking's own requests overlapped or died, however those of
\* different bookings and the sweep interleave, the counter is the number of
\* bookings that hold the slot: no capacity is leaked and none is sold twice.
SlotIsExact == rough = {} => slot = Cardinality({b \in Bookings : Holding(b)})

\* However a vehicle comes in, ridden and towed, one piece of work is open for a
\* booking at a time.  Between requests it agrees with the booking on the deposit,
\* save for a request repeated after the charge was opened, which marks the booking
\* only.
OneWorkTicket ==
  \A b \in Bookings \ rough :
    /\ Cardinality(LiveOf(b) \intersect WalkInsOf(b)) <= 1
    /\ booking[b].ticket # 0 /\ ~InFlight(b) /\ booking[b].deposit # "REQUESTED"
         => tickets[booking[b].ticket].deposit = booking[b].deposit

\* The sweep marks as a no-show a booking whose rider checks in, or whose vehicle is
\* delivered, after it was listed (section 5 of README.md).  What no request, sweep
\* or death takes away, whatever it crosses, is the record of the arrival: a rider
\* who came has come for good, and the booking names a work ticket of its own.
ArrivalIsKeptStep ==
  \A b \in Bookings :
    /\ booking[b].came => booking'[b].came
    /\ booking'[b].came \/ booking'[b].status = "ARRIVED" =>
         booking'[b].came /\ booking'[b].ticket \in WalkInsOf(b)'
ArrivalIsKept == [][ArrivalIsKeptStep]_vars

\* A confirmed booking is closed when its time is long over, and so is one whose
\* rider came and whose shop forgot to complete it, even if sweeps fail.
Open(b) == Is(b, {"CONFIRMED", "ARRIVED"})
BookingsClose ==
  \A b \in Bookings : Open(b) /\ Now({"shut"}) ~> ~Open(b) \/ b \in rough
=============================================================================
