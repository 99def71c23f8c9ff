--------------------------- MODULE BookingsProofs ---------------------------
(* Proofs about Bookings, for any bookings, requests in flight, capacity and  *)
(* bounds, and about the Reminders of bookings and bills.                     *)
EXTENDS Bookings, Reminders, FiniteSetTheorems, TLAPS

------------------------------------------------------------------------------
(* The inductive invariant *)

Owns(b, t) == t \in DOMAIN tickets /\ tickets[t].b = b
Tows(b) == {t \in DOMAIN tickets : tickets[t].b = b /\ tickets[t].kind = "TOW"}
LiveTows(b) == {t \in Tows(b) : tickets[t].live}
LiveWalkIns(b) == {t \in WalkInsOf(b) : tickets[t].live}
Of(c, b) == req[c].b = b

Agree(b) ==
  booking[b].ticket # 0 /\ booking[b].deposit # "REQUESTED"
    => tickets[booking[b].ticket].deposit = booking[b].deposit

\* What a request is, wherever it stands: its points, what it is about to
\* write, and the tickets it holds.
Delivering == {"resolve", "find", "open", "adopt", "meet"}
Errand(d) ==
  /\ d.pc = "idle" => d = Idle
  /\ d.pc # "idle" => d.b \in Bookings /\ d.kind # "none"
  /\ d.kind = "accept" => d.put = "CONFIRMED" /\ d.pc \in {"claim", "write"}
  /\ d.kind = "decline" => d.put = "DECLINED" /\ d.pc = "write"
  /\ d.kind = "cancel" => d.put = "CANCELLED" /\ d.pc \in {"release", "write"}
  /\ d.kind = "complete" => d.put = "COMPLETED" /\ d.pc = "write"
  /\ d.kind = "arrive" => d.pc \in {"check", "open", "arrived", "copy"}
  /\ d.kind = "tow" => d.pc \in {"look", "file", "link"}
  /\ d.kind = "deliver" => d.pc \in Delivering \cup {"join", "copy"}
  /\ d.kind = "collect" => d.put \in {"COLLECTED", "WAIVED"} /\ d.pc \in {"stamp", "keep"}
  /\ d.kind = "request" => d.put = "REQUESTED" /\ d.pc \in {"charge", "stamp", "keep"}
  /\ d.kind = "paid" => d.put = "CONFIRMED" /\ d.pc \in {"stamp", "keep"}
  /\ d.pc = "join" => d.put \in {"ARRIVED", "NONE"}
  /\ d.pc \in {"copy", "charge", "stamp", "keep"} => d.b \in Deposits
Holds(d) ==
  /\ d.links \subseteq DOMAIN tickets
  /\ d.pc \in {"arrived", "adopt", "meet", "join", "copy"} => d.t \in WalkInsOf(d.b)
  /\ d.pc = "link" => d.t \in Tows(d.b)
  /\ d.pc \in {"charge", "stamp"} => Owns(d.b, d.t)
  /\ d.kind = "deliver" /\ d.pc \in Delivering => \E p \in Tows(d.b) : d.links = {p}
Shape(d) == Errand(d) /\ Holds(d)

\* What a request d that is alone with its booking b still knows of it.
Deciding(b, d) ==
  /\ d.kind \in {"accept", "decline"} => Is(b, {"REQUESTED"})
  /\ d.kind = "cancel" => Is(b, {"REQUESTED", "CONFIRMED"})
  /\ d.pc = "release" => Is(b, {"CONFIRMED"})
  /\ d.kind = "complete" => Is(b, {"CONFIRMED", "ARRIVED"})
Arriving(b, d) ==
  /\ d.kind = "arrive" /\ d.pc # "copy" =>
       /\ Is(b, {"CONFIRMED"}) /\ booking[b].ticket = 0
       /\ d.links = booking[b].links /\ d.deposit = booking[b].deposit
  /\ d.kind = "arrive" /\ d.pc \in {"check", "open"} => WalkInsOf(b) = {}
Towing(b, d) ==
  /\ d.kind = "tow" => /\ Is(b, {"CONFIRMED"}) /\ WalkInsOf(b) = {}
                       /\ d.links = booking[b].links
  /\ d.pc = "file" => LiveTows(b) = {}
  /\ d.pc = "link" => LiveTows(b) \subseteq {d.t}
Dropping(b, d) ==
  /\ d.pc = "resolve" => LiveTows(b) \subseteq d.links
  /\ d.kind = "deliver" /\ d.pc # "resolve" => LiveTows(b) = {}
  /\ d.pc \in {"resolve", "find"} => \A w \in WalkInsOf(b) : tickets[w].parent = 0
  /\ d.kind = "deliver" /\ d.pc = "open" => LiveWalkIns(b) = {}
  /\ d.pc = "join" => /\ booking[b].links \subseteq d.links
                      /\ d.first = (booking[b].ticket = 0)
                      /\ (d.put = "ARRIVED") = Is(b, {"CONFIRMED"})
                      /\ d.deposit = booking[b].deposit
Banking(b, d) ==
  /\ d.pc = "copy" => /\ d.deposit = booking[b].deposit /\ ~Is(b, {"CONFIRMED"})
                      /\ Agree(b) \/ d.t = booking[b].ticket
  /\ d.pc \in {"charge", "stamp"} => d.t = booking[b].ticket
  /\ d.pc = "keep" => \/ booking[b].ticket = 0 \/ d.put = "REQUESTED"
                      \/ tickets[booking[b].ticket].deposit = d.put
Sound(b, d) == Deciding(b, d) /\ Arriving(b, d) /\ Towing(b, d) /\ Dropping(b, d) /\ Banking(b, d)

\* A booking and its tickets: it has some only once confirmed; the walk-in comes
\* after every tow and takes the booking out of CONFIRMED; one tow and one
\* walk-in are live at most; only the work ticket is charged.
Settled == Statuses \ {"REQUESTED", "DECLINED"}
Begun(b) == WalkInsOf(b) \cup Tows(b) # {} => booking[b].status \in Settled
Received(b) ==
  WalkInsOf(b) # {} /\ Is(b, {"CONFIRMED"}) =>
    \E c \in Requests : Of(c, b) /\ req[c].pc \in {"arrived", "adopt", "meet", "join"}
InTurn(b) == \A w \in WalkInsOf(b), t \in Tows(b) : w > t
Linked(b) ==
  \A t \in LiveTows(b) :
    t \in booking[b].links \/ \E c \in Requests : Of(c, b) /\ req[c].pc = "link" /\ req[c].t = t
OneTow(b) == \A t, u \in LiveTows(b) : t = u
Parked(b) == \A w \in WalkInsOf(b) : tickets[w].parent # 0 => LiveTows(b) = {}
OneWork(b) == \A v, w \in LiveWalkIns(b) : v = w
WorkTicket(b) == booking[b].ticket # 0 => booking[b].ticket \in WalkInsOf(b)
Charged(b) ==
  \A t \in WalkInsOf(b) \cup Tows(b) : tickets[t].charge # "none" => t = booking[b].ticket
DepositKept(b) == Agree(b) \/ \E c \in Requests : Of(c, b) /\ req[c].pc \in {"copy", "keep"}
Tidy(b) ==
  /\ Begun(b) /\ Received(b) /\ InTurn(b) /\ Linked(b) /\ OneTow(b)
  /\ Parked(b) /\ OneWork(b) /\ WorkTicket(b) /\ Charged(b) /\ DepositKept(b)

\* One handler a booking, unless it is rough; and what the sweep listed stands.
Alone(b) ==
  /\ \A c, d \in Requests : Of(c, b) /\ Of(d, b) => c = d
  /\ \A c \in Requests : Of(c, b) => ~Listed(b)
Swept(b) ==
  /\ sweep.pc = "noshow" /\ b \in sweep.left => Is(b, {"CONFIRMED"})
  /\ sweep.pc = "mark" /\ (b = sweep.b \/ b \in sweep.left) => Is(b, {"CONFIRMED"})
  /\ sweep.pc = "complete" /\ b \in sweep.left => Is(b, {"ARRIVED"})
SweepShape ==
  /\ sweep.pc = "mark" => sweep.b \in Bookings /\ sweep.b \notin sweep.left
  /\ sweep.pc # "mark" => sweep.b = None
  /\ sweep = [pc |-> sweep.pc, b |-> sweep.b, left |-> sweep.left]

NoDeposit(b) ==
  b \notin Deposits =>
    /\ booking[b].deposit = "NONE"
    /\ \A t \in DOMAIN tickets :
         tickets[t].b = b => tickets[t].deposit = "NONE" /\ tickets[t].charge = "none"
Owned(b) == booking[b].ticket # 0 => Owns(b, booking[b].ticket)

Good(b) ==
  /\ NoDeposit(b) /\ Owned(b)
  /\ b \notin rough =>
       /\ Alone(b) /\ Tidy(b) /\ Swept(b)
       /\ \A c \in Requests : Of(c, b) => Sound(b, req[c])

IInv ==
  /\ TypeOK /\ SweepShape
  /\ \A c \in Requests : Shape(req[c])
  /\ \A b \in Bookings : Good(b)
  /\ SlotIsExact

------------------------------------------------------------------------------
(* What a step of one booking leaves of the others *)

\* Tickets are only added, and keep their booking and kind; those of other
\* bookings than b stay as they are.
Files(b) ==
  /\ tickets' \in Seq(TicketDoc) /\ Len(tickets') <= MaxTickets
  /\ DOMAIN tickets \subseteq DOMAIN tickets'
  /\ \A t \in DOMAIN tickets : tickets'[t].b = tickets[t].b /\ tickets'[t].kind = tickets[t].kind
  /\ \A t \in DOMAIN tickets' : tickets'[t].b # b => t \in DOMAIN tickets /\ tickets'[t] = tickets[t]
Filed(x) ==
  /\ WalkInsOf(x)' = WalkInsOf(x) /\ Tows(x)' = Tows(x)
  /\ {t \in DOMAIN tickets : tickets[t].b = x}' = {t \in DOMAIN tickets : tickets[t].b = x}
  /\ \A t \in DOMAIN tickets : tickets[t].b = x => t \in DOMAIN tickets' /\ tickets'[t] = tickets[t]
Asked(x) ==
  \A c \in Requests : (Of(c, x) \/ Of(c, x)') => Of(c, x) /\ Of(c, x)' /\ req'[c] = req[c]

LEMMA FiledElsewhere ==
  ASSUME NEW b \in Bookings, NEW x \in Bookings, x # b, Files(b)
  PROVE  Filed(x)
<1>1. ASSUME NEW t \in DOMAIN tickets, tickets[t].b = x
      PROVE  t \in DOMAIN tickets' /\ tickets'[t] = tickets[t]
  BY <1>1 DEF Files
<1>2. ASSUME NEW t \in DOMAIN tickets', tickets'[t].b = x
      PROVE  t \in DOMAIN tickets /\ tickets'[t] = tickets[t]
  BY <1>2 DEF Files
<1> QED  BY <1>1, <1>2 DEF Filed, WalkInsOf, Tows

LEMMA FiledSame ==
  ASSUME UNCHANGED tickets, NEW x \in Bookings
  PROVE  Filed(x)
BY DEF Filed, WalkInsOf, Tows

LEMMA LiveSets ==
  ASSUME NEW x \in Bookings, Filed(x)
  PROVE  LiveTows(x)' = LiveTows(x) /\ LiveWalkIns(x)' = LiveWalkIns(x)
<1>1. \A t \in Tows(x) \cup WalkInsOf(x) : tickets'[t] = tickets[t]
  BY DEF Filed, Tows, WalkInsOf
<1> QED  BY <1>1 DEF Filed, LiveTows, LiveWalkIns

LEMMA StillBook ==
  ASSUME NEW x \in Bookings, Filed(x), booking'[x] = booking[x], Asked(x),
         NoDeposit(x), Owned(x)
  PROVE  /\ NoDeposit(x)' /\ Owned(x)'
         /\ Tidy(x) => Tidy(x)'
<1>1. \A t \in Tows(x) \cup WalkInsOf(x) : tickets'[t] = tickets[t]
  BY DEF Filed, Tows, WalkInsOf
<1>2. /\ WalkInsOf(x)' = WalkInsOf(x) /\ Tows(x)' = Tows(x)
      /\ LiveTows(x)' = LiveTows(x) /\ LiveWalkIns(x)' = LiveWalkIns(x)
  BY LiveSets DEF Filed
<1>3. \A c \in Requests : Of(c, x) => Of(c, x)' /\ req'[c] = req[c]
  BY DEF Asked
<1>4. NoDeposit(x)'
  BY DEF NoDeposit, Filed
<1>5. Owned(x)'
  BY DEF Owned, Owns, Filed
<1>6. Agree(x) => Agree(x)'
  BY DEF Agree, Owned, Owns, Filed
<1>7. Begun(x) => Begun(x)'
  BY <1>2 DEF Begun
<1>8. Received(x) => Received(x)'
  BY <1>2, <1>3 DEF Received, Is
<1>9. InTurn(x) => InTurn(x)'
  BY <1>2 DEF InTurn
<1>10. Linked(x) => Linked(x)'
  BY <1>2, <1>3 DEF Linked
<1>11. OneTow(x) => OneTow(x)'
  BY <1>2 DEF OneTow
<1>12. Parked(x) => Parked(x)'
  BY <1>1, <1>2 DEF Parked
<1>13. OneWork(x) => OneWork(x)'
  BY <1>2 DEF OneWork
<1>14. WorkTicket(x) => WorkTicket(x)'
  BY <1>2 DEF WorkTicket
<1>15. Charged(x) => Charged(x)'
  BY <1>1, <1>2 DEF Charged
<1>16. DepositKept(x) => DepositKept(x)'
  BY <1>3, <1>6 DEF DepositKept
<1> QED
  BY <1>4, <1>5, <1>7, <1>8, <1>9, <1>10, <1>11, <1>12, <1>13, <1>14, <1>15, <1>16 DEF Tidy

LEMMA StillSound ==
  ASSUME NEW x \in Bookings, NEW d, Filed(x), booking'[x] = booking[x], Owned(x), Sound(x, d)
  PROVE  Sound(x, d)'
<1>1. \A t \in Tows(x) \cup WalkInsOf(x) : tickets'[t] = tickets[t]
  BY DEF Filed, Tows, WalkInsOf
<1>2. /\ WalkInsOf(x)' = WalkInsOf(x) /\ Tows(x)' = Tows(x)
      /\ LiveTows(x)' = LiveTows(x) /\ LiveWalkIns(x)' = LiveWalkIns(x)
  BY LiveSets DEF Filed
<1>3. booking[x].ticket # 0 => tickets'[booking[x].ticket] = tickets[booking[x].ticket]
  BY DEF Owned, Owns, Filed
<1>4. Agree(x)' <=> Agree(x)
  BY <1>3 DEF Agree
<1>5. Deciding(x, d)'
  BY DEF Sound, Deciding, Is
<1>6. Arriving(x, d)'
  BY <1>2 DEF Sound, Arriving, Is
<1>7. Towing(x, d)'
  BY <1>2 DEF Sound, Towing, Is
<1>8. Dropping(x, d)'
  BY <1>1, <1>2 DEF Sound, Dropping, Is
<1>9. Banking(x, d)'
  BY <1>3, <1>4 DEF Sound, Banking, Is
<1> QED  BY <1>5, <1>6, <1>7, <1>8, <1>9 DEF Sound

\* A booking that a step leaves alone stays good, when the sweep's list does.
LEMMA StillGood ==
  ASSUME NEW x \in Bookings, Filed(x), booking'[x] = booking[x], Asked(x), Good(x),
         x \notin rough' => x \notin rough /\ Alone(x)' /\ Swept(x)'
  PROVE  Good(x)'
<1>1. /\ NoDeposit(x)' /\ Owned(x)' /\ (Tidy(x) => Tidy(x)')
  BY StillBook DEF Good
<1>2. ASSUME x \notin rough', NEW u \in Requests, Of(u, x)' PROVE Sound(x, req[u])'
  <2>1. Of(u, x) /\ req'[u] = req[u]
    BY <1>2 DEF Asked
  <2>2. PICK e : e = req[u]
    OBVIOUS
  <2>3. Sound(x, e) /\ Owned(x)
    BY <1>2, <2>1, <2>2 DEF Good
  <2>4. Sound(x, e)'
    BY <2>3, StillSound
  <2> QED  BY <2>1, <2>2, <2>4
<1> QED  BY <1>1, <1>2 DEF Good

\* The documents a request holds stay what they are as tickets are added.
LEMMA StillShape ==
  ASSUME NEW b \in Bookings, NEW d, Files(b), Shape(d)
  PROVE  Shape(d)'
<1>1. \A x : WalkInsOf(x) \subseteq WalkInsOf(x)' /\ Tows(x) \subseteq Tows(x)'
  BY DEF Files, WalkInsOf, Tows
<1>2. \A x, t : Owns(x, t) => Owns(x, t)'
  BY DEF Files, Owns
<1>3. Errand(d)'
  BY DEF Shape, Errand
<1>4. d.links \subseteq DOMAIN tickets'
  BY DEF Shape, Holds, Files
<1>5. Holds(d)'
  BY <1>1, <1>2, <1>4 DEF Shape, Holds
<1> QED  BY <1>3, <1>5 DEF Shape

------------------------------------------------------------------------------
(* The counter of the slot *)

\* b's share of the slot, told from its status and the request alone with it.
Share(b, status, d) ==
  \/ d.b = b /\ d.kind = "accept" /\ d.pc = "write"
  \/ status \in {"CONFIRMED", "ARRIVED", "COMPLETED"}
     /\ ~(d.b = b /\ d.kind = "cancel" /\ d.pc = "write")
Holders == {x \in Bookings : Holding(x)}
\* What a step of b does to the counter and to the bookings that hold the slot.
Counts(before, after) ==
  \/ slot' = slot /\ (after <=> before)
  \/ slot' = slot + 1 /\ ~before /\ after
  \/ slot' = slot - 1 /\ before /\ ~after

LEMMA CountHolders ==
  ASSUME IInv, NEW b \in Bookings, \A x \in Bookings \ {b} : Holding(x)' <=> Holding(x),
         rough' = {} => rough = {} /\ Counts(Holding(b), Holding(b)')
  PROVE  SlotIsExact'
<1> SUFFICES ASSUME rough' = {} PROVE slot' = Cardinality(Holders')
  BY DEF SlotIsExact, Holders
<1>1. slot = Cardinality(Holders)
  BY DEF IInv, SlotIsExact, Holders
<1>2. PICK H, K : H = Holders /\ K = Holders'
  OBVIOUS
<1>3. H \subseteq Bookings /\ IsFiniteSet(H)
  BY <1>2, BookingsAssumption, FS_Subset DEF Holders
<1>4. \A x \in Bookings \ {b} : x \in K <=> x \in H
  BY <1>2 DEF Holders
<1>5. K \subseteq Bookings /\ (b \in H <=> Holding(b)) /\ (b \in K <=> Holding(b)')
  BY <1>2 DEF Holders
<1>6. Counts(Holding(b), Holding(b)')
  OBVIOUS
<1>7. CASE slot' = slot /\ (Holding(b)' <=> Holding(b))
  <2>1. K = H
    BY <1>3, <1>4, <1>5, <1>7
  <2> QED  BY <2>1, <1>1, <1>2, <1>7
<1>8. CASE slot' = slot + 1 /\ ~Holding(b) /\ Holding(b)'
  <2>1. K = H \cup {b} /\ b \notin H
    BY <1>3, <1>4, <1>5, <1>8
  <2>2. Cardinality(K) = Cardinality(H) + 1
    BY <2>1, <1>3, FS_AddElement
  <2> QED  BY <2>2, <1>1, <1>2, <1>8
<1>9. CASE slot' = slot - 1 /\ Holding(b) /\ ~Holding(b)'
  <2>1. K = H \ {b} /\ b \in H
    BY <1>3, <1>4, <1>5, <1>9
  <2>2. Cardinality(K) = Cardinality(H) - 1
    BY <2>1, <1>3, FS_RemoveElement
  <2> QED  BY <2>2, <1>1, <1>2, <1>9
<1> QED  BY <1>6, <1>7, <1>8, <1>9 DEF Counts

------------------------------------------------------------------------------
(* One step of one request *)

\* Request c of booking b, if it was one, is d now; unless it became rough, b
\* has no other request and is on no list of the sweep.
Turn(c, b, d) ==
  /\ req[c].b \in {b, None} /\ d.b \in {b, None}
  /\ req' = [req EXCEPT ![c] = d]
  /\ rough' \in {rough, rough \cup {b}}
  /\ b \notin rough' => ~Listed(b) /\ \A u \in Requests : Of(u, b) => u = c
  /\ faults' \in 0..MaxFaults
  /\ UNCHANGED <<clock, sweep>>
Books(b, doc) ==
  /\ doc \in BookingDoc
  /\ booking' = [booking EXCEPT ![b] = doc]
  /\ doc.links \subseteq DOMAIN tickets'
  /\ doc.ticket # 0 => doc.ticket \in DOMAIN tickets' /\ tickets'[doc.ticket].b = b

LEMMA StepKeeps ==
  ASSUME IInv, NEW c \in Requests, NEW b \in Bookings, NEW d \in RequestDoc, NEW doc,
         Turn(c, b, d), Files(b), Books(b, doc), slot' \in 0..Capacity,
         rough' = {} => Counts(Share(b, booking[b].status, req[c]), Share(b, doc.status, d)),
         Shape(d)', NoDeposit(b)',
         b \notin rough' => Tidy(b)' /\ (d.b = b => Sound(b, d)')
  PROVE  IInv'
<1> None \notin Bookings
  BY BookingsAssumption
<1>0. /\ booking \in [Bookings -> BookingDoc] /\ req \in [Requests -> RequestDoc]
      /\ \A x \in Bookings : booking[x].links \union ({booking[x].ticket} \ {0}) \subseteq DOMAIN tickets
      /\ tickets \in Seq(TicketDoc)
  BY DEF IInv, TypeOK
<1>1. req'[c] = d /\ \A u \in Requests \ {c} : req'[u] = req[u]
  BY <1>0 DEF Turn
<1>2. booking'[b] = doc /\ \A x \in Bookings \ {b} : booking'[x] = booking[x]
  BY <1>0 DEF Books
<1>3. TypeOK'
  <2>1. clock' \in 1..Len(Phases) /\ faults' \in 0..MaxFaults /\ rough' \subseteq Bookings
    BY DEF IInv, TypeOK, Turn
  <2>2. /\ sweep'.pc \in {"idle", "noshow", "mark", "complete"}
        /\ sweep'.b \in Bookings \union {None} /\ sweep'.left \subseteq Bookings
    BY DEF IInv, TypeOK, Turn
  <2>3. req' \in [Requests -> RequestDoc]
    BY <1>0 DEF Turn
  <2>4. booking' \in [Bookings -> BookingDoc]
    BY <1>0 DEF Books
  <2>5. ASSUME NEW x \in Bookings
        PROVE  booking'[x].links \union ({booking'[x].ticket} \ {0}) \subseteq DOMAIN tickets'
    <3>1. CASE x = b
      BY <3>1, <1>2 DEF Books
    <3>2. CASE x # b
      BY <3>2, <1>2, <1>0 DEF Files
    <3> QED  BY <3>1, <3>2
  <2> QED  BY <2>1, <2>2, <2>3, <2>4, <2>5 DEF TypeOK, Files
<1>4. SweepShape'
  BY DEF IInv, SweepShape, Turn
<1>5. ASSUME NEW u \in Requests PROVE Shape(req[u])'
  <2>1. CASE u = c
    BY <2>1, <1>1
  <2>2. CASE u # c
    <3>1. PICK e : e = req[u]
      OBVIOUS
    <3>2. Shape(e)'
      BY <3>1, StillShape DEF IInv
    <3> QED  BY <3>1, <3>2, <2>2, <1>1
  <2> QED  BY <2>1, <2>2
<1>6. ASSUME NEW x \in Bookings \ {b} PROVE Asked(x)
  BY <1>1 DEF Asked, Of, Turn
<1>7. ASSUME NEW x \in Bookings \ {b} PROVE Good(x)'
  <2>1. Filed(x)
    BY FiledElsewhere
  <2>2. ASSUME x \notin rough' PROVE x \notin rough /\ Alone(x)' /\ Swept(x)'
    <3>1. x \notin rough /\ Alone(x) /\ Swept(x)
      BY <2>2 DEF IInv, Good, Turn
    <3>2. Alone(x)'
      BY <3>1, <1>6 DEF Alone, Asked, Listed, Turn, Of
    <3>3. Swept(x)'
      BY <3>1, <1>2 DEF Swept, Is, Turn
    <3> QED  BY <3>1, <3>2, <3>3
  <2> QED  BY <2>1, <2>2, <1>2, <1>6, StillGood DEF IInv
<1>8. Good(b)'
  <2>1. Owned(b)'
    BY <1>2 DEF Owned, Owns, Books
  <2>2. ASSUME b \notin rough', NEW u \in Requests, Of(u, b)'
        PROVE  u = c
    BY <2>2, <1>1 DEF Turn, Of
  <2>3. ASSUME b \notin rough' PROVE Alone(b)' /\ Swept(b)'
    <3>1. ~Listed(b)'
      BY <2>3 DEF Turn, Listed
    <3>2. Alone(b)'
      BY <3>1, <2>2, <2>3 DEF Alone, Of
    <3>3. Swept(b)'
      BY <3>1 DEF Swept, Listed
    <3> QED  BY <3>2, <3>3
  <2>4. ASSUME b \notin rough', NEW u \in Requests, Of(u, b)' PROVE Sound(b, req[u])'
    BY <2>4, <2>2, <1>1 DEF Of
  <2> QED  BY <2>1, <2>3, <2>4 DEF Good
<1>9. SlotIsExact'
  <2>1. ASSUME NEW x \in Bookings \ {b} PROVE Holding(x)' <=> Holding(x)
    <3>1. ClaimedBy(x)' <=> ClaimedBy(x)
      BY <1>6 DEF ClaimedBy, At, Asked, Of
    <3>2. ReleasedBy(x)' <=> ReleasedBy(x)
      BY <1>6 DEF ReleasedBy, At, Asked, Of, Turn
    <3> QED  BY <3>1, <3>2, <1>2 DEF Holding, Is
  <2>2. ASSUME rough' = {} PROVE rough = {} /\ Counts(Holding(b), Holding(b)')
    <3>1. rough = {} /\ ~Listed(b) /\ \A u \in Requests : Of(u, b) => u = c
      BY <2>2 DEF Turn
    <3>2. ClaimedBy(b) <=> req[c].b = b /\ req[c].kind = "accept" /\ req[c].pc = "write"
      BY <3>1 DEF ClaimedBy, Of, At
    <3>3. ReleasedBy(b) <=> req[c].b = b /\ req[c].kind = "cancel" /\ req[c].pc = "write"
      BY <3>1 DEF ReleasedBy, Of, At, Listed
    <3>4. Holding(b) <=> Share(b, booking[b].status, req[c])
      BY <3>2, <3>3 DEF Holding, Share, Is
    <3>5. ~Listed(b)' /\ \A u \in Requests : Of(u, b)' => u = c
      BY <2>2, <3>1, <1>1 DEF Turn, Listed, Of
    <3>6. ClaimedBy(b)' <=> d.b = b /\ d.kind = "accept" /\ d.pc = "write"
      BY <3>5, <1>1 DEF ClaimedBy, Of, At
    <3>7. ReleasedBy(b)' <=> d.b = b /\ d.kind = "cancel" /\ d.pc = "write"
      BY <3>5, <1>1 DEF ReleasedBy, Of, At, Listed
    <3>8. Holding(b)' <=> Share(b, doc.status, d)
      BY <3>6, <3>7, <1>2 DEF Holding, Share, Is
    <3> QED  BY <3>1, <3>4, <3>8, <2>2 DEF Counts
  <2> QED  BY <2>1, <2>2, CountHolders
<1> QED  BY <1>3, <1>4, <1>5, <1>7, <1>8, <1>9 DEF IInv

------------------------------------------------------------------------------
(* A booking whose only request is d *)

ReceivedBy(b, d) ==
  WalkInsOf(b) # {} /\ Is(b, {"CONFIRMED"}) =>
    d.b = b /\ d.pc \in {"arrived", "adopt", "meet", "join"}
LinkedBy(b, d) ==
  \A t \in LiveTows(b) : t \in booking[b].links \/ (d.b = b /\ d.pc = "link" /\ d.t = t)
KeptBy(b, d) == Agree(b) \/ (d.b = b /\ d.pc \in {"copy", "keep"})
Filing(b) ==
  /\ Begun(b) /\ InTurn(b) /\ OneTow(b)
  /\ Parked(b) /\ OneWork(b) /\ WorkTicket(b) /\ Charged(b)
Neat(b, d) == Filing(b) /\ ReceivedBy(b, d) /\ LinkedBy(b, d) /\ KeptBy(b, d)
Fit(b, d) == Neat(b, d) /\ (d.b = b => Sound(b, d))

LEMMA NeatIsTidy ==
  ASSUME NEW b \in Bookings, NEW c \in Requests, \A u \in Requests : Of(u, b) => u = c
  PROVE  Tidy(b) <=> Neat(b, req[c])
BY DEF Tidy, Neat, Filing, Received, Linked, DepositKept, ReceivedBy, LinkedBy, KeptBy, Of

LEMMA NeatIsTidyNext ==
  ASSUME NEW b \in Bookings, NEW c \in Requests, NEW d, d = req'[c],
         \A u \in Requests : Of(u, b)' => u = c, Neat(b, d)'
  PROVE  Tidy(b)'
<1>1. Received(b)' /\ Linked(b)' /\ DepositKept(b)'
  BY DEF Neat, Received, Linked, DepositKept, ReceivedBy, LinkedBy, KeptBy, Of
<1> QED  BY <1>1 DEF Tidy, Neat, Filing

LEMMA HeldIsClaimed ==
  ASSUME IInv, rough = {}, NEW b \in Bookings, Holding(b)
  PROVE  slot > 0
<1>1. PICK H : H = Holders
  OBVIOUS
<1>2. b \in H /\ IsFiniteSet(H) /\ slot = Cardinality(H)
  BY <1>1, BookingsAssumption, FS_Subset DEF Holders, IInv, SlotIsExact
<1>3. Cardinality(H) # 0 /\ Cardinality(H) \in Nat
  BY <1>2, FS_EmptySet, FS_CardinalityType
<1> QED  BY <1>2, <1>3

LEMMA ShareIsHeld ==
  ASSUME NEW b \in Bookings, NEW c \in Requests, ~Listed(b),
         \A u \in Requests : Of(u, b) => u = c
  PROVE  Holding(b) <=> Share(b, booking[b].status, req[c])
<1>1. ClaimedBy(b) <=> req[c].b = b /\ req[c].kind = "accept" /\ req[c].pc = "write"
  BY DEF ClaimedBy, Of, At
<1>2. ReleasedBy(b) <=> req[c].b = b /\ req[c].kind = "cancel" /\ req[c].pc = "write"
  BY DEF ReleasedBy, Of, At, Listed
<1> QED  BY <1>1, <1>2 DEF Holding, Share, Is

LEMMA StepFits ==
  ASSUME IInv, NEW c \in Requests, NEW b \in Bookings, NEW r \in RequestDoc, r = req[c],
         NEW d \in RequestDoc, NEW doc,
         Turn(c, b, d), Files(b), Books(b, doc), slot' \in 0..Capacity,
         Shape(d)', NoDeposit(b)',
         b \notin rough' /\ Fit(b, r) => Fit(b, d)',
         rough' = {} /\ Fit(b, r) /\ (Share(b, booking[b].status, r) => slot > 0)
           => Counts(Share(b, booking[b].status, r), Share(b, doc.status, d))
  PROVE  IInv'
<1>1. req'[c] = d
  BY DEF IInv, TypeOK, Turn
<1>2. ASSUME b \notin rough'
      PROVE  /\ b \notin rough /\ ~Listed(b) /\ \A u \in Requests : Of(u, b) => u = c
             /\ \A u \in Requests : Of(u, b)' => u = c
  <2>1. b \notin rough /\ ~Listed(b) /\ \A u \in Requests : Of(u, b) => u = c
    BY <1>2 DEF Turn
  <2>2. \A u \in Requests \ {c} : req'[u] = req[u]
    BY DEF IInv, TypeOK, Turn
  <2> QED  BY <2>1, <2>2 DEF Of
<1>3. ASSUME b \notin rough' PROVE Fit(b, r)
  <2>1. Tidy(b) /\ (r.b = b => Sound(b, r))
    BY <1>2, <1>3 DEF IInv, Good, Of
  <2> QED  BY <2>1, <1>2, <1>3, NeatIsTidy DEF Fit
<1>4. ASSUME b \notin rough' PROVE Tidy(b)' /\ (d.b = b => Sound(b, d)')
  <2>1. Fit(b, d)'
    BY <1>3, <1>4
  <2> QED  BY <2>1, <1>1, <1>2, <1>4, NeatIsTidyNext DEF Fit
<1>5. ASSUME rough' = {}
      PROVE  Counts(Share(b, booking[b].status, req[c]), Share(b, doc.status, d))
  <2>1. b \notin rough' /\ rough = {}
    BY <1>5 DEF Turn
  <2>2. Share(b, booking[b].status, r) => slot > 0
    BY <2>1, <1>2, ShareIsHeld, HeldIsClaimed
  <2> QED  BY <2>1, <2>2, <1>3, <1>5
<1> QED  BY <1>4, <1>5, StepKeeps

------------------------------------------------------------------------------
(* Steps that neither write the booking nor a ticket *)

LEMMA SameBook ==
  ASSUME IInv, NEW b \in Bookings, UNCHANGED <<booking, tickets>>
  PROVE  /\ Files(b) /\ Books(b, booking[b]) /\ NoDeposit(b)'
         /\ \A d : (Shape(d) => Shape(d)') /\ (Fit(b, d) => Fit(b, d)')
<1>1. Files(b)
  BY DEF Files, IInv, TypeOK
<1>2. Owned(b) /\ NoDeposit(b)
  BY DEF IInv, Good
<1>3. Books(b, booking[b])
  BY <1>2 DEF Books, IInv, TypeOK, Owned, Owns
<1>4. NoDeposit(b)'
  BY <1>2 DEF NoDeposit
<1>5. ASSUME NEW d, Shape(d) PROVE Shape(d)'
  BY <1>1, <1>5, StillShape
<1>6. ASSUME NEW d, Fit(b, d) PROVE Fit(b, d)'
  <2>1. Filed(b) /\ booking'[b] = booking[b]
    BY FiledSame
  <2>2. d.b = b => Sound(b, d)'
    BY <2>1, <1>2, <1>6, StillSound DEF Fit
  <2>3. /\ WalkInsOf(b)' = WalkInsOf(b) /\ Tows(b)' = Tows(b) /\ LiveTows(b)' = LiveTows(b)
        /\ LiveWalkIns(b)' = LiveWalkIns(b)
    BY <2>1, LiveSets DEF Filed
  <2>4. Filing(b)'
    BY <2>3, <1>6 DEF Fit, Neat, Filing, Begun, InTurn, OneTow, Parked, OneWork, WorkTicket, Charged
  <2>5. ReceivedBy(b, d)' /\ LinkedBy(b, d)' /\ KeptBy(b, d)'
    BY <2>3, <1>6 DEF Fit, Neat, ReceivedBy, LinkedBy, KeptBy, Agree, Is
  <2> QED  BY <2>2, <2>4, <2>5 DEF Fit, Neat
<1> QED  BY <1>1, <1>3, <1>4, <1>5, <1>6

\* A request begins: it finds its booking sound, unless it became rough.
LEMMA BeginKeeps ==
  ASSUME IInv, NEW c \in Requests, NEW b \in Bookings, NEW d \in RequestDoc,
         Begin(c, b, d), d.b = b, Shape(d)', Files(b), NoDeposit(b)',
         Neat(b, Idle) => Fit(b, d)',
         ~(d.kind \in {"accept", "cancel"} /\ d.pc = "write" /\ Is(b, {"CONFIRMED", "ARRIVED", "COMPLETED"})),
         ~(d.kind = "accept" /\ d.pc = "write")
  PROVE  IInv'
<1>1. None \notin Bookings
  BY BookingsAssumption
<1>2. PICK r \in RequestDoc : r = req[c]
  BY DEF IInv, TypeOK
<1>3. r = Idle
  BY <1>2 DEF Begin, At, IInv, Shape, Errand
<1>4. r.b = None /\ r.pc = "idle"
  BY <1>3 DEF Idle
<1>5. Turn(c, b, d)
  <2>1. b \notin rough' => ~InFlight(b)
    BY DEF Begin
  <2>2. rough' \in {rough, rough \cup {b}}
    BY DEF Begin
  <2> QED  BY <2>1, <2>2, <1>2, <1>4 DEF Turn, Begin, Goto, InFlight, Of, IInv, TypeOK
<1>6. Books(b, booking[b])
  <2>1. Owned(b) /\ booking[b] \in BookingDoc /\ booking' = [booking EXCEPT ![b] = booking[b]]
    BY DEF IInv, Good, TypeOK, Begin
  <2>2. booking[b].links \subseteq DOMAIN tickets
    BY DEF IInv, TypeOK
  <2> QED  BY <2>1, <2>2 DEF Books, Owned, Owns, Files
<1>7. slot' = slot /\ slot \in 0..Capacity
  BY DEF Begin, IInv, TypeOK
<1>8. Counts(Share(b, booking[b].status, r), Share(b, booking[b].status, d))
  BY <1>1, <1>4, <1>7 DEF Counts, Share, Is
<1>9. Fit(b, r) => Fit(b, d)'
  BY <1>3 DEF Fit
<1>10. slot' \in 0..Capacity
  BY <1>7
<1> QED
  BY <1>2, <1>5, <1>6, <1>8, <1>9, <1>10, StepFits

------------------------------------------------------------------------------
(* The requests begin *)

LEMMA IdleShape == Idle \in RequestDoc /\ Idle.b = None /\ Idle.pc = "idle" /\ Idle.links = {}
BY DEF Idle, RequestDoc, Kinds, Points, Statuses, DepositStatuses

\* What a request remembers of the booking b.
LEMMA ReadingFacts ==
  ASSUME IInv, NEW b \in Bookings, NEW kind \in Kinds, NEW pc \in Points
  PROVE  \E d \in RequestDoc :
           /\ d = Reading(b, kind, pc)
           /\ d.kind = kind /\ d.pc = pc /\ d.b = b
           /\ d.t = booking[b].ticket /\ d.links = booking[b].links
           /\ d.deposit = booking[b].deposit
<1>1. PICK doc \in BookingDoc : doc = booking[b]
  BY DEF IInv, TypeOK
<1>2. doc.ticket \in Ids \union {0} /\ doc.links \in SUBSET Ids /\ doc.deposit \in DepositStatuses
  BY DEF BookingDoc
<1>3. PICK r \in RequestDoc : r = Idle
  BY IdleShape
<1>4. PICK d : d = [r EXCEPT !.kind = kind, !.pc = pc, !.b = b, !.t = doc.ticket,
                             !.links = doc.links, !.deposit = doc.deposit]
  OBVIOUS
<1>5. d = Reading(b, kind, pc)
  BY <1>1, <1>3, <1>4 DEF Reading
<1>6. d \in RequestDoc
  BY <1>2, <1>4 DEF RequestDoc
<1>7. /\ d.kind = kind /\ d.pc = pc /\ d.b = b
      /\ d.t = doc.ticket /\ d.links = doc.links /\ d.deposit = doc.deposit
  BY <1>4 DEF RequestDoc
<1> QED  BY <1>1, <1>5, <1>6, <1>7

\* d read booking b and is to write put.
Recalls(d, b, kind, pc, put) ==
  /\ d = [Reading(b, kind, pc) EXCEPT !.put = put]
  /\ d.kind = kind /\ d.pc = pc /\ d.b = b /\ d.put = put
  /\ d.t = booking[b].ticket /\ d.links = booking[b].links

LEMMA ReadingToPut ==
  ASSUME IInv, NEW b \in Bookings, NEW kind \in Kinds, NEW pc \in Points,
         NEW put \in Statuses \union DepositStatuses
  PROVE  \E d \in RequestDoc : Recalls(d, b, kind, pc, put)
<1>1. PICK r \in RequestDoc :
        /\ r = Reading(b, kind, pc)
        /\ r.kind = kind /\ r.pc = pc /\ r.b = b
        /\ r.t = booking[b].ticket /\ r.links = booking[b].links
  BY ReadingFacts
<1>2. PICK d : d = [r EXCEPT !.put = put]
  OBVIOUS
<1>3. d \in RequestDoc
  BY <1>2 DEF RequestDoc
<1>4. /\ d.kind = r.kind /\ d.pc = r.pc /\ d.b = r.b /\ d.put = put
      /\ d.t = r.t /\ d.links = r.links
  BY <1>2 DEF RequestDoc
<1> QED  BY <1>1, <1>2, <1>3, <1>4 DEF Recalls

\* The requests that only read what they decide on.
LEMMA AskKeeps ==
  ASSUME IInv, NEW c \in Requests, NEW b \in Bookings, NEW d \in RequestDoc,
         Begin(c, b, d), UNCHANGED tickets, d.b = b, d.links = booking[b].links, Shape(d),
         Neat(b, Idle) => Neat(b, d) /\ Sound(b, d),
         ~(d.kind \in {"accept", "cancel"} /\ d.pc = "write" /\ Is(b, {"CONFIRMED", "ARRIVED", "COMPLETED"})),
         ~(d.kind = "accept" /\ d.pc = "write")
  PROVE  IInv'
<1>1. UNCHANGED <<booking, tickets>>
  BY DEF Begin
<1>2. Files(b) /\ NoDeposit(b)' /\ Shape(d)'
  BY <1>1, SameBook
<1>3. Neat(b, Idle) => Fit(b, d)'
  BY <1>1, SameBook DEF Fit
<1> QED  BY <1>2, <1>3, BeginKeeps

\* A booking without requests has none that could have brought a walk-in.
LEMMA Unbegun ==
  ASSUME NEW b \in Bookings, NEW d, Neat(b, Idle), d.b = b
  PROVE  Neat(b, d) /\ (Is(b, {"CONFIRMED"}) => WalkInsOf(b) = {} /\ booking[b].ticket = 0)
<1>1. Idle.b # b
  BY IdleShape, BookingsAssumption
<1> QED
  BY <1>1 DEF Neat, Filing, ReceivedBy, LinkedBy, KeptBy, WorkTicket

LEMMA AnswersKeep ==
  ASSUME IInv, NEW c \in Requests, NEW b \in Bookings,
         AcceptRead(c, b) \/ DeclineRead(c, b) \/ CancelRead(c, b) \/ CompleteRead(c, b)
  PROVE  IInv'
<1>1. CASE AcceptRead(c, b)
  <2>1. PICK d \in RequestDoc : Recalls(d, b, "accept", "claim", "CONFIRMED")
    <3>1. "accept" \in Kinds /\ "claim" \in Points /\ "CONFIRMED" \in Statuses \union DepositStatuses
      BY DEF Kinds, Points, Statuses, DepositStatuses
    <3> QED  BY <3>1, ReadingToPut
  <2>2. Begin(c, b, d) /\ UNCHANGED tickets /\ Is(b, {"REQUESTED"})
    BY <1>1, <2>1 DEF Recalls, AcceptRead
  <2>3. Shape(d)
    BY <2>1 DEF Recalls, Shape, Errand, Holds, IInv, TypeOK
  <2>4. Sound(b, d)
    BY <2>1, <2>2 DEF Recalls, Sound, Deciding, Arriving, Towing, Dropping, Banking
  <2> QED  BY <2>1, <2>2, <2>3, <2>4, Unbegun, AskKeeps DEF Recalls
<1>2. CASE DeclineRead(c, b)
  <2>1. PICK d \in RequestDoc : Recalls(d, b, "decline", "write", "DECLINED")
    <3>1. "decline" \in Kinds /\ "write" \in Points /\ "DECLINED" \in Statuses \union DepositStatuses
      BY DEF Kinds, Points, Statuses, DepositStatuses
    <3> QED  BY <3>1, ReadingToPut
  <2>2. Begin(c, b, d) /\ UNCHANGED tickets /\ Is(b, {"REQUESTED"})
    BY <1>2, <2>1 DEF Recalls, DeclineRead
  <2>3. Shape(d)
    BY <2>1 DEF Recalls, Shape, Errand, Holds, IInv, TypeOK
  <2>4. Sound(b, d)
    BY <2>1, <2>2 DEF Recalls, Sound, Deciding, Arriving, Towing, Dropping, Banking
  <2> QED  BY <2>1, <2>2, <2>3, <2>4, Unbegun, AskKeeps DEF Recalls
<1>3. CASE CancelRead(c, b)
  <2>1. PICK pc \in Points : pc = IF Is(b, {"CONFIRMED"}) THEN "release" ELSE "write"
    BY DEF Points
  <2>2. PICK d \in RequestDoc : Recalls(d, b, "cancel", pc, "CANCELLED")
    <3>1. "cancel" \in Kinds /\ pc \in Points /\ "CANCELLED" \in Statuses \union DepositStatuses
      BY DEF Kinds, Points, Statuses, DepositStatuses
    <3> QED  BY <3>1, ReadingToPut
  <2>3. Begin(c, b, d) /\ UNCHANGED tickets /\ Is(b, {"REQUESTED", "CONFIRMED"})
    BY <1>3, <2>1, <2>2 DEF Recalls, CancelRead
  <2>4. Shape(d)
    BY <2>1, <2>2 DEF Recalls, Shape, Errand, Holds, IInv, TypeOK
  <2>5. Sound(b, d)
    BY <2>1, <2>2, <2>3 DEF Recalls, Sound, Deciding, Arriving, Towing, Dropping, Banking, Is
  <2>6. ~(d.pc = "write" /\ Is(b, {"CONFIRMED", "ARRIVED", "COMPLETED"}))
    BY <2>1, <2>2, <2>3 DEF Recalls, Is
  <2> QED  BY <2>2, <2>3, <2>4, <2>5, <2>6, Unbegun, AskKeeps DEF Recalls
<1>4. CASE CompleteRead(c, b)
  <2>1. PICK d \in RequestDoc : Recalls(d, b, "complete", "write", "COMPLETED")
    <3>1. "complete" \in Kinds /\ "write" \in Points /\ "COMPLETED" \in Statuses \union DepositStatuses
      BY DEF Kinds, Points, Statuses, DepositStatuses
    <3> QED  BY <3>1, ReadingToPut
  <2>2. Begin(c, b, d) /\ UNCHANGED tickets /\ Is(b, {"CONFIRMED", "ARRIVED"})
    BY <1>4, <2>1 DEF Recalls, CompleteRead
  <2>3. Shape(d)
    BY <2>1 DEF Recalls, Shape, Errand, Holds, IInv, TypeOK
  <2>4. Sound(b, d)
    BY <2>1, <2>2 DEF Recalls, Sound, Deciding, Arriving, Towing, Dropping, Banking
  <2> QED  BY <2>1, <2>2, <2>3, <2>4, Unbegun, AskKeeps DEF Recalls
<1> QED  BY <1>1, <1>2, <1>3, <1>4

LEMMA VisitsKeep ==
  ASSUME IInv, NEW c \in Requests, NEW b \in Bookings, ArriveRead(c, b) \/ TowRead(c, b)
  PROVE  IInv'
<1>1. CASE ArriveRead(c, b)
  <2>1. PICK d \in RequestDoc :
          /\ d = Reading(b, "arrive", "check")
          /\ d.kind = "arrive" /\ d.pc = "check" /\ d.b = b
          /\ d.links = booking[b].links /\ d.deposit = booking[b].deposit
    BY ReadingFacts DEF Kinds, Points, DepositStatuses
  <2>2. Begin(c, b, d) /\ UNCHANGED tickets /\ Is(b, {"CONFIRMED"})
    BY <1>1, <2>1 DEF ArriveRead
  <2>3. Shape(d)
    BY <2>1 DEF Shape, Errand, Holds, IInv, TypeOK
  <2>4. Neat(b, Idle) => Neat(b, d) /\ Sound(b, d)
    BY <2>1, <2>2, Unbegun DEF Sound, Deciding, Arriving, Towing, Dropping, Banking
  <2> QED  BY <2>1, <2>2, <2>3, <2>4, AskKeeps
<1>2. CASE TowRead(c, b)
  <2>1. PICK d \in RequestDoc :
          /\ d = Reading(b, "tow", "look")
          /\ d.kind = "tow" /\ d.pc = "look" /\ d.b = b
          /\ d.links = booking[b].links /\ d.deposit = booking[b].deposit
    BY ReadingFacts DEF Kinds, Points, DepositStatuses
  <2>2. Begin(c, b, d) /\ UNCHANGED tickets /\ Is(b, {"CONFIRMED"})
    BY <1>2, <2>1 DEF TowRead
  <2>3. Shape(d)
    BY <2>1 DEF Shape, Errand, Holds, IInv, TypeOK
  <2>4. Neat(b, Idle) => Neat(b, d) /\ Sound(b, d)
    BY <2>1, <2>2, Unbegun DEF Sound, Deciding, Arriving, Towing, Dropping, Banking
  <2> QED  BY <2>1, <2>2, <2>3, <2>4, AskKeeps
<1> QED  BY <1>1, <1>2

LEMMA BankingBegins ==
  ASSUME IInv, NEW c \in Requests, NEW b \in Bookings,
         RequestRead(c, b) \/ \E how \in {"COLLECTED", "WAIVED"} : CollectRead(c, b, how)
  PROVE  IInv'
<1> Owned(b)
  BY DEF IInv, Good
<1>1. CASE RequestRead(c, b)
  <2>1. PICK d \in RequestDoc : Recalls(d, b, "request", "charge", "REQUESTED")
    <3>1. "request" \in Kinds /\ "charge" \in Points /\ "REQUESTED" \in Statuses \union DepositStatuses
      BY DEF Kinds, Points, Statuses, DepositStatuses
    <3> QED  BY <3>1, ReadingToPut
  <2>2. Begin(c, b, d) /\ UNCHANGED tickets /\ b \in Deposits /\ booking[b].ticket # 0
    BY <1>1, <2>1 DEF Recalls, RequestRead
  <2>3. Shape(d)
    BY <2>1, <2>2 DEF Recalls, Shape, Errand, Holds, IInv, TypeOK, Owned
  <2>4. Sound(b, d)
    BY <2>1, <2>2 DEF Recalls, Sound, Deciding, Arriving, Towing, Dropping, Banking
  <2> QED  BY <2>1, <2>2, <2>3, <2>4, Unbegun, AskKeeps DEF Recalls
<1>2. ASSUME NEW how \in {"COLLECTED", "WAIVED"}, CollectRead(c, b, how) PROVE IInv'
  <2>1. PICK pc \in Points : pc = IF booking[b].ticket = 0 THEN "keep" ELSE "stamp"
    BY DEF Points
  <2>2. PICK d \in RequestDoc : Recalls(d, b, "collect", pc, how)
    <3>1. "collect" \in Kinds /\ pc \in Points /\ how \in Statuses \union DepositStatuses
      BY DEF Kinds, Points, Statuses, DepositStatuses
    <3> QED  BY <3>1, ReadingToPut
  <2>3. Begin(c, b, d) /\ UNCHANGED tickets /\ b \in Deposits
    BY <1>2, <2>1, <2>2 DEF Recalls, CollectRead
  <2>4. Shape(d)
    BY <2>1, <2>2, <2>3 DEF Recalls, Shape, Errand, Holds, IInv, TypeOK, Owned
  <2>5. Sound(b, d)
    BY <2>1, <2>2, <2>3 DEF Recalls, Sound, Deciding, Arriving, Towing, Dropping, Banking
  <2> QED  BY <2>2, <2>3, <2>4, <2>5, Unbegun, AskKeeps DEF Recalls
<1> QED  BY <1>1, <1>2

------------------------------------------------------------------------------
(* A ticket is written or added *)

\* A ticket of b becomes doc; nothing else of the tickets changes.
Stamped(b, t, doc) ==
  /\ Files(b)
  /\ DOMAIN tickets' = DOMAIN tickets /\ tickets'[t] = doc
  /\ \A u \in DOMAIN tickets : u # t => tickets'[u] = tickets[u]
  /\ WalkInsOf(b)' = WalkInsOf(b) /\ Tows(b)' = Tows(b)

LEMMA StampFacts ==
  ASSUME IInv, NEW t \in DOMAIN tickets, NEW doc \in TicketDoc, NEW b \in Bookings,
         tickets[t].b = b, doc.b = b, doc.kind = tickets[t].kind, Stamp(t, doc)
  PROVE  Stamped(b, t, doc)
<1>1. tickets \in Seq(TicketDoc) /\ Len(tickets) <= MaxTickets
  BY DEF IInv, TypeOK
<1>2. /\ tickets' \in Seq(TicketDoc) /\ Len(tickets') = Len(tickets)
      /\ DOMAIN tickets' = DOMAIN tickets /\ tickets'[t] = doc
      /\ \A u \in DOMAIN tickets : u # t => tickets'[u] = tickets[u]
  BY <1>1 DEF Stamp
<1>3. \A u \in DOMAIN tickets : tickets'[u].b = tickets[u].b /\ tickets'[u].kind = tickets[u].kind
  BY <1>2
<1>4. Files(b)
  BY <1>1, <1>2, <1>3 DEF Files
<1>5. WalkInsOf(b)' = WalkInsOf(b) /\ Tows(b)' = Tows(b)
  BY <1>2, <1>3 DEF WalkInsOf, Tows
<1> QED  BY <1>2, <1>4, <1>5 DEF Stamped

\* b's deposit, unless it has none, is the only thing a ticket's stamps change.
LEMMA StampNoDeposit ==
  ASSUME IInv, NEW t \in DOMAIN tickets, NEW doc, NEW b \in Bookings,
         tickets[t].b = b, Stamped(b, t, doc), booking'[b].deposit = booking[b].deposit,
         b \notin Deposits => doc.deposit = tickets[t].deposit /\ doc.charge = tickets[t].charge
  PROVE  NoDeposit(b)'
<1>1. NoDeposit(b)
  BY DEF IInv, Good
<1> QED  BY <1>1 DEF NoDeposit, Stamped, Files

\* A new ticket n of b.
Added(b, n, doc) ==
  /\ Files(b)
  /\ n = Len(tickets) + 1 /\ n \notin DOMAIN tickets /\ n \in Ids
  /\ \A u \in DOMAIN tickets : u < n /\ tickets'[u] = tickets[u]
  /\ DOMAIN tickets' = DOMAIN tickets \union {n} /\ tickets'[n] = doc

LEMMA AddFacts ==
  ASSUME IInv, NEW b \in Bookings, NEW kind \in {"WALK_IN", "TOW"}, NEW doc,
         doc = New(kind, b), Len(tickets) < MaxTickets, tickets' = Append(tickets, doc)
  PROVE  /\ Added(b, Next1, doc)
         /\ doc.b = b /\ doc.kind = kind /\ doc.live /\ doc.parent = 0
         /\ doc.deposit = "NONE" /\ doc.charge = "none"
<1>1. tickets \in Seq(TicketDoc) /\ Len(tickets) <= MaxTickets /\ MaxTickets \in Nat
  BY BookingsAssumption DEF IInv, TypeOK
<1>2. doc \in TicketDoc
  BY DEF New, TicketDoc, DepositStatuses
<1>3. doc.b = b /\ doc.kind = kind /\ doc.live /\ doc.parent = 0
      /\ doc.deposit = "NONE" /\ doc.charge = "none"
  BY DEF New
<1>4. /\ tickets' \in Seq(TicketDoc) /\ Len(tickets') = Len(tickets) + 1
      /\ DOMAIN tickets = 1..Len(tickets) /\ DOMAIN tickets' = 1..(Len(tickets) + 1)
      /\ tickets'[Len(tickets) + 1] = doc
      /\ \A u \in DOMAIN tickets : tickets'[u] = tickets[u]
      /\ Len(tickets) \in Nat
  BY <1>1, <1>2
<1>5. DOMAIN tickets' = DOMAIN tickets \union {Next1} /\ Next1 \notin DOMAIN tickets
      /\ \A u \in DOMAIN tickets : u < Next1
  BY <1>4 DEF Next1
<1>6. Next1 \in Ids /\ Len(tickets') <= MaxTickets
  BY <1>4, <1>1 DEF Next1, Ids
<1>7. Files(b)
  BY <1>3, <1>4, <1>5, <1>6 DEF Files, Next1
<1> QED  BY <1>3, <1>4, <1>5, <1>6, <1>7 DEF Added, Next1

LEMMA AddNoDeposit ==
  ASSUME IInv, NEW b \in Bookings, NEW n, NEW doc, Added(b, n, doc),
         doc.deposit = "NONE", doc.charge = "none", UNCHANGED booking
  PROVE  NoDeposit(b)'
<1>1. NoDeposit(b)
  BY DEF IInv, Good
<1> QED  BY <1>1 DEF NoDeposit, Added

\* Every ticket of a booking is a tow or a walk-in.
LEMMA EitherKind ==
  ASSUME IInv, NEW t \in DOMAIN tickets
  PROVE  /\ tickets[t] \in TicketDoc /\ tickets[t].b \in Bookings /\ t \in Ids /\ t # 0
         /\ t \in WalkInsOf(tickets[t].b) \/ t \in Tows(tickets[t].b)
<1>1. tickets \in Seq(TicketDoc) /\ Len(tickets) <= MaxTickets /\ MaxTickets \in Nat
  BY BookingsAssumption DEF IInv, TypeOK
<1>2. tickets[t] \in TicketDoc
  BY <1>1
<1>3. t \in 1..Len(tickets) /\ Len(tickets) \in Nat
  BY <1>1
<1>4. t \in Ids /\ t # 0
  BY <1>1, <1>3 DEF Ids
<1>5. tickets[t].b \in Bookings /\ tickets[t].kind \in {"WALK_IN", "TOW"}
  BY <1>2 DEF TicketDoc
<1> QED  BY <1>2, <1>4, <1>5 DEF WalkInsOf, Tows

------------------------------------------------------------------------------
(* A tow is delivered, a charge is paid: the requests begin on a ticket *)

LEMMA DeliverReadKeeps ==
  ASSUME IInv, NEW c \in Requests, NEW t \in DOMAIN tickets, DeliverRead(c, t)
  PROVE  IInv'
<1>1. PICK b \in Bookings : b = tickets[t].b
  BY EitherKind
<1>2. t \in Ids /\ t \in LiveTows(b)
  BY <1>1, EitherKind DEF DeliverRead, LiveTows, Tows
<1>3. PICK d : d = [Idle EXCEPT !.kind = "deliver", !.pc = "resolve", !.b = b, !.links = {t}]
  OBVIOUS
<1>4. d \in RequestDoc
  <2>1. "deliver" \in Kinds /\ "resolve" \in Points /\ {t} \in SUBSET Ids
    BY <1>2 DEF Kinds, Points
  <2> QED  BY <2>1, <1>3, IdleShape DEF RequestDoc
<1>5. d.kind = "deliver" /\ d.pc = "resolve" /\ d.b = b /\ d.links = {t}
  BY <1>3, IdleShape DEF RequestDoc
<1>6. Begin(c, b, d) /\ UNCHANGED <<booking, tickets>>
  BY <1>1, <1>3 DEF DeliverRead, Begin
<1>7. Shape(d)
  BY <1>2, <1>5 DEF Shape, Errand, Holds, LiveTows, Tows, Delivering
<1>8. ASSUME Neat(b, Idle) PROVE Fit(b, d)
  <2>1. Neat(b, d)
    BY <1>5, <1>8, Unbegun
  <2>2. Deciding(b, d) /\ Arriving(b, d) /\ Towing(b, d) /\ Banking(b, d)
    BY <1>5 DEF Deciding, Arriving, Towing, Banking
  <2>3. LiveTows(b) \subseteq d.links
    BY <1>2, <1>5, <1>8 DEF Neat, Filing, OneTow
  <2>4. \A w \in WalkInsOf(b) : tickets[w].parent = 0
    BY <1>2, <1>8 DEF Neat, Filing, Parked
  <2>5. Dropping(b, d)
    BY <2>3, <2>4, <1>5 DEF Dropping
  <2> QED  BY <2>1, <2>2, <2>5 DEF Fit, Sound
<1>9. Neat(b, Idle) => Fit(b, d)'
  BY <1>6, <1>8, SameBook
<1>10. Files(b) /\ NoDeposit(b)' /\ Shape(d)'
  BY <1>6, <1>7, SameBook
<1> QED  BY <1>4, <1>5, <1>6, <1>9, <1>10, BeginKeeps

\* What a stamp of a ticket leaves of its booking.
LEMMA StampNeat ==
  ASSUME NEW b \in Bookings, NEW t \in DOMAIN tickets, NEW doc, NEW d, Stamped(b, t, doc),
         booking'[b] = booking[b], Neat(b, d),
         doc.live = tickets[t].live, doc.parent = tickets[t].parent,
         doc.charge = "none" \/ tickets[t].charge # "none" \/ t = booking[b].ticket
  PROVE  /\ Filing(b)' /\ ReceivedBy(b, d)' /\ LinkedBy(b, d)'
         /\ WalkInsOf(b)' = WalkInsOf(b) /\ Tows(b)' = Tows(b)
         /\ LiveTows(b)' = LiveTows(b) /\ LiveWalkIns(b)' = LiveWalkIns(b)
<1>1. /\ WalkInsOf(b)' = WalkInsOf(b) /\ Tows(b)' = Tows(b)
      /\ \A u \in WalkInsOf(b) \union Tows(b) :
           tickets'[u].live = tickets[u].live /\ tickets'[u].parent = tickets[u].parent
  BY DEF Stamped, WalkInsOf, Tows
<1>2. LiveTows(b)' = LiveTows(b) /\ LiveWalkIns(b)' = LiveWalkIns(b)
  BY <1>1 DEF LiveTows, LiveWalkIns
<1>3. Charged(b)'
  <2> SUFFICES ASSUME NEW u \in WalkInsOf(b) \union Tows(b), tickets'[u].charge # "none"
               PROVE  u = booking'[b].ticket
    BY <1>1 DEF Charged
  <2>1. u \in DOMAIN tickets
    BY DEF WalkInsOf, Tows
  <2>2. tickets[u].charge # "none" => u = booking[b].ticket
    BY DEF Neat, Filing, Charged
  <2> QED  BY <2>1, <2>2 DEF Stamped
<1>4. /\ Begun(b)' /\ InTurn(b)' /\ OneTow(b)' /\ Parked(b)' /\ OneWork(b)' /\ WorkTicket(b)'
  BY <1>1, <1>2 DEF Neat, Filing, Begun, InTurn, OneTow, Parked, OneWork, WorkTicket
<1>5. ReceivedBy(b, d)' /\ LinkedBy(b, d)'
  BY <1>1, <1>2 DEF Neat, ReceivedBy, LinkedBy, Is
<1> QED  BY <1>1, <1>2, <1>3, <1>4, <1>5 DEF Filing

LEMMA PaidKeeps ==
  ASSUME IInv, NEW c \in Requests, NEW t \in DOMAIN tickets, Paid(c, t)
  PROVE  IInv'
<1>1. PICK b \in Bookings : b = tickets[t].b
  BY EitherKind
<1>2. PICK doc : doc = [tickets[t] EXCEPT !.charge = "held"]
  OBVIOUS
<1>3. tickets[t] \in TicketDoc /\ t \in Ids /\ t \in WalkInsOf(b) \union Tows(b)
  BY <1>1, EitherKind
<1>4. doc \in TicketDoc
  BY <1>2, <1>3 DEF TicketDoc
<1>5. /\ doc.b = b /\ doc.kind = tickets[t].kind /\ doc.live = tickets[t].live
      /\ doc.parent = tickets[t].parent /\ doc.deposit = tickets[t].deposit
  BY <1>1, <1>2, <1>3 DEF TicketDoc
<1>6. Stamped(b, t, doc)
  BY <1>1, <1>2, <1>4, <1>5, StampFacts DEF Paid
<1>7. PICK d : d = [Idle EXCEPT !.kind = "paid", !.pc = "stamp", !.t = t, !.b = b, !.put = "CONFIRMED"]
  OBVIOUS
<1>8. d \in RequestDoc
  <2>1. "paid" \in Kinds /\ "stamp" \in Points /\ "CONFIRMED" \in Statuses \union DepositStatuses
    BY DEF Kinds, Points, Statuses
  <2> QED  BY <2>1, <1>3, <1>7, IdleShape DEF RequestDoc
<1>9. d.kind = "paid" /\ d.pc = "stamp" /\ d.b = b /\ d.t = t /\ d.put = "CONFIRMED" /\ d.links = {}
  BY <1>7, IdleShape DEF RequestDoc
<1>10. Begin(c, b, d) /\ UNCHANGED booking /\ tickets[t].charge = "open"
  BY <1>1, <1>7 DEF Paid, Begin
<1>11. b \in Deposits
  BY <1>1, <1>10 DEF IInv, Good, NoDeposit
<1>12. NoDeposit(b)'
  BY <1>11 DEF NoDeposit
<1>13. Shape(d)'
  BY <1>6, <1>5, <1>9, <1>11 DEF Shape, Errand, Holds, Owns, Stamped
<1>14. ASSUME Neat(b, Idle) PROVE Fit(b, d)'
  <2>1. Neat(b, d) /\ t = booking[b].ticket
    BY <1>9, <1>14, <1>10, <1>3, Unbegun DEF Neat, Filing, Charged
  <2>2. /\ Filing(b)' /\ ReceivedBy(b, d)' /\ LinkedBy(b, d)'
    BY <2>1, <1>5, <1>6, <1>10, StampNeat
  <2>3. Agree(b)
    BY <1>9, <2>1 DEF Neat, KeptBy
  <2>4. Agree(b)'
    BY <2>1, <2>3, <1>5, <1>6, <1>10 DEF Agree, Stamped
  <2>5. Sound(b, d)'
    BY <2>1, <1>9, <1>10 DEF Sound, Deciding, Arriving, Towing, Dropping, Banking
  <2> QED  BY <2>2, <2>4, <2>5 DEF Fit, Neat, KeptBy
<1> QED  BY <1>6, <1>8, <1>9, <1>10, <1>12, <1>13, <1>14, BeginKeeps DEF Stamped

------------------------------------------------------------------------------
(* The requests go on *)

\* Request c of booking b, which was r, is d now, or it is done.
Works(c, b, r, d) ==
  /\ r = req[c] /\ r.b = b /\ d.b \in {b, None}
  /\ req' = [req EXCEPT ![c] = d]
  /\ UNCHANGED <<clock, sweep, rough, faults>>

LEMMA Working ==
  ASSUME IInv, NEW c \in Requests, ~At(c, "idle")
  PROVE  \E r \in RequestDoc, b \in Bookings :
           r = req[c] /\ r.b = b /\ Shape(r) /\ r.pc = req[c].pc /\ r.kind = req[c].kind
           /\ r.kind \in Kinds \ {"none"}
<1>1. PICK r \in RequestDoc : r = req[c]
  BY DEF IInv, TypeOK
<1>2. Shape(r) /\ r.pc # "idle"
  BY <1>1 DEF IInv, At
<1>3. r.b \in Bookings /\ r.kind # "none" /\ r.kind \in Kinds
  BY <1>2 DEF Shape, Errand, RequestDoc
<1> QED  BY <1>1, <1>2, <1>3

LEMMA WorkKeeps ==
  ASSUME IInv, NEW c \in Requests, NEW b \in Bookings, NEW r \in RequestDoc,
         NEW d \in RequestDoc, NEW doc, Works(c, b, r, d), Files(b), Books(b, doc),
         slot' \in 0..Capacity, Shape(d)', NoDeposit(b)',
         b \notin rough /\ Fit(b, r) => Fit(b, d)',
         Fit(b, r) /\ (Share(b, booking[b].status, r) => slot > 0)
           => Counts(Share(b, booking[b].status, r), Share(b, doc.status, d))
  PROVE  IInv'
<1>1. Turn(c, b, d)
  <2>1. b \notin rough => Alone(b) /\ Of(c, b)
    BY DEF IInv, Good, Works, Of
  <2> QED  BY <2>1 DEF Turn, Works, Alone, Of, IInv, TypeOK
<1>2. rough' = rough
  BY DEF Works
<1>3. b \notin rough' /\ Fit(b, r) => Fit(b, d)'
  BY <1>2
<1>4. r = req[c]
  BY DEF Works
<1> QED  BY <1>1, <1>3, <1>4, StepFits

\* One that neither writes the booking nor a ticket.
LEMMA QuietKeeps ==
  ASSUME IInv, NEW c \in Requests, NEW b \in Bookings, NEW r \in RequestDoc,
         NEW d \in RequestDoc, Works(c, b, r, d), UNCHANGED <<booking, tickets>>,
         slot' \in 0..Capacity, Shape(d), Fit(b, r) => Fit(b, d),
         Fit(b, r) /\ (Share(b, booking[b].status, r) => slot > 0)
           => Counts(Share(b, booking[b].status, r), Share(b, booking[b].status, d))
  PROVE  IInv'
<1>1. Files(b) /\ Books(b, booking[b]) /\ NoDeposit(b)' /\ Shape(d)'
  BY SameBook
<1>2. b \notin rough /\ Fit(b, r) => Fit(b, d)'
  BY SameBook
<1> QED  BY <1>1, <1>2, WorkKeeps

\* One that leaves the counter alone, and is not about to write either.
LEMMA MuteKeeps ==
  ASSUME IInv, NEW c \in Requests, NEW b \in Bookings, NEW r \in RequestDoc,
         NEW d \in RequestDoc, Works(c, b, r, d), UNCHANGED <<slot, booking, tickets>>,
         Shape(d), Fit(b, r) => Fit(b, d), r.pc # "write", d.pc # "write"
  PROVE  IInv'
<1>1. slot' \in 0..Capacity
  BY DEF IInv, TypeOK
<1>2. Counts(Share(b, booking[b].status, r), Share(b, booking[b].status, d))
  BY DEF Counts, Share
<1> QED  BY <1>1, <1>2, QuietKeeps

\* A request whose neither link nor stamp is due leaves its booking neat.
LEMMA LeavesNeat ==
  ASSUME NEW b \in Bookings, NEW r, NEW d, Neat(b, r), r.b = b,
         r.pc \notin {"arrived", "adopt", "meet", "join", "link", "copy", "keep"}
  PROVE  Neat(b, d)
BY DEF Neat, ReceivedBy, LinkedBy, KeptBy

LEMMA DoneFits ==
  ASSUME NEW b \in Bookings, NEW r, NEW d, Fit(b, r), r.b = b, d = Idle,
         r.pc \notin {"arrived", "adopt", "meet", "join", "link", "copy", "keep"}
  PROVE  Fit(b, d)
<1>1. d.b # b
  BY IdleShape, BookingsAssumption
<1> QED  BY <1>1, LeavesNeat DEF Fit

LEMMA DoneShape == \A d : d = Idle => d \in RequestDoc /\ d.b = None /\ Shape(d) /\ Shape(d)' /\ d.pc = "idle"
<1>1. Idle \in RequestDoc /\ Idle.b = None /\ Idle.pc = "idle" /\ Idle.links = {} /\ Idle.kind = "none"
  BY IdleShape DEF Idle
<1> QED  BY <1>1 DEF Shape, Errand, Holds

\* A request that only moves on.
LEMMA MovedTo ==
  ASSUME NEW r \in RequestDoc, NEW pc \in Points
  PROVE  \E d \in RequestDoc :
           /\ d = [r EXCEPT !.pc = pc]
           /\ d.pc = pc /\ d.kind = r.kind /\ d.b = r.b /\ d.t = r.t /\ d.put = r.put
           /\ d.links = r.links /\ d.deposit = r.deposit /\ d.first = r.first
<1>1. PICK d : d = [r EXCEPT !.pc = pc]
  OBVIOUS
<1>2. d \in RequestDoc
  BY <1>1 DEF RequestDoc
<1>3. /\ d.pc = pc /\ d.kind = r.kind /\ d.b = r.b /\ d.t = r.t /\ d.put = r.put
      /\ d.links = r.links /\ d.deposit = r.deposit /\ d.first = r.first
  BY <1>1 DEF RequestDoc
<1> QED  BY <1>1, <1>2, <1>3

LEMMA ClaimKeeps ==
  ASSUME IInv, NEW c \in Requests, Claim(c)
  PROVE  IInv'
<1>1. PICK r \in RequestDoc, b \in Bookings :
        /\ r = req[c] /\ r.b = b /\ Shape(r) /\ r.pc = "claim" /\ r.kind \in Kinds \ {"none"}
  BY Working DEF Claim, At
<1>2. r.kind = "accept"
  BY <1>1 DEF Shape, Errand, Kinds, Delivering
<1>3. slot \in 0..Capacity /\ Capacity \in Nat
  BY BookingsAssumption DEF IInv, TypeOK
<1>4. CASE slot < Capacity
  <2>1. "write" \in Points
    BY DEF Points
  <2>2. PICK d \in RequestDoc :
          /\ d = [r EXCEPT !.pc = "write"]
          /\ d.pc = "write" /\ d.kind = r.kind /\ d.b = r.b /\ d.put = r.put /\ d.links = r.links
    BY <2>1, MovedTo
  <2>3. Works(c, b, r, d) /\ UNCHANGED <<booking, tickets>> /\ slot' = slot + 1
    BY <1>1, <1>4, <2>2 DEF Claim, Works, Goto
  <2>4. Shape(d)
    BY <1>1, <1>2, <2>2 DEF Shape, Errand, Holds, Delivering
  <2>5. ASSUME Fit(b, r) PROVE Fit(b, d) /\ Is(b, {"REQUESTED"})
    <3>1. Neat(b, d)
      BY <1>1, <2>5, LeavesNeat DEF Fit
    <3>2. Is(b, {"REQUESTED"})
      BY <1>1, <1>2, <2>5 DEF Fit, Sound, Deciding
    <3>3. Sound(b, d)
      BY <1>2, <2>2, <3>2 DEF Sound, Deciding, Arriving, Towing, Dropping, Banking
    <3> QED  BY <3>1, <3>2, <3>3 DEF Fit
  <2>6. ASSUME Fit(b, r) PROVE Counts(Share(b, booking[b].status, r), Share(b, booking[b].status, d))
    <3>1. ~Share(b, booking[b].status, r)
      BY <1>1, <2>5, <2>6 DEF Share, Is
    <3>2. Share(b, booking[b].status, d)
      BY <1>1, <1>2, <2>2 DEF Share
    <3> QED  BY <3>1, <3>2, <2>3 DEF Counts
  <2>7. slot' \in 0..Capacity
    BY <1>3, <1>4, <2>3
  <2> QED  BY <2>3, <2>4, <2>5, <2>6, <2>7, QuietKeeps
<1>5. CASE ~(slot < Capacity)
  <2>1. PICK d \in RequestDoc : d = Idle /\ Shape(d) /\ d.b = None /\ d.pc = "idle"
    BY DoneShape
  <2>2. Works(c, b, r, d) /\ UNCHANGED <<slot, booking, tickets>>
    BY <1>1, <1>5, <2>1 DEF Claim, Works, Done, Goto
  <2>3. Fit(b, r) => Fit(b, d)
    BY <1>1, <2>1, DoneFits
  <2> QED  BY <1>1, <2>1, <2>2, <2>3, MuteKeeps
<1> QED  BY <1>4, <1>5

LEMMA ReleaseKeeps ==
  ASSUME IInv, NEW c \in Requests, Release(c)
  PROVE  IInv'
<1>1. PICK r \in RequestDoc, b \in Bookings :
        /\ r = req[c] /\ r.b = b /\ Shape(r) /\ r.pc = "release" /\ r.kind \in Kinds \ {"none"}
  BY Working DEF Release, At
<1>2. r.kind = "cancel"
  BY <1>1 DEF Shape, Errand, Kinds, Delivering
<1>3. slot \in 0..Capacity /\ Capacity \in Nat /\ slot' = IF slot > 0 THEN slot - 1 ELSE 0
  BY BookingsAssumption DEF IInv, TypeOK, Release, Freed
<1>4. slot' \in 0..Capacity /\ (slot > 0 => slot' = slot - 1)
  BY <1>3
<1>5. "write" \in Points
  BY DEF Points
<1>6. PICK d \in RequestDoc :
        /\ d = [r EXCEPT !.pc = "write"]
        /\ d.pc = "write" /\ d.kind = r.kind /\ d.b = r.b /\ d.put = r.put /\ d.links = r.links
  BY <1>5, MovedTo
<1>7. Works(c, b, r, d) /\ UNCHANGED <<booking, tickets>>
  BY <1>1, <1>6 DEF Release, Works, Goto
<1>8. Shape(d)
  BY <1>1, <1>2, <1>6 DEF Shape, Errand, Holds, Delivering
<1>9. ASSUME Fit(b, r) PROVE Fit(b, d) /\ Is(b, {"CONFIRMED"})
  <2>1. Neat(b, d)
    BY <1>1, <1>9, LeavesNeat DEF Fit
  <2>2. Is(b, {"CONFIRMED"})
    BY <1>1, <1>9 DEF Fit, Sound, Deciding
  <2>3. Sound(b, d)
    BY <1>2, <1>6, <2>2 DEF Sound, Deciding, Arriving, Towing, Dropping, Banking, Is
  <2> QED  BY <2>1, <2>2, <2>3 DEF Fit
<1>10. ASSUME Fit(b, r), Share(b, booking[b].status, r) => slot > 0
       PROVE  Counts(Share(b, booking[b].status, r), Share(b, booking[b].status, d))
  <2>1. Share(b, booking[b].status, r)
    BY <1>1, <1>9, <1>10 DEF Share, Is
  <2>2. ~Share(b, booking[b].status, d)
    BY <1>1, <1>2, <1>6 DEF Share
  <2> QED  BY <2>1, <2>2, <1>4, <1>10 DEF Counts
<1> QED  BY <1>4, <1>7, <1>8, <1>9, <1>10, QuietKeeps

\* A request writes its booking, and no ticket.
LEMMA WriteKeeps ==
  ASSUME IInv, NEW c \in Requests, NEW b \in Bookings, NEW r \in RequestDoc,
         NEW d \in RequestDoc, NEW doc \in BookingDoc, Works(c, b, r, d), Write(b, doc),
         UNCHANGED <<slot, tickets>>, doc.links \subseteq DOMAIN tickets,
         doc.ticket # 0 => Owns(b, doc.ticket),
         b \in Deposits \/ doc.deposit = booking[b].deposit,
         Shape(d), b \notin rough /\ Fit(b, r) => Fit(b, d)',
         Fit(b, r) => (Share(b, doc.status, d) <=> Share(b, booking[b].status, r))
  PROVE  IInv'
<1>1. Files(b)
  BY DEF Files, IInv, TypeOK
<1>2. Books(b, doc)
  BY DEF Books, Write, Owns
<1>3. booking'[b] = doc /\ NoDeposit(b)
  BY DEF Write, IInv, TypeOK, Good
<1>4. NoDeposit(b)'
  BY <1>3 DEF NoDeposit
<1>5. Shape(d)'
  BY <1>1, StillShape
<1>6. slot' \in 0..Capacity
  BY DEF IInv, TypeOK
<1>7. Fit(b, r) => Counts(Share(b, booking[b].status, r), Share(b, doc.status, d))
  BY DEF Counts
<1> QED  BY <1>1, <1>2, <1>4, <1>5, <1>6, <1>7, WorkKeeps

\* The tickets of a booking when only the booking is written.
LEMMA SameSets ==
  ASSUME UNCHANGED tickets
  PROVE  \A b : /\ WalkInsOf(b)' = WalkInsOf(b) /\ Tows(b)' = Tows(b)
                /\ LiveTows(b)' = LiveTows(b) /\ LiveWalkIns(b)' = LiveWalkIns(b)
BY DEF WalkInsOf, Tows, LiveTows, LiveWalkIns

\* What of a booking's tickets does not hang on the booking, unless it is its
\* ticket.
LEMMA SameFiling ==
  ASSUME UNCHANGED tickets, NEW b \in Bookings, Filing(b),
         booking'[b].ticket = booking[b].ticket, Begun(b)'
  PROVE  Filing(b)'
BY SameSets DEF Filing, InTurn, OneTow, Parked, OneWork, WorkTicket, Charged

\* A booking gets its first work ticket.
LEMMA FirstFiling ==
  ASSUME IInv, UNCHANGED tickets, NEW b \in Bookings, Filing(b), booking[b].ticket = 0,
         booking'[b].ticket \in WalkInsOf(b), Begun(b)'
  PROVE  Filing(b)'
<1>1. \A t \in WalkInsOf(b) \union Tows(b) : t # 0
  BY EitherKind DEF WalkInsOf, Tows
<1>2. \A t \in WalkInsOf(b) \union Tows(b) : tickets[t].charge = "none"
  BY <1>1 DEF Filing, Charged
<1> QED  BY <1>2, SameSets DEF Filing, InTurn, OneTow, Parked, OneWork, WorkTicket, Charged

LEMMA SetStatusKeeps ==
  ASSUME IInv, NEW c \in Requests, SetStatus(c)
  PROVE  IInv'
<1>1. PICK r \in RequestDoc, b \in Bookings :
        /\ r = req[c] /\ r.b = b /\ Shape(r) /\ r.pc = "write" /\ r.kind \in Kinds \ {"none"}
  BY Working DEF SetStatus, At
<1>2. r.kind \in {"accept", "decline", "cancel", "complete"}
  BY <1>1 DEF Shape, Errand, Kinds, Delivering
<1>3. r.put \in {"CONFIRMED", "DECLINED", "CANCELLED", "COMPLETED"}
  BY <1>1, <1>2 DEF Shape, Errand
<1>4. PICK old \in BookingDoc : old = booking[b]
  BY DEF IInv, TypeOK
<1>5. PICK doc : doc = [old EXCEPT !.status = r.put]
  OBVIOUS
<1>6. doc \in BookingDoc
  BY <1>3, <1>5 DEF BookingDoc, Statuses
<1>7. doc.status = r.put /\ doc.ticket = old.ticket /\ doc.links = old.links /\ doc.deposit = old.deposit
  BY <1>5 DEF BookingDoc
<1>8. PICK d \in RequestDoc : d = Idle /\ Shape(d) /\ d.b = None /\ d.pc = "idle"
  BY DoneShape
<1>9. d.b # b
  BY <1>8, BookingsAssumption
<1>10. Works(c, b, r, d) /\ Write(b, doc) /\ UNCHANGED <<slot, tickets>>
  BY <1>1, <1>4, <1>5, <1>8 DEF SetStatus, Works, Done, Goto
<1>11. booking'[b] = doc
  BY <1>10 DEF Write, IInv, TypeOK
<1>12. doc.links \subseteq DOMAIN tickets /\ (doc.ticket # 0 => Owns(b, doc.ticket))
  BY <1>4, <1>7 DEF IInv, TypeOK, Good, Owned
<1>13. ASSUME Fit(b, r) PROVE Fit(b, d)'
  <2>1. Neat(b, r) /\ Deciding(b, r)
    BY <1>1, <1>13 DEF Fit, Sound
  <2>2. Begun(b)'
    <3>1. ASSUME WalkInsOf(b) \union Tows(b) # {} PROVE doc.status \in Settled
      <4>1. booking[b].status \in Settled
        BY <2>1, <3>1 DEF Neat, Filing, Begun
      <4>2. r.kind # "decline" /\ r.put # "DECLINED"
        BY <2>1, <4>1, <1>1, <1>2 DEF Deciding, Is, Settled, Shape, Errand
      <4> QED  BY <4>2, <1>3, <1>7 DEF Settled, Statuses
    <3> QED  BY <3>1, <1>10, <1>11, SameSets DEF Begun
  <2>3. Filing(b)'
    BY <2>1, <2>2, <1>4, <1>7, <1>10, <1>11, SameFiling DEF Neat
  <2>4. ReceivedBy(b, d)'
    <3>1. ASSUME doc.status = "CONFIRMED" PROVE WalkInsOf(b) = {}
      <4>1. r.kind = "accept"
        BY <3>1, <1>1, <1>2, <1>7 DEF Shape, Errand
      <4>2. booking[b].status = "REQUESTED"
        BY <4>1, <2>1 DEF Deciding, Is
      <4> QED  BY <4>2, <2>1 DEF Neat, Filing, Begun, Settled
    <3> QED  BY <3>1, <1>10, <1>11, SameSets DEF ReceivedBy, Is
  <2>5. LinkedBy(b, d)'
    BY <2>1, <1>1, <1>4, <1>7, <1>10, <1>11, SameSets DEF Neat, LinkedBy
  <2>6. Agree(b)'
    BY <2>1, <1>1, <1>4, <1>7, <1>10, <1>11 DEF Neat, KeptBy, Agree
  <2> QED  BY <2>3, <2>4, <2>5, <2>6, <1>9, <1>8 DEF Fit, Neat, KeptBy
<1>14. ASSUME Fit(b, r) PROVE Share(b, doc.status, d) <=> Share(b, booking[b].status, r)
  <2>1. Deciding(b, r)
    BY <1>1, <1>14 DEF Fit, Sound
  <2>2. Share(b, doc.status, d) <=> doc.status \in {"CONFIRMED", "ARRIVED", "COMPLETED"}
    BY <1>9 DEF Share
  <2>3. CASE r.kind = "accept"
    BY <2>2, <2>3, <1>1, <1>7 DEF Share, Shape, Errand
  <2>4. CASE r.kind = "decline"
    BY <2>1, <2>2, <2>4, <1>1, <1>7 DEF Share, Shape, Errand, Deciding, Is
  <2>5. CASE r.kind = "cancel"
    BY <2>2, <2>5, <1>1, <1>7 DEF Share, Shape, Errand
  <2>6. CASE r.kind = "complete"
    BY <2>1, <2>2, <2>6, <1>1, <1>7 DEF Share, Shape, Errand, Deciding, Is
  <2> QED  BY <2>3, <2>4, <2>5, <2>6, <1>2
<1> QED
  BY <1>4, <1>6, <1>7, <1>8, <1>10, <1>12, <1>13, <1>14, WriteKeeps

LEMMA CheckKeeps ==
  ASSUME IInv, NEW c \in Requests, Check(c)
  PROVE  IInv'
<1>1. PICK r \in RequestDoc, b \in Bookings :
        /\ r = req[c] /\ r.b = b /\ Shape(r) /\ r.pc = "check" /\ r.kind \in Kinds \ {"none"}
  BY Working DEF Check, At
<1>2. r.kind = "arrive"
  BY <1>1 DEF Shape, Errand, Kinds, Delivering
<1>3. CASE Conflict(b)
  <2>1. PICK d \in RequestDoc : d = Idle /\ Shape(d) /\ d.b = None /\ d.pc = "idle"
    BY DoneShape
  <2>2. Works(c, b, r, d) /\ UNCHANGED <<slot, booking, tickets>>
    BY <1>1, <1>3, <2>1 DEF Check, Works, Done, Goto
  <2>3. Fit(b, r) => Fit(b, d)
    BY <1>1, <2>1, DoneFits
  <2> QED  BY <1>1, <2>1, <2>2, <2>3, MuteKeeps
<1>4. CASE ~Conflict(b)
  <2>1. "open" \in Points
    BY DEF Points
  <2>2. PICK d \in RequestDoc :
          /\ d = [r EXCEPT !.pc = "open"]
          /\ d.pc = "open" /\ d.kind = r.kind /\ d.b = r.b /\ d.put = r.put
          /\ d.links = r.links /\ d.deposit = r.deposit
    BY <2>1, MovedTo
  <2>3. Works(c, b, r, d) /\ UNCHANGED <<slot, booking, tickets>>
    BY <1>1, <1>4, <2>2 DEF Check, Works, Goto
  <2>4. Shape(d)
    BY <1>1, <1>2, <2>2 DEF Shape, Errand, Holds, Delivering
  <2>5. ASSUME Fit(b, r) PROVE Fit(b, d)
    <3>1. Neat(b, d)
      BY <1>1, <2>5, LeavesNeat DEF Fit
    <3>2. Arriving(b, r)
      BY <1>1, <2>5 DEF Fit, Sound
    <3>3. Sound(b, d)
      BY <1>1, <1>2, <2>2, <3>2 DEF Sound, Deciding, Arriving, Towing, Dropping, Banking
    <3> QED  BY <3>1, <3>3 DEF Fit
  <2> QED  BY <1>1, <2>2, <2>3, <2>4, <2>5, MuteKeeps
<1> QED  BY <1>3, <1>4

LEMMA LookKeeps ==
  ASSUME IInv, NEW c \in Requests, Look(c)
  PROVE  IInv'
<1>1. PICK r \in RequestDoc, b \in Bookings :
        /\ r = req[c] /\ r.b = b /\ Shape(r) /\ r.pc = "look" /\ r.kind \in Kinds \ {"none"}
  BY Working DEF Look, At
<1>2. r.kind = "tow"
  BY <1>1 DEF Shape, Errand, Kinds, Delivering
<1>3. CASE \E t \in r.links : tickets[t].kind = "TOW" /\ tickets[t].live
  <2>1. PICK d \in RequestDoc : d = Idle /\ Shape(d) /\ d.b = None /\ d.pc = "idle"
    BY DoneShape
  <2>2. Works(c, b, r, d) /\ UNCHANGED <<slot, booking, tickets>>
    BY <1>1, <1>3, <2>1 DEF Look, Works, Done, Goto
  <2>3. Fit(b, r) => Fit(b, d)
    BY <1>1, <2>1, DoneFits
  <2> QED  BY <1>1, <2>1, <2>2, <2>3, MuteKeeps
<1>4. CASE ~(\E t \in r.links : tickets[t].kind = "TOW" /\ tickets[t].live)
  <2>1. "file" \in Points
    BY DEF Points
  <2>2. PICK d \in RequestDoc :
          /\ d = [r EXCEPT !.pc = "file"]
          /\ d.pc = "file" /\ d.kind = r.kind /\ d.b = r.b /\ d.put = r.put
          /\ d.links = r.links /\ d.deposit = r.deposit
    BY <2>1, MovedTo
  <2>3. Works(c, b, r, d) /\ UNCHANGED <<slot, booking, tickets>>
    BY <1>1, <1>4, <2>2 DEF Look, Works, Goto
  <2>4. Shape(d)
    BY <1>1, <1>2, <2>2 DEF Shape, Errand, Holds, Delivering
  <2>5. ASSUME Fit(b, r) PROVE Fit(b, d)
    <3>1. Neat(b, d)
      BY <1>1, <2>5, LeavesNeat DEF Fit
    <3>2. Towing(b, r) /\ LinkedBy(b, r)
      BY <1>1, <2>5 DEF Fit, Sound, Neat
    <3>3. LiveTows(b) = {}
      BY <1>1, <1>2, <1>4, <3>2 DEF Towing, LinkedBy, LiveTows, Tows
    <3>4. Sound(b, d)
      BY <1>1, <1>2, <2>2, <3>2, <3>3 DEF Sound, Deciding, Arriving, Towing, Dropping, Banking
    <3> QED  BY <3>1, <3>4 DEF Fit
  <2> QED  BY <1>1, <2>2, <2>3, <2>4, <2>5, MuteKeeps
<1> QED  BY <1>3, <1>4

\* The copy of the deposit, when the booking has one, is the next step.
LEMMA ThenCopyFacts ==
  ASSUME IInv, NEW c \in Requests, NEW b \in Bookings, NEW r \in RequestDoc,
         r = req[c], r.b = b, Shape(r), r.pc \in {"arrived", "join"}
  PROVE  \E d \in RequestDoc :
           /\ d = ThenCopy(c) /\ d.b \in {b, None} /\ Shape(d) /\ d.pc \in {"idle", "copy"}
           /\ d.b = b <=> b \in Deposits
           /\ d.b = b => /\ d.pc = "copy" /\ d.kind = r.kind /\ d.t = r.t
                         /\ d.deposit = r.deposit /\ d.links = r.links
<1>1. r.kind \in {"arrive", "deliver"}
  BY DEF Shape, Errand, Kinds, RequestDoc, Delivering
<1>2. CASE b \in Deposits
  <2>1. "copy" \in Points
    BY DEF Points
  <2>2. PICK d \in RequestDoc :
          /\ d = [r EXCEPT !.pc = "copy"]
          /\ d.pc = "copy" /\ d.kind = r.kind /\ d.b = r.b /\ d.t = r.t /\ d.put = r.put
          /\ d.links = r.links /\ d.deposit = r.deposit
    BY <2>1, MovedTo
  <2>3. d = ThenCopy(c)
    BY <1>2, <2>2 DEF ThenCopy
  <2>4. Shape(d)
    BY <1>1, <1>2, <2>2 DEF Shape, Errand, Holds, Delivering
  <2> QED  BY <1>2, <2>2, <2>3, <2>4
<1>3. CASE b \notin Deposits
  <2>1. PICK d \in RequestDoc : d = Idle /\ Shape(d) /\ d.b = None /\ d.pc = "idle"
    BY DoneShape
  <2>2. d = ThenCopy(c) /\ d.b # b
    BY <1>3, <2>1, BookingsAssumption DEF ThenCopy
  <2> QED  BY <1>3, <2>1, <2>2
<1> QED  BY <1>2, <1>3

LEMMA ArrivedKeeps ==
  ASSUME IInv, NEW c \in Requests, Arrived(c)
  PROVE  IInv'
<1>1. PICK r \in RequestDoc, b \in Bookings :
        /\ r = req[c] /\ r.b = b /\ Shape(r) /\ r.pc = "arrived" /\ r.kind \in Kinds \ {"none"}
  BY Working DEF Arrived, At
<1>2. r.kind = "arrive" /\ r.t \in WalkInsOf(b)
  BY <1>1 DEF Shape, Errand, Holds, Kinds, Delivering
<1>3. r.t \in DOMAIN tickets /\ Owns(b, r.t) /\ r.t \in Ids /\ r.t # 0
      /\ r.links \subseteq DOMAIN tickets /\ DOMAIN tickets \subseteq Ids
  BY <1>1, <1>2, EitherKind DEF WalkInsOf, Owns, Shape, Holds
<1>4. PICK old \in BookingDoc : old = booking[b]
  BY DEF IInv, TypeOK
<1>5. PICK doc : doc = [old EXCEPT !.status = "ARRIVED", !.came = TRUE, !.ticket = r.t,
                                   !.links = r.links \union {r.t}]
  OBVIOUS
<1>6. doc \in BookingDoc
  <2>1. r.links \union {r.t} \in SUBSET Ids /\ "ARRIVED" \in Statuses
    BY <1>3 DEF Statuses
  <2> QED  BY <2>1, <1>3, <1>5 DEF BookingDoc
<1>7. /\ doc.status = "ARRIVED" /\ doc.ticket = r.t /\ doc.links = r.links \union {r.t}
      /\ doc.deposit = old.deposit
  BY <1>5 DEF BookingDoc
<1>8. PICK d \in RequestDoc :
        /\ d = ThenCopy(c) /\ d.b \in {b, None} /\ Shape(d) /\ d.pc \in {"idle", "copy"}
        /\ d.b = b <=> b \in Deposits
        /\ d.b = b => /\ d.pc = "copy" /\ d.kind = r.kind /\ d.t = r.t
                      /\ d.deposit = r.deposit /\ d.links = r.links
  BY <1>1, ThenCopyFacts
<1>9. Works(c, b, r, d) /\ Write(b, doc) /\ UNCHANGED <<slot, tickets>>
  BY <1>1, <1>4, <1>5, <1>8 DEF Arrived, Works, Goto
<1>10. booking'[b] = doc
  BY <1>9 DEF Write, IInv, TypeOK
<1>11. doc.links \subseteq DOMAIN tickets /\ Owns(b, doc.ticket)
  BY <1>3, <1>7
<1>12. ASSUME Fit(b, r) PROVE Fit(b, d)'
  <2>1. Neat(b, r) /\ Arriving(b, r)
    BY <1>1, <1>12 DEF Fit, Sound
  <2>2. Begun(b)'
    BY <1>7, <1>10 DEF Begun, Settled, Statuses
  <2>3. Filing(b)'
    BY <2>1, <2>2, <1>1, <1>2, <1>7, <1>9, <1>10, FirstFiling DEF Neat, Arriving
  <2>4. ReceivedBy(b, d)'
    BY <1>7, <1>10 DEF ReceivedBy, Is
  <2>5. LinkedBy(b, d)'
    BY <2>1, <1>1, <1>2, <1>7, <1>9, <1>10, SameSets DEF Neat, LinkedBy, Arriving
  <2>6. KeptBy(b, d)'
    <3>1. CASE b \in Deposits
      BY <3>1, <1>8 DEF KeptBy
    <3>2. CASE b \notin Deposits
      <4>1. booking[b].deposit = "NONE" /\ tickets[r.t].deposit = "NONE"
        BY <3>2, <1>3 DEF IInv, Good, NoDeposit, Owns
      <4> QED  BY <4>1, <1>4, <1>7, <1>9, <1>10 DEF KeptBy, Agree
    <3> QED  BY <3>1, <3>2
  <2>7. ASSUME d.b = b PROVE Sound(b, d)'
    <3>1. d.kind = "arrive" /\ d.pc = "copy" /\ d.t = r.t /\ d.deposit = r.deposit
      BY <2>7, <1>2, <1>8
    <3>2. d.deposit = booking'[b].deposit
      BY <3>1, <2>1, <1>1, <1>2, <1>4, <1>7, <1>10 DEF Arriving
    <3> QED
      BY <3>1, <3>2, <1>7, <1>10 DEF Sound, Deciding, Arriving, Towing, Dropping, Banking, Is
  <2> QED  BY <2>3, <2>4, <2>5, <2>6, <2>7 DEF Fit, Neat
<1>13. ASSUME Fit(b, r) PROVE Share(b, doc.status, d) <=> Share(b, booking[b].status, r)
  <2>1. booking[b].status = "CONFIRMED"
    BY <1>1, <1>2, <1>13 DEF Fit, Sound, Arriving, Is
  <2> QED  BY <2>1, <1>1, <1>2, <1>7, <1>8 DEF Share
<1> QED
  BY <1>4, <1>6, <1>7, <1>8, <1>9, <1>11, <1>12, <1>13, WriteKeeps

\* A request stamps a ticket of its booking, and does not write the booking.
LEMMA StampKeeps ==
  ASSUME IInv, NEW c \in Requests, NEW b \in Bookings, NEW r \in RequestDoc,
         NEW d \in RequestDoc, NEW t \in DOMAIN tickets, NEW doc \in TicketDoc,
         Works(c, b, r, d), UNCHANGED <<slot, booking>>, Stamp(t, doc),
         tickets[t].b = b, doc.b = b, doc.kind = tickets[t].kind,
         b \in Deposits \/ (doc.deposit = tickets[t].deposit /\ doc.charge = tickets[t].charge),
         Shape(d), b \notin rough /\ Fit(b, r) => Fit(b, d)', r.pc # "write", d.pc # "write"
  PROVE  IInv'
<1>1. Stamped(b, t, doc)
  BY StampFacts
<1>2. NoDeposit(b)'
  BY <1>1, StampNoDeposit
<1>3. Files(b)
  BY <1>1 DEF Stamped
<1>4. Books(b, booking[b])
  <2>1. Owned(b) /\ booking[b] \in BookingDoc /\ booking' = [booking EXCEPT ![b] = booking[b]]
    BY DEF IInv, Good, TypeOK
  <2>2. booking[b].links \subseteq DOMAIN tickets
    BY DEF IInv, TypeOK
  <2> QED  BY <2>1, <2>2, <1>3 DEF Books, Owned, Owns, Files
<1>5. Shape(d)'
  BY <1>3, StillShape
<1>6. slot' \in 0..Capacity
  BY DEF IInv, TypeOK
<1>7. Counts(Share(b, booking[b].status, r), Share(b, booking[b].status, d))
  BY DEF Counts, Share
<1> QED  BY <1>2, <1>3, <1>4, <1>5, <1>6, <1>7, WorkKeeps

LEMMA CopyKeeps ==
  ASSUME IInv, NEW c \in Requests, Copy(c)
  PROVE  IInv'
<1>1. PICK r \in RequestDoc, b \in Bookings :
        /\ r = req[c] /\ r.b = b /\ Shape(r) /\ r.pc = "copy" /\ r.kind \in Kinds \ {"none"}
  BY Working DEF Copy, At
<1>2. r.t \in WalkInsOf(b) /\ b \in Deposits
  BY <1>1 DEF Shape, Errand, Holds
<1>3. PICK t \in DOMAIN tickets : t = r.t
  BY <1>2 DEF WalkInsOf
<1>4. tickets[t].b = b /\ tickets[t] \in TicketDoc
  BY <1>2, <1>3, EitherKind DEF WalkInsOf
<1>5. PICK doc : doc = [tickets[t] EXCEPT !.deposit = r.deposit]
  OBVIOUS
<1>6. doc \in TicketDoc
  BY <1>4, <1>5 DEF TicketDoc, RequestDoc
<1>7. /\ doc.b = tickets[t].b /\ doc.kind = tickets[t].kind /\ doc.live = tickets[t].live
      /\ doc.parent = tickets[t].parent /\ doc.charge = tickets[t].charge
      /\ doc.deposit = r.deposit
  BY <1>4, <1>5 DEF TicketDoc
<1>8. PICK d \in RequestDoc : d = Idle /\ Shape(d) /\ d.b = None /\ d.pc = "idle"
  BY DoneShape
<1>9. d.b # b
  BY <1>8, BookingsAssumption
<1>10. Works(c, b, r, d) /\ UNCHANGED <<slot, booking>> /\ Stamp(t, doc)
  BY <1>1, <1>3, <1>5, <1>8 DEF Copy, Works, Done, Goto
<1>11. Stamped(b, t, doc)
  BY <1>4, <1>6, <1>7, <1>10, StampFacts
<1>12. ASSUME Fit(b, r) PROVE Fit(b, d)'
  <2>1. Neat(b, r) /\ Banking(b, r)
    BY <1>1, <1>12 DEF Fit, Sound
  <2>2. /\ Filing(b)' /\ LinkedBy(b, r)'
    BY <2>1, <1>7, <1>10, <1>11, StampNeat
  <2>3. ReceivedBy(b, d)'
    BY <2>1, <1>1, <1>10 DEF Banking, ReceivedBy, Is
  <2>4. LinkedBy(b, d)'
    BY <2>2, <1>1 DEF LinkedBy
  <2>5. Agree(b)'
    <3>1. booking[b].deposit = r.deposit /\ (Agree(b) \/ t = booking[b].ticket)
      BY <2>1, <1>1, <1>3 DEF Banking
    <3>2. CASE t = booking[b].ticket
      BY <3>1, <3>2, <1>7, <1>10, <1>11 DEF Agree, Stamped
    <3>3. CASE t # booking[b].ticket
      <4>1. booking[b].ticket # 0 => booking[b].ticket \in DOMAIN tickets
        BY DEF IInv, TypeOK
      <4> QED  BY <4>1, <3>1, <3>3, <1>10, <1>11 DEF Agree, Stamped
    <3> QED  BY <3>2, <3>3
  <2> QED  BY <2>2, <2>3, <2>4, <2>5, <1>9 DEF Fit, Neat, KeptBy
<1> QED
  BY <1>1, <1>2, <1>4, <1>6, <1>7, <1>8, <1>10, <1>12, StampKeeps

\* A request adds a ticket, and does not write the booking.
LEMMA AddKeeps ==
  ASSUME IInv, NEW c \in Requests, NEW b \in Bookings, NEW r \in RequestDoc,
         NEW d \in RequestDoc, NEW n, NEW doc,
         Works(c, b, r, d), UNCHANGED <<slot, booking>>, Added(b, n, doc),
         doc.deposit = "NONE", doc.charge = "none",
         Shape(d)', b \notin rough /\ Fit(b, r) => Fit(b, d)', r.pc # "write", d.pc # "write"
  PROVE  IInv'
<1>1. NoDeposit(b)'
  BY AddNoDeposit
<1>2. Files(b)
  BY DEF Added
<1>3. Books(b, booking[b])
  <2>1. Owned(b) /\ booking[b] \in BookingDoc /\ booking' = [booking EXCEPT ![b] = booking[b]]
    BY DEF IInv, Good, TypeOK
  <2>2. booking[b].links \subseteq DOMAIN tickets
    BY DEF IInv, TypeOK
  <2> QED  BY <2>1, <2>2, <1>2 DEF Books, Owned, Owns, Files
<1>4. slot' \in 0..Capacity
  BY DEF IInv, TypeOK
<1>5. Counts(Share(b, booking[b].status, r), Share(b, booking[b].status, d))
  BY DEF Counts, Share
<1> QED  BY <1>1, <1>2, <1>3, <1>4, <1>5, WorkKeeps

LEMMA AddSets ==
  ASSUME NEW b \in Bookings, NEW n, NEW doc, Added(b, n, doc), doc.b = b,
         doc.kind \in {"WALK_IN", "TOW"}, doc.live
  PROVE  /\ doc.kind = "WALK_IN" => /\ WalkInsOf(b)' = WalkInsOf(b) \union {n}
                                    /\ LiveWalkIns(b)' = LiveWalkIns(b) \union {n}
                                    /\ Tows(b)' = Tows(b) /\ LiveTows(b)' = LiveTows(b)
         /\ doc.kind = "TOW" => /\ Tows(b)' = Tows(b) \union {n}
                                /\ LiveTows(b)' = LiveTows(b) \union {n}
                                /\ WalkInsOf(b)' = WalkInsOf(b) /\ LiveWalkIns(b)' = LiveWalkIns(b)
<1>1. CASE doc.kind = "WALK_IN"
  <2>1. WalkInsOf(b)' = WalkInsOf(b) \union {n} /\ Tows(b)' = Tows(b)
    BY <1>1 DEF Added, WalkInsOf, Tows
  <2>2. n \notin WalkInsOf(b) /\ \A u \in WalkInsOf(b) \union Tows(b) : tickets'[u] = tickets[u]
    BY DEF Added, WalkInsOf, Tows
  <2>3. LiveWalkIns(b)' = LiveWalkIns(b) \union {n} /\ LiveTows(b)' = LiveTows(b)
    BY <2>1, <2>2 DEF LiveWalkIns, LiveTows, Added
  <2> QED  BY <1>1, <2>1, <2>3
<1>2. CASE doc.kind = "TOW"
  <2>1. Tows(b)' = Tows(b) \union {n} /\ WalkInsOf(b)' = WalkInsOf(b)
    BY <1>2 DEF Added, WalkInsOf, Tows
  <2>2. n \notin Tows(b) /\ \A u \in WalkInsOf(b) \union Tows(b) : tickets'[u] = tickets[u]
    BY DEF Added, WalkInsOf, Tows
  <2>3. LiveTows(b)' = LiveTows(b) \union {n} /\ LiveWalkIns(b)' = LiveWalkIns(b)
    BY <2>1, <2>2 DEF LiveWalkIns, LiveTows, Added
  <2> QED  BY <1>2, <2>1, <2>3
<1> QED  BY <1>1, <1>2

\* What of a booking with a ticket more does not hang on its kind.
LEMMA AddOld ==
  ASSUME IInv, NEW b \in Bookings, NEW n, NEW doc, Added(b, n, doc), doc.charge = "none",
         doc.b = b, doc.kind \in {"WALK_IN", "TOW"}, doc.live, Filing(b), UNCHANGED booking
  PROVE  Charged(b)' /\ WorkTicket(b)' /\ (Agree(b) => Agree(b)')
<1>1. Charged(b)'
  <2> SUFFICES ASSUME NEW u \in WalkInsOf(b)' \union Tows(b)', tickets'[u].charge # "none"
               PROVE  u = booking[b].ticket
    BY DEF Charged
  <2>1. u \in WalkInsOf(b) \union Tows(b)
    BY AddSets DEF Added
  <2>2. tickets'[u] = tickets[u]
    BY <2>1 DEF Added, WalkInsOf, Tows
  <2> QED  BY <2>1, <2>2 DEF Filing, Charged
<1>2. WorkTicket(b)'
  BY AddSets DEF Filing, WorkTicket
<1>3. Agree(b) => Agree(b)'
  BY DEF Agree, Added, IInv, TypeOK
<1> QED  BY <1>1, <1>2, <1>3

LEMMA OpenWalkInKeeps ==
  ASSUME IInv, NEW c \in Requests, OpenWalkIn(c)
  PROVE  IInv'
<1>1. PICK r \in RequestDoc, b \in Bookings :
        /\ r = req[c] /\ r.b = b /\ Shape(r) /\ r.pc = "open" /\ r.kind \in Kinds \ {"none"}
  BY Working DEF OpenWalkIn, At
<1>2. r.kind \in {"arrive", "deliver"}
  BY <1>1 DEF Shape, Errand, Kinds, Delivering
<1>3. PICK n, doc : n = Next1 /\ doc = New("WALK_IN", b)
  OBVIOUS
<1>4. /\ Added(b, n, doc)
      /\ doc.b = b /\ doc.kind = "WALK_IN" /\ doc.live /\ doc.parent = 0
      /\ doc.deposit = "NONE" /\ doc.charge = "none"
  BY <1>1, <1>3, AddFacts DEF OpenWalkIn
<1>5. PICK pc \in Points : pc = IF r.kind = "arrive" THEN "arrived" ELSE "adopt"
  BY DEF Points
<1>6. PICK d : d = [r EXCEPT !.pc = pc, !.t = n]
  OBVIOUS
<1>7. d \in RequestDoc
  BY <1>4, <1>6 DEF RequestDoc, Added
<1>8. /\ d.pc = pc /\ d.t = n /\ d.kind = r.kind /\ d.b = b /\ d.put = r.put
      /\ d.links = r.links /\ d.deposit = r.deposit
  BY <1>1, <1>6 DEF RequestDoc
<1>9. Works(c, b, r, d) /\ UNCHANGED <<slot, booking>>
  BY <1>1, <1>3, <1>5, <1>6, <1>8 DEF OpenWalkIn, Works, Goto
<1>10. /\ WalkInsOf(b)' = WalkInsOf(b) \union {n} /\ LiveWalkIns(b)' = LiveWalkIns(b) \union {n}
       /\ Tows(b)' = Tows(b) /\ LiveTows(b)' = LiveTows(b)
  BY <1>4, AddSets
<1>11. Shape(d)'
  <2>1. Errand(d)'
    BY <1>1, <1>2, <1>5, <1>8 DEF Shape, Errand, Delivering
  <2>2. d.links \subseteq DOMAIN tickets'
    BY <1>1, <1>4, <1>8 DEF Shape, Holds, Added
  <2>3. d.kind = "deliver" => \E p \in Tows(b) : d.links = {p}
    BY <1>1, <1>8 DEF Shape, Holds, Delivering
  <2> QED  BY <2>1, <2>2, <2>3, <1>5, <1>8, <1>10 DEF Shape, Holds
<1>12. ASSUME Fit(b, r) PROVE Fit(b, d)'
  <2>1. Neat(b, r) /\ Arriving(b, r) /\ Dropping(b, r)
    BY <1>1, <1>12 DEF Fit, Sound
  <2>2. LiveWalkIns(b) = {}
    BY <2>1, <1>1, <1>2 DEF Arriving, Dropping, LiveWalkIns
  <2>3. Begun(b)'
    <3>1. CASE r.kind = "arrive"
      BY <3>1, <2>1, <1>1, <1>9 DEF Arriving, Begun, Is, Settled, Statuses
    <3>2. CASE r.kind = "deliver"
      <4>1. Tows(b) # {}
        BY <3>2, <1>1 DEF Shape, Holds, Delivering
      <4> QED  BY <4>1, <2>1, <1>9 DEF Neat, Filing, Begun
    <3> QED  BY <3>1, <3>2, <1>2
  <2>4. InTurn(b)'
    <3>1. ASSUME NEW w \in WalkInsOf(b)', NEW t \in Tows(b)' PROVE w > t
      <4>1. CASE w = n
        <5>1. t \in DOMAIN tickets /\ t < n
          BY <1>4, <1>10 DEF Tows, Added
        <5>2. t \in Ids /\ n \in Ids
          BY <5>1, EitherKind, <1>4 DEF Added
        <5> QED  BY <4>1, <5>1, <5>2 DEF Ids
      <4>2. CASE w \in WalkInsOf(b)
        BY <4>2, <1>10, <2>1 DEF Neat, Filing, InTurn
      <4> QED  BY <4>1, <4>2, <1>10
    <3> QED  BY <3>1 DEF InTurn
  <2>5. OneTow(b)' /\ OneWork(b)'
    BY <2>1, <2>2, <1>10 DEF Neat, Filing, OneTow, OneWork
  <2>6. Parked(b)'
    <3>1. ASSUME NEW w \in WalkInsOf(b)', tickets'[w].parent # 0 PROVE LiveTows(b) = {}
      <4>1. w # n
        BY <3>1, <1>4 DEF Added
      <4>2. w \in WalkInsOf(b) /\ tickets'[w] = tickets[w]
        BY <4>1, <1>4, <1>10 DEF Added, WalkInsOf
      <4> QED  BY <4>2, <3>1, <2>1 DEF Neat, Filing, Parked
    <3> QED  BY <3>1, <1>10 DEF Parked
  <2>7. Charged(b)' /\ WorkTicket(b)' /\ (Agree(b) => Agree(b)')
    BY <2>1, <1>4, <1>9, AddOld DEF Neat
  <2>8. ReceivedBy(b, d)'
    BY <1>2, <1>5, <1>8 DEF ReceivedBy
  <2>9. LinkedBy(b, d)'
    BY <2>1, <1>1, <1>9, <1>10 DEF Neat, LinkedBy
  <2>10. KeptBy(b, d)'
    BY <2>1, <2>7, <1>1 DEF Neat, KeptBy
  <2>11. Sound(b, d)'
    <3>1. Deciding(b, d)' /\ Towing(b, d)' /\ Banking(b, d)'
      BY <1>2, <1>5, <1>8 DEF Deciding, Towing, Banking
    <3>2. Arriving(b, d)'
      BY <2>1, <1>1, <1>2, <1>5, <1>8, <1>9 DEF Arriving, Is
    <3>3. Dropping(b, d)'
      BY <2>1, <1>1, <1>2, <1>5, <1>8, <1>10 DEF Dropping
    <3> QED  BY <3>1, <3>2, <3>3 DEF Sound
  <2> QED
    BY <2>3, <2>4, <2>5, <2>6, <2>7, <2>8, <2>9, <2>10, <2>11 DEF Fit, Neat, Filing
<1>13. r.pc # "write" /\ d.pc # "write"
  BY <1>1, <1>5, <1>8
<1> QED
  BY <1>4, <1>7, <1>9, <1>11, <1>12, <1>13, AddKeeps

LEMMA FileTowKeeps ==
  ASSUME IInv, NEW c \in Requests, FileTow(c)
  PROVE  IInv'
<1>1. PICK r \in RequestDoc, b \in Bookings :
        /\ r = req[c] /\ r.b = b /\ Shape(r) /\ r.pc = "file" /\ r.kind \in Kinds \ {"none"}
  BY Working DEF FileTow, At
<1>2. r.kind = "tow"
  BY <1>1 DEF Shape, Errand, Kinds, Delivering
<1>3. PICK n, doc : n = Next1 /\ doc = New("TOW", b)
  OBVIOUS
<1>4. /\ Added(b, n, doc)
      /\ doc.b = b /\ doc.kind = "TOW" /\ doc.live /\ doc.parent = 0
      /\ doc.deposit = "NONE" /\ doc.charge = "none"
  BY <1>1, <1>3, AddFacts DEF FileTow
<1>5. "link" \in Points
  BY DEF Points
<1>6. PICK d : d = [r EXCEPT !.pc = "link", !.t = n]
  OBVIOUS
<1>7. d \in RequestDoc
  BY <1>4, <1>5, <1>6 DEF RequestDoc, Added
<1>8. /\ d.pc = "link" /\ d.t = n /\ d.kind = r.kind /\ d.b = b /\ d.put = r.put
      /\ d.links = r.links /\ d.deposit = r.deposit
  BY <1>1, <1>6 DEF RequestDoc
<1>9. Works(c, b, r, d) /\ UNCHANGED <<slot, booking>>
  BY <1>1, <1>3, <1>6, <1>8 DEF FileTow, Works, Goto
<1>10. /\ Tows(b)' = Tows(b) \union {n} /\ LiveTows(b)' = LiveTows(b) \union {n}
       /\ WalkInsOf(b)' = WalkInsOf(b) /\ LiveWalkIns(b)' = LiveWalkIns(b)
  BY <1>4, AddSets
<1>11. Shape(d)'
  <2>1. Errand(d)'
    BY <1>1, <1>2, <1>8 DEF Shape, Errand, Delivering
  <2>2. d.links \subseteq DOMAIN tickets'
    BY <1>1, <1>4, <1>8 DEF Shape, Holds, Added
  <2> QED  BY <2>1, <2>2, <1>2, <1>8, <1>10 DEF Shape, Holds
<1>12. ASSUME Fit(b, r) PROVE Fit(b, d)'
  <2>1. Neat(b, r) /\ Towing(b, r)
    BY <1>1, <1>12 DEF Fit, Sound
  <2>2. Is(b, {"CONFIRMED"}) /\ WalkInsOf(b) = {} /\ LiveTows(b) = {}
    BY <2>1, <1>1, <1>2 DEF Towing
  <2>3. Begun(b)'
    BY <2>2, <1>9 DEF Begun, Is, Settled, Statuses
  <2>4. InTurn(b)' /\ OneTow(b)' /\ Parked(b)' /\ OneWork(b)'
    BY <2>2, <1>10 DEF InTurn, OneTow, Parked, OneWork, LiveWalkIns
  <2>5. Charged(b)' /\ WorkTicket(b)' /\ (Agree(b) => Agree(b)')
    BY <2>1, <1>4, <1>9, AddOld DEF Neat
  <2>6. ReceivedBy(b, d)' /\ LinkedBy(b, d)'
    BY <2>2, <1>8, <1>10 DEF ReceivedBy, LinkedBy
  <2>7. KeptBy(b, d)'
    BY <2>1, <2>5, <1>1 DEF Neat, KeptBy
  <2>8. Sound(b, d)'
    <3>1. Deciding(b, d)' /\ Arriving(b, d)' /\ Dropping(b, d)' /\ Banking(b, d)'
      BY <1>2, <1>8 DEF Deciding, Arriving, Dropping, Banking
    <3>2. Towing(b, d)'
      BY <2>1, <2>2, <1>2, <1>8, <1>9, <1>10 DEF Towing, Is
    <3> QED  BY <3>1, <3>2 DEF Sound
  <2> QED
    BY <2>3, <2>4, <2>5, <2>6, <2>7, <2>8 DEF Fit, Neat, Filing
<1>13. r.pc # "write" /\ d.pc # "write"
  BY <1>1, <1>8
<1> QED
  BY <1>4, <1>7, <1>9, <1>11, <1>12, <1>13, AddKeeps

LEMMA LinkTowKeeps ==
  ASSUME IInv, NEW c \in Requests, LinkTow(c)
  PROVE  IInv'
<1>1. PICK r \in RequestDoc, b \in Bookings :
        /\ r = req[c] /\ r.b = b /\ Shape(r) /\ r.pc = "link" /\ r.kind \in Kinds \ {"none"}
  BY Working DEF LinkTow, At
<1>2. r.kind = "tow" /\ r.t \in Tows(b)
  BY <1>1 DEF Shape, Errand, Holds, Kinds, Delivering
<1>3. r.t \in DOMAIN tickets /\ r.t \in Ids /\ r.links \subseteq DOMAIN tickets /\ DOMAIN tickets \subseteq Ids
  BY <1>1, <1>2, EitherKind DEF Tows, Shape, Holds
<1>4. PICK old \in BookingDoc : old = booking[b]
  BY DEF IInv, TypeOK
<1>5. PICK doc : doc = [old EXCEPT !.links = r.links \union {r.t}]
  OBVIOUS
<1>6. doc \in BookingDoc
  <2>1. r.links \union {r.t} \in SUBSET Ids
    BY <1>3
  <2> QED  BY <2>1, <1>5 DEF BookingDoc
<1>7. /\ doc.status = old.status /\ doc.ticket = old.ticket /\ doc.deposit = old.deposit
      /\ doc.links = r.links \union {r.t}
  BY <1>5 DEF BookingDoc
<1>8. PICK d \in RequestDoc : d = Idle /\ Shape(d) /\ d.b = None /\ d.pc = "idle"
  BY DoneShape
<1>9. d.b # b
  BY <1>8, BookingsAssumption
<1>10. Works(c, b, r, d) /\ Write(b, doc) /\ UNCHANGED <<slot, tickets>>
  BY <1>1, <1>4, <1>5, <1>8 DEF LinkTow, Works, Done, Goto
<1>11. booking'[b] = doc
  BY <1>10 DEF Write, IInv, TypeOK
<1>12. doc.links \subseteq DOMAIN tickets /\ (doc.ticket # 0 => Owns(b, doc.ticket))
  BY <1>3, <1>4, <1>7 DEF IInv, Good, Owned
<1>13. ASSUME Fit(b, r) PROVE Fit(b, d)'
  <2>1. Neat(b, r) /\ Towing(b, r)
    BY <1>1, <1>13 DEF Fit, Sound
  <2>2. Begun(b)'
    BY <2>1, <1>4, <1>7, <1>10, <1>11, SameSets DEF Neat, Filing, Begun
  <2>3. Filing(b)'
    BY <2>1, <2>2, <1>4, <1>7, <1>10, <1>11, SameFiling DEF Neat
  <2>4. ReceivedBy(b, d)'
    BY <2>1, <1>2, <1>10, SameSets DEF Towing, ReceivedBy
  <2>5. LinkedBy(b, d)'
    BY <2>1, <1>1, <1>7, <1>10, <1>11, SameSets DEF Towing, LinkedBy
  <2>6. Agree(b)'
    BY <2>1, <1>1, <1>4, <1>7, <1>10, <1>11 DEF Neat, KeptBy, Agree
  <2> QED  BY <2>3, <2>4, <2>5, <2>6, <1>9 DEF Fit, Neat, KeptBy
<1>14. Share(b, doc.status, d) <=> Share(b, booking[b].status, r)
  BY <1>1, <1>2, <1>4, <1>7, <1>9 DEF Share
<1> QED
  BY <1>4, <1>6, <1>7, <1>8, <1>10, <1>12, <1>13, <1>14, WriteKeeps

\* The tow that a delivery is about.
LEMMA ParentFacts ==
  ASSUME IInv, NEW c \in Requests, NEW b \in Bookings, NEW r \in RequestDoc,
         r = req[c], r.b = b, Shape(r), r.kind \in Kinds \ {"none"},
         r.pc \in {"resolve", "find", "adopt", "meet"}
  PROVE  r.kind = "deliver" /\ \E p \in Tows(b) : r.links = {p} /\ Parent(c) = p /\ p \in Ids
<1>1. r.kind = "deliver"
  BY DEF Shape, Errand, Kinds, Delivering
<1>2. PICK p \in Tows(b) : r.links = {p}
  BY <1>1 DEF Shape, Holds, Delivering
<1>3. Parent(c) = p
  BY <1>2 DEF Parent
<1>4. p \in Ids
  BY EitherKind DEF Tows
<1> QED  BY <1>1, <1>2, <1>3, <1>4

LEMMA ResolveKeeps ==
  ASSUME IInv, NEW c \in Requests, Resolve(c)
  PROVE  IInv'
<1>1. PICK r \in RequestDoc, b \in Bookings :
        /\ r = req[c] /\ r.b = b /\ Shape(r) /\ r.pc = "resolve" /\ r.kind \in Kinds \ {"none"}
  BY Working DEF Resolve, At
<1>2. r.kind = "deliver" /\ \E p \in Tows(b) : r.links = {p} /\ Parent(c) = p
  BY <1>1, ParentFacts
<1>3. PICK p \in Tows(b) : r.links = {p} /\ Parent(c) = p
  BY <1>2
<1>4. p \in DOMAIN tickets /\ tickets[p].b = b /\ tickets[p] \in TicketDoc
  BY EitherKind DEF Tows
<1>5. PICK doc : doc = [tickets[p] EXCEPT !.live = FALSE]
  OBVIOUS
<1>6. doc \in TicketDoc
  BY <1>4, <1>5 DEF TicketDoc
<1>7. /\ doc.b = b /\ doc.kind = tickets[p].kind /\ doc.live = FALSE
      /\ doc.parent = tickets[p].parent /\ doc.deposit = tickets[p].deposit
      /\ doc.charge = tickets[p].charge
  BY <1>4, <1>5 DEF TicketDoc
<1>8. "find" \in Points
  BY DEF Points
<1>9. PICK d \in RequestDoc :
        /\ d = [r EXCEPT !.pc = "find"]
        /\ d.pc = "find" /\ d.kind = r.kind /\ d.b = r.b /\ d.t = r.t /\ d.put = r.put
        /\ d.links = r.links
  BY <1>8, MovedTo
<1>10. Works(c, b, r, d) /\ UNCHANGED <<slot, booking>> /\ Stamp(p, doc)
  BY <1>1, <1>3, <1>5, <1>9 DEF Resolve, Works, Goto
<1>11. Stamped(b, p, doc)
  BY <1>4, <1>6, <1>7, <1>10, StampFacts
<1>12. Shape(d)
  BY <1>1, <1>2, <1>9 DEF Shape, Errand, Holds, Delivering
<1>13. ASSUME Fit(b, r) PROVE Fit(b, d)'
  <2>1. Neat(b, r) /\ Dropping(b, r)
    BY <1>1, <1>13 DEF Fit, Sound
  <2>2. WalkInsOf(b)' = WalkInsOf(b) /\ Tows(b)' = Tows(b)
    BY <1>11 DEF Stamped
  <2>3. \A u \in (WalkInsOf(b) \union Tows(b)) \ {p} : tickets'[u] = tickets[u]
    BY <1>11 DEF Stamped, WalkInsOf, Tows
  <2>4. p \notin WalkInsOf(b)
    BY DEF WalkInsOf, Tows
  <2>5. LiveTows(b)' = {}
    <3>1. LiveTows(b) \subseteq {p}
      BY <2>1, <1>1, <1>3 DEF Dropping
    <3> QED  BY <3>1, <2>2, <2>3, <1>7, <1>11 DEF LiveTows, Stamped
  <2>6. LiveWalkIns(b)' = LiveWalkIns(b)
    BY <2>2, <2>3, <2>4 DEF LiveWalkIns
  <2>7. Charged(b)'
    <3>1. \A u \in WalkInsOf(b) \union Tows(b) : tickets'[u].charge = tickets[u].charge
      BY <2>3, <1>7, <1>11 DEF Stamped
    <3> QED  BY <3>1, <2>1, <2>2, <1>10 DEF Neat, Filing, Charged
  <2>8. Filing(b)'
    BY <2>1, <2>2, <2>5, <2>6, <2>7, <1>10
    DEF Neat, Filing, Begun, InTurn, OneTow, Parked, OneWork, WorkTicket
  <2>9. ReceivedBy(b, d)' /\ LinkedBy(b, d)'
    BY <2>1, <2>2, <2>5, <1>1, <1>10 DEF Neat, ReceivedBy, LinkedBy, Is
  <2>10. KeptBy(b, d)'
    <3>1. Agree(b)
      BY <2>1, <1>1 DEF Neat, KeptBy
    <3>2. booking[b].ticket # 0 => booking[b].ticket \in WalkInsOf(b)
      BY <2>1 DEF Neat, Filing, WorkTicket
    <3> QED  BY <3>1, <3>2, <2>3, <2>4, <1>10 DEF KeptBy, Agree
  <2>11. \A w \in WalkInsOf(b)' : tickets'[w].parent = 0
    BY <2>1, <2>2, <2>3, <2>4, <1>1 DEF Dropping
  <2>12. Sound(b, d)'
    BY <2>5, <2>11, <1>2, <1>9 DEF Sound, Deciding, Arriving, Towing, Dropping, Banking
  <2> QED  BY <2>8, <2>9, <2>10, <2>12 DEF Fit, Neat
<1>14. r.pc # "write" /\ d.pc # "write"
  BY <1>1, <1>9
<1> QED
  BY <1>1, <1>4, <1>6, <1>7, <1>10, <1>12, <1>13, <1>14, StampKeeps

LEMMA FindKeeps ==
  ASSUME IInv, NEW c \in Requests, Find(c)
  PROVE  IInv'
<1>1. PICK r \in RequestDoc, b \in Bookings :
        /\ r = req[c] /\ r.b = b /\ Shape(r) /\ r.pc = "find" /\ r.kind \in Kinds \ {"none"}
  BY Working DEF Find, At
<1>2. r.kind = "deliver" /\ \E p \in Tows(b) : r.links = {p} /\ Parent(c) = p /\ p \in Ids
  BY <1>1, ParentFacts
<1>3. PICK p \in Tows(b) : r.links = {p} /\ Parent(c) = p /\ p \in Ids /\ p # 0
  BY <1>2 DEF Ids
<1>4. PICK linked : linked = {t \in WalkInsOf(b) : tickets[t].parent = p}
  OBVIOUS
<1>5. PICK free : free = {t \in WalkInsOf(b) : tickets[t].live /\ tickets[t].parent = 0 /\ t > p}
  OBVIOUS
<1>6. PICK found : found = IF linked # {} THEN linked ELSE free
  OBVIOUS
<1>7. UNCHANGED <<clock, slot, booking, tickets, sweep, rough, faults>>
  BY DEF Find
<1>8. \/ \E t \in found : Goto(c, [r EXCEPT !.pc = IF t \in linked THEN "meet" ELSE "adopt", !.t = t])
      \/ found = {} /\ Goto(c, [r EXCEPT !.pc = "open"])
  BY <1>1, <1>3, <1>4, <1>5, <1>6 DEF Find
<1>9. found \subseteq WalkInsOf(b)
  BY <1>4, <1>5, <1>6
<1>10. Fit(b, r) => linked = {}
  <2> SUFFICES ASSUME Fit(b, r), NEW t \in linked PROVE FALSE
    OBVIOUS
  <2>1. Dropping(b, r)
    BY <1>1 DEF Fit, Sound
  <2>2. tickets[t].parent = 0
    BY <2>1, <1>1, <1>4 DEF Dropping
  <2> QED  BY <2>2, <1>3, <1>4
<1>11. CASE \E t \in found : Goto(c, [r EXCEPT !.pc = IF t \in linked THEN "meet" ELSE "adopt", !.t = t])
  <2>1. PICK t \in found : Goto(c, [r EXCEPT !.pc = IF t \in linked THEN "meet" ELSE "adopt", !.t = t])
    BY <1>11
  <2>2. t \in Ids /\ t \in WalkInsOf(b)
    BY <1>9, EitherKind DEF WalkInsOf
  <2>3. PICK pc \in Points : pc = IF t \in linked THEN "meet" ELSE "adopt"
    BY DEF Points
  <2>4. PICK d : d = [r EXCEPT !.pc = pc, !.t = t]
    OBVIOUS
  <2>5. d \in RequestDoc
    BY <2>2, <2>4 DEF RequestDoc
  <2>6. /\ d.pc = pc /\ d.t = t /\ d.kind = r.kind /\ d.b = b /\ d.put = r.put
        /\ d.links = r.links
    BY <1>1, <2>4 DEF RequestDoc
  <2>7. Works(c, b, r, d)
    BY <1>1, <1>7, <2>1, <2>3, <2>4, <2>6 DEF Works, Goto
  <2>8. Shape(d)
    BY <1>1, <1>2, <2>2, <2>3, <2>6 DEF Shape, Errand, Holds, Delivering
  <2>9. ASSUME Fit(b, r) PROVE Fit(b, d)
    <3>1. Neat(b, d)
      BY <1>1, <2>9, LeavesNeat DEF Fit
    <3>2. Dropping(b, r)
      BY <1>1, <2>9 DEF Fit, Sound
    <3>3. Sound(b, d)
      BY <1>1, <1>2, <2>3, <2>6, <3>2 DEF Sound, Deciding, Arriving, Towing, Dropping, Banking
    <3> QED  BY <3>1, <3>3 DEF Fit
  <2> QED  BY <1>1, <1>7, <2>3, <2>5, <2>6, <2>7, <2>8, <2>9, MuteKeeps
<1>12. CASE found = {} /\ Goto(c, [r EXCEPT !.pc = "open"])
  <2>1. "open" \in Points
    BY DEF Points
  <2>2. PICK d \in RequestDoc :
          /\ d = [r EXCEPT !.pc = "open"]
          /\ d.pc = "open" /\ d.kind = r.kind /\ d.b = r.b /\ d.put = r.put
          /\ d.links = r.links
    BY <2>1, MovedTo
  <2>3. Works(c, b, r, d)
    BY <1>1, <1>7, <1>12, <2>2 DEF Works, Goto
  <2>4. Shape(d)
    BY <1>1, <1>2, <2>2 DEF Shape, Errand, Holds, Delivering
  <2>5. ASSUME Fit(b, r) PROVE Fit(b, d)
    <3>1. Neat(b, d) /\ Filing(b)
      BY <1>1, <2>5, LeavesNeat DEF Fit, Neat
    <3>2. Dropping(b, r)
      BY <1>1, <2>5 DEF Fit, Sound
    <3>3. LiveWalkIns(b) = {}
      <4> SUFFICES ASSUME NEW w \in LiveWalkIns(b) PROVE FALSE
        OBVIOUS
      <4>1. w \in WalkInsOf(b) /\ tickets[w].live
        BY DEF LiveWalkIns
      <4>2. tickets[w].parent = 0
        BY <3>2, <4>1, <1>1 DEF Dropping
      <4>3. w > p
        BY <3>1, <4>1 DEF Filing, InTurn
      <4>4. w \in free
        BY <4>1, <4>2, <4>3, <1>5
      <4>5. linked = {}
        BY <2>5, <1>10
      <4> QED  BY <4>4, <4>5, <1>6, <1>12
    <3>4. Sound(b, d)
      BY <1>1, <1>2, <2>2, <3>2, <3>3 DEF Sound, Deciding, Arriving, Towing, Dropping, Banking
    <3> QED  BY <3>1, <3>4 DEF Fit
  <2> QED  BY <1>1, <1>7, <2>2, <2>3, <2>4, <2>5, MuteKeeps
<1> QED  BY <1>8, <1>11, <1>12

LEMMA AdoptKeeps ==
  ASSUME IInv, NEW c \in Requests, Adopt(c)
  PROVE  IInv'
<1>1. PICK r \in RequestDoc, b \in Bookings :
        /\ r = req[c] /\ r.b = b /\ Shape(r) /\ r.pc = "adopt" /\ r.kind \in Kinds \ {"none"}
  BY Working DEF Adopt, At
<1>2. r.kind = "deliver" /\ \E p \in Tows(b) : r.links = {p} /\ Parent(c) = p /\ p \in Ids
  BY <1>1, ParentFacts
<1>3. PICK p \in Tows(b) : r.links = {p} /\ Parent(c) = p /\ p \in Ids
  BY <1>2
<1>4. PICK t \in DOMAIN tickets : t = r.t /\ t \in WalkInsOf(b)
  BY <1>1 DEF Shape, Holds, WalkInsOf
<1>5. tickets[t].b = b /\ tickets[t] \in TicketDoc
  BY <1>4, EitherKind DEF WalkInsOf
<1>6. PICK doc : doc = [tickets[t] EXCEPT !.parent = p]
  OBVIOUS
<1>7. doc \in TicketDoc
  BY <1>3, <1>5, <1>6 DEF TicketDoc
<1>8. /\ doc.b = b /\ doc.kind = tickets[t].kind /\ doc.live = tickets[t].live
      /\ doc.parent = p /\ doc.deposit = tickets[t].deposit
      /\ doc.charge = tickets[t].charge
  BY <1>5, <1>6 DEF TicketDoc
<1>9. "meet" \in Points
  BY DEF Points
<1>10. PICK d \in RequestDoc :
         /\ d = [r EXCEPT !.pc = "meet"]
         /\ d.pc = "meet" /\ d.kind = r.kind /\ d.b = r.b /\ d.t = r.t /\ d.put = r.put
         /\ d.links = r.links
  BY <1>9, MovedTo
<1>11. Works(c, b, r, d) /\ UNCHANGED <<slot, booking>> /\ Stamp(t, doc)
  BY <1>1, <1>3, <1>4, <1>6, <1>10 DEF Adopt, Works, Goto
<1>12. Stamped(b, t, doc)
  BY <1>5, <1>7, <1>8, <1>11, StampFacts
<1>13. Shape(d)
  BY <1>1, <1>2, <1>10 DEF Shape, Errand, Holds, Delivering
<1>14. ASSUME Fit(b, r) PROVE Fit(b, d)'
  <2>1. Neat(b, r) /\ Dropping(b, r)
    BY <1>1, <1>14 DEF Fit, Sound
  <2>2. WalkInsOf(b)' = WalkInsOf(b) /\ Tows(b)' = Tows(b)
    BY <1>12 DEF Stamped
  <2>3. \A u \in WalkInsOf(b) \union Tows(b) :
          /\ tickets'[u].live = tickets[u].live /\ tickets'[u].charge = tickets[u].charge
          /\ tickets'[u].deposit = tickets[u].deposit
    <3>1. ASSUME NEW u \in WalkInsOf(b) \union Tows(b)
          PROVE  /\ tickets'[u].live = tickets[u].live /\ tickets'[u].charge = tickets[u].charge
                 /\ tickets'[u].deposit = tickets[u].deposit
      BY <1>8, <1>12 DEF Stamped, WalkInsOf, Tows
    <3> QED  BY <3>1
  <2>4. LiveTows(b)' = LiveTows(b) /\ LiveWalkIns(b)' = LiveWalkIns(b)
    BY <2>2, <2>3 DEF LiveTows, LiveWalkIns
  <2>5. LiveTows(b) = {}
    BY <2>1, <1>1, <1>2 DEF Dropping
  <2>6. Filing(b)'
    BY <2>1, <2>2, <2>3, <2>4, <2>5, <1>11
    DEF Neat, Filing, Begun, InTurn, OneTow, Parked, OneWork, WorkTicket, Charged
  <2>7. ReceivedBy(b, d)' /\ LinkedBy(b, d)'
    BY <2>4, <2>5, <1>1, <1>10 DEF ReceivedBy, LinkedBy
  <2>8. KeptBy(b, d)'
    <3>1. Agree(b)
      BY <2>1, <1>1 DEF Neat, KeptBy
    <3>2. booking[b].ticket # 0 => booking[b].ticket \in WalkInsOf(b)
      BY <2>1 DEF Neat, Filing, WorkTicket
    <3> QED  BY <3>1, <3>2, <2>3, <1>11 DEF KeptBy, Agree
  <2>9. Sound(b, d)'
    BY <2>4, <2>5, <1>2, <1>10 DEF Sound, Deciding, Arriving, Towing, Dropping, Banking
  <2> QED  BY <2>6, <2>7, <2>8, <2>9 DEF Fit, Neat
<1>15. r.pc # "write" /\ d.pc # "write"
  BY <1>1, <1>10
<1> QED
  BY <1>5, <1>7, <1>8, <1>11, <1>13, <1>14, <1>15, StampKeeps

LEMMA MeetKeeps ==
  ASSUME IInv, NEW c \in Requests, Meet(c)
  PROVE  IInv'
<1>1. PICK r \in RequestDoc, b \in Bookings :
        /\ r = req[c] /\ r.b = b /\ Shape(r) /\ r.pc = "meet" /\ r.kind \in Kinds \ {"none"}
  BY Working DEF Meet, At
<1>2. r.kind = "deliver" /\ \E p \in Tows(b) : r.links = {p} /\ Parent(c) = p /\ p \in Ids
  BY <1>1, ParentFacts
<1>3. PICK p \in Tows(b) : r.links = {p} /\ Parent(c) = p /\ p \in Ids
  BY <1>2
<1>4. r.t \in WalkInsOf(b) /\ r.t \in DOMAIN tickets /\ r.t \in Ids /\ p \in DOMAIN tickets
  BY <1>1, EitherKind DEF Shape, Holds, WalkInsOf, Tows
<1>5. PICK old \in BookingDoc : old = booking[b]
  BY DEF IInv, TypeOK
<1>6. old.links \subseteq DOMAIN tickets /\ old.links \in SUBSET Ids /\ old.deposit \in DepositStatuses
  BY <1>5 DEF IInv, TypeOK, BookingDoc
<1>7. PICK put : put = IF Is(b, {"REQUESTED", "CONFIRMED"}) THEN "ARRIVED" ELSE "NONE"
  OBVIOUS
<1>8. PICK first \in BOOLEAN : first = (old.ticket = 0)
  OBVIOUS
<1>9. PICK links : links = old.links \union {p, r.t}
  OBVIOUS
<1>10. /\ put \in Statuses \union DepositStatuses /\ put \in {"ARRIVED", "NONE"}
       /\ links \in SUBSET Ids /\ "join" \in Points
  BY <1>3, <1>4, <1>6, <1>7, <1>9 DEF Statuses, DepositStatuses, Points
<1>11. PICK d : d = [r EXCEPT !.pc = "join", !.put = put, !.first = first, !.links = links,
                              !.deposit = old.deposit]
  OBVIOUS
<1>12. d \in RequestDoc
  BY <1>6, <1>10, <1>11 DEF RequestDoc
<1>13. /\ d.pc = "join" /\ d.put = put /\ d.first = first /\ d.links = links
       /\ d.deposit = old.deposit /\ d.kind = r.kind /\ d.b = b /\ d.t = r.t
  BY <1>1, <1>11 DEF RequestDoc
<1>14. Works(c, b, r, d) /\ UNCHANGED <<slot, booking, tickets>>
  BY <1>1, <1>3, <1>5, <1>7, <1>8, <1>9, <1>11, <1>13 DEF Meet, Works, Goto
<1>15. Shape(d)
  <2>1. links \subseteq DOMAIN tickets
    BY <1>4, <1>6, <1>9
  <2> QED  BY <2>1, <1>1, <1>2, <1>4, <1>10, <1>13 DEF Shape, Errand, Holds, Delivering
<1>16. ASSUME Fit(b, r) PROVE Fit(b, d)
  <2>1. Neat(b, r) /\ Dropping(b, r)
    BY <1>1, <1>16 DEF Fit, Sound
  <2>2. Neat(b, d)
    BY <2>1, <1>1, <1>13 DEF Neat, ReceivedBy, LinkedBy, KeptBy
  <2>3. (d.put = "ARRIVED") = Is(b, {"CONFIRMED"})
    <3>1. booking[b].status # "REQUESTED"
      BY <2>1 DEF Neat, Filing, Begun, Settled
    <3> QED  BY <3>1, <1>7, <1>13 DEF Is
  <2>4. booking[b].links \subseteq d.links /\ d.first = (booking[b].ticket = 0)
        /\ d.deposit = booking[b].deposit
    BY <1>5, <1>8, <1>9, <1>13
  <2>5. Dropping(b, d)
    BY <2>1, <2>3, <2>4, <1>1, <1>2, <1>13 DEF Dropping
  <2>6. Deciding(b, d) /\ Arriving(b, d) /\ Towing(b, d) /\ Banking(b, d)
    BY <1>2, <1>13 DEF Deciding, Arriving, Towing, Banking
  <2> QED  BY <2>2, <2>5, <2>6 DEF Fit, Sound
<1> QED  BY <1>1, <1>12, <1>13, <1>14, <1>15, <1>16, MuteKeeps

LEMMA JoinKeeps ==
  ASSUME IInv, NEW c \in Requests, Join(c)
  PROVE  IInv'
<1>1. PICK r \in RequestDoc, b \in Bookings :
        /\ r = req[c] /\ r.b = b /\ Shape(r) /\ r.pc = "join" /\ r.kind \in Kinds \ {"none"}
  BY Working DEF Join, At
<1>2. r.kind = "deliver" /\ r.t \in WalkInsOf(b) /\ r.put \in {"ARRIVED", "NONE"}
  BY <1>1 DEF Shape, Errand, Holds, Kinds, Delivering
<1>3. r.t \in DOMAIN tickets /\ Owns(b, r.t) /\ r.t \in Ids /\ r.t # 0
      /\ r.links \subseteq DOMAIN tickets /\ r.links \in SUBSET Ids
  BY <1>1, <1>2, EitherKind DEF WalkInsOf, Owns, Shape, Holds
<1>4. PICK old \in BookingDoc : old = booking[b]
  BY DEF IInv, TypeOK
<1>5. PICK status : status = IF r.put = "NONE" THEN old.status ELSE r.put
  OBVIOUS
<1>6. PICK ticket : ticket = IF r.first THEN r.t ELSE old.ticket
  OBVIOUS
<1>7. PICK doc : doc = [old EXCEPT !.status = status, !.came = TRUE, !.ticket = ticket, !.links = r.links]
  OBVIOUS
<1>8. doc \in BookingDoc
  <2>1. status \in Statuses \union {"NONE"} /\ ticket \in Ids \union {0}
    BY <1>2, <1>3, <1>5, <1>6 DEF BookingDoc, Statuses
  <2> QED  BY <2>1, <1>3, <1>7 DEF BookingDoc
<1>9. doc.status = status /\ doc.ticket = ticket /\ doc.links = r.links /\ doc.deposit = old.deposit
  BY <1>7 DEF BookingDoc
<1>10. PICK d \in RequestDoc :
         /\ d = ThenCopy(c) /\ d.b \in {b, None} /\ Shape(d) /\ d.pc \in {"idle", "copy"}
         /\ d.b = b <=> b \in Deposits
         /\ d.b = b => /\ d.pc = "copy" /\ d.kind = r.kind /\ d.t = r.t
                       /\ d.deposit = r.deposit /\ d.links = r.links
  BY <1>1, ThenCopyFacts
<1>11. Works(c, b, r, d) /\ Write(b, doc) /\ UNCHANGED <<slot, tickets>>
  BY <1>1, <1>4, <1>5, <1>6, <1>7, <1>10 DEF Join, Works, Goto
<1>12. booking'[b] = doc
  BY <1>11 DEF Write, IInv, TypeOK
<1>13. doc.links \subseteq DOMAIN tickets /\ (doc.ticket # 0 => Owns(b, doc.ticket))
  BY <1>3, <1>4, <1>6, <1>9 DEF IInv, Good, Owned
<1>14. ASSUME Fit(b, r)
       PROVE  /\ Neat(b, r) /\ LiveTows(b) = {} /\ booking[b].links \subseteq r.links
              /\ r.first = (old.ticket = 0) /\ (r.put = "ARRIVED") = (old.status = "CONFIRMED")
              /\ r.deposit = old.deposit
  BY <1>1, <1>2, <1>4, <1>14 DEF Fit, Sound, Dropping, Is
<1>15. ASSUME Fit(b, r) PROVE Fit(b, d)'
  <2>1. Begun(b)'
    <3>1. booking[b].status \in Settled
      BY <1>14, <1>15, <1>2 DEF Neat, Filing, Begun
    <3>2. doc.status \in Settled
      BY <3>1, <1>2, <1>4, <1>5, <1>9 DEF Settled, Statuses
    <3> QED  BY <3>2, <1>12 DEF Begun
  <2>2. Filing(b)'
    <3>1. CASE r.first
      <4>1. old.ticket = 0 /\ booking'[b].ticket = r.t
        BY <3>1, <1>6, <1>9, <1>12, <1>14, <1>15
      <4> QED  BY <4>1, <2>1, <1>2, <1>4, <1>11, <1>14, <1>15, FirstFiling DEF Neat
    <3>2. CASE ~r.first
      BY <3>2, <2>1, <1>4, <1>6, <1>9, <1>11, <1>12, <1>14, <1>15, SameFiling DEF Neat
    <3> QED  BY <3>1, <3>2
  <2>3. doc.status # "CONFIRMED"
    BY <1>2, <1>5, <1>9, <1>14, <1>15
  <2>4. ReceivedBy(b, d)'
    BY <2>3, <1>12 DEF ReceivedBy, Is
  <2>5. LiveTows(b)' = {}
    BY <1>11, <1>14, <1>15, SameSets
  <2>6. LinkedBy(b, d)'
    BY <2>5 DEF LinkedBy
  <2>7. Agree(b)
    BY <1>1, <1>14, <1>15 DEF Neat, KeptBy
  <2>8. KeptBy(b, d)'
    <3>1. CASE b \in Deposits
      BY <3>1, <1>10 DEF KeptBy
    <3>2. CASE b \notin Deposits
      <4>1. booking[b].deposit = "NONE"
            /\ \A t \in DOMAIN tickets : tickets[t].b = b => tickets[t].deposit = "NONE"
        BY <3>2 DEF IInv, Good, NoDeposit
      <4> QED  BY <4>1, <1>4, <1>9, <1>11, <1>12, <1>13 DEF KeptBy, Agree, Owns
    <3> QED  BY <3>1, <3>2
  <2>9. ASSUME d.b = b PROVE Sound(b, d)'
    <3>1. d.kind = "deliver" /\ d.pc = "copy" /\ d.t = r.t /\ d.deposit = booking'[b].deposit
      BY <2>9, <1>2, <1>9, <1>10, <1>12, <1>14, <1>15
    <3>2. Agree(b)' \/ d.t = booking'[b].ticket
      <4>1. CASE r.first
        BY <4>1, <3>1, <1>6, <1>9, <1>12
      <4>2. CASE ~r.first
        BY <4>2, <2>7, <1>4, <1>6, <1>9, <1>11, <1>12 DEF Agree
      <4> QED  BY <4>1, <4>2
    <3>3. Banking(b, d)'
      BY <3>1, <3>2, <2>3, <1>12 DEF Banking, Is
    <3>4. Dropping(b, d)'
      BY <3>1, <2>5 DEF Dropping
    <3>5. Deciding(b, d)' /\ Arriving(b, d)' /\ Towing(b, d)'
      BY <3>1 DEF Deciding, Arriving, Towing
    <3> QED  BY <3>3, <3>4, <3>5 DEF Sound
  <2> QED  BY <2>2, <2>4, <2>6, <2>8, <2>9 DEF Fit, Neat
<1>16. ASSUME Fit(b, r) PROVE Share(b, doc.status, d) <=> Share(b, booking[b].status, r)
  <2>1. doc.status = IF old.status = "CONFIRMED" THEN "ARRIVED" ELSE old.status
    BY <1>2, <1>5, <1>9, <1>14, <1>16
  <2> QED  BY <2>1, <1>1, <1>2, <1>4, <1>10 DEF Share
<1> QED
  BY <1>4, <1>8, <1>9, <1>10, <1>11, <1>13, <1>15, <1>16, WriteKeeps

LEMMA ChargeKeeps ==
  ASSUME IInv, NEW c \in Requests, Charge(c)
  PROVE  IInv'
<1>1. PICK r \in RequestDoc, b \in Bookings :
        /\ r = req[c] /\ r.b = b /\ Shape(r) /\ r.pc = "charge" /\ r.kind \in Kinds \ {"none"}
  BY Working DEF Charge, At
<1>2. r.kind = "request" /\ r.put = "REQUESTED" /\ b \in Deposits /\ Owns(b, r.t)
  BY <1>1 DEF Shape, Errand, Holds, Kinds, Delivering
<1>3. PICK t \in DOMAIN tickets : t = r.t
  BY <1>2 DEF Owns
<1>4. tickets[t].b = b /\ tickets[t] \in TicketDoc
  BY <1>2, <1>3, EitherKind DEF Owns
<1>5. CASE tickets[t].deposit = "NONE"
  <2>1. PICK d \in RequestDoc : d = Idle /\ Shape(d) /\ d.b = None /\ d.pc = "idle"
    BY DoneShape
  <2>2. Works(c, b, r, d) /\ UNCHANGED <<slot, booking, tickets>>
    BY <1>1, <1>3, <1>5, <2>1 DEF Charge, Works, Done, Goto
  <2>3. Fit(b, r) => Fit(b, d)
    BY <1>1, <2>1, DoneFits
  <2> QED  BY <1>1, <2>1, <2>2, <2>3, MuteKeeps
<1>6. CASE tickets[t].deposit # "NONE" /\ tickets[t].charge # "none"
  <2>1. "keep" \in Points
    BY DEF Points
  <2>2. PICK d \in RequestDoc :
          /\ d = [r EXCEPT !.pc = "keep"]
          /\ d.pc = "keep" /\ d.kind = r.kind /\ d.b = r.b /\ d.t = r.t /\ d.put = r.put
          /\ d.links = r.links
    BY <2>1, MovedTo
  <2>3. Works(c, b, r, d) /\ UNCHANGED <<slot, booking, tickets>>
    BY <1>1, <1>3, <1>6, <2>2 DEF Charge, Works, Goto
  <2>4. Shape(d)
    BY <1>1, <1>2, <2>2 DEF Shape, Errand, Holds, Delivering
  <2>5. ASSUME Fit(b, r) PROVE Fit(b, d)
    <3>1. Neat(b, d)
      BY <1>1, <2>5, LeavesNeat DEF Fit
    <3>2. Sound(b, d)
      BY <1>2, <2>2 DEF Sound, Deciding, Arriving, Towing, Dropping, Banking
    <3> QED  BY <3>1, <3>2 DEF Fit
  <2> QED  BY <1>1, <2>2, <2>3, <2>4, <2>5, MuteKeeps
<1>7. CASE tickets[t].deposit # "NONE" /\ tickets[t].charge = "none"
  <2>1. PICK doc : doc = [tickets[t] EXCEPT !.charge = "open"]
    OBVIOUS
  <2>2. doc \in TicketDoc
    BY <1>4, <2>1 DEF TicketDoc
  <2>3. /\ doc.b = b /\ doc.kind = tickets[t].kind /\ doc.live = tickets[t].live
        /\ doc.parent = tickets[t].parent /\ doc.deposit = tickets[t].deposit
    BY <1>4, <2>1 DEF TicketDoc
  <2>4. "stamp" \in Points
    BY DEF Points
  <2>5. PICK d \in RequestDoc :
          /\ d = [r EXCEPT !.pc = "stamp"]
          /\ d.pc = "stamp" /\ d.kind = r.kind /\ d.b = r.b /\ d.t = r.t /\ d.put = r.put
          /\ d.links = r.links
    BY <2>4, MovedTo
  <2>6. Works(c, b, r, d) /\ UNCHANGED <<slot, booking>> /\ Stamp(t, doc)
    BY <1>1, <1>3, <1>7, <2>1, <2>5 DEF Charge, Works, Goto
  <2>7. Stamped(b, t, doc)
    BY <1>4, <2>2, <2>3, <2>6, StampFacts
  <2>8. Shape(d)
    BY <1>1, <1>2, <2>5 DEF Shape, Errand, Holds, Delivering
  <2>9. ASSUME Fit(b, r) PROVE Fit(b, d)'
    <3>1. Neat(b, r) /\ t = booking[b].ticket
      BY <1>1, <1>3, <2>9 DEF Fit, Sound, Banking
    <3>2. Filing(b)' /\ ReceivedBy(b, r)' /\ LinkedBy(b, r)'
      BY <3>1, <2>3, <2>6, <2>7, StampNeat
    <3>3. ReceivedBy(b, d)' /\ LinkedBy(b, d)'
      BY <3>2, <1>1 DEF ReceivedBy, LinkedBy
    <3>4. KeptBy(b, d)'
      BY <3>1, <1>1, <2>3, <2>6, <2>7 DEF Neat, KeptBy, Agree, Stamped
    <3>5. Sound(b, d)'
      BY <3>1, <1>2, <1>3, <2>5, <2>6 DEF Sound, Deciding, Arriving, Towing, Dropping, Banking
    <3> QED  BY <3>2, <3>3, <3>4, <3>5 DEF Fit, Neat
  <2>10. r.pc # "write" /\ d.pc # "write"
    BY <1>1, <2>5
  <2> QED
    BY <1>1, <1>2, <1>4, <2>2, <2>3, <2>5, <2>6, <2>8, <2>9, <2>10, StampKeeps
<1> QED  BY <1>5, <1>6, <1>7

LEMMA StampDepositKeeps ==
  ASSUME IInv, NEW c \in Requests, StampDeposit(c)
  PROVE  IInv'
<1>1. PICK r \in RequestDoc, b \in Bookings :
        /\ r = req[c] /\ r.b = b /\ Shape(r) /\ r.pc = "stamp" /\ r.kind \in Kinds \ {"none"}
  BY Working DEF StampDeposit, At
<1>2. /\ r.kind \in {"collect", "request", "paid"} /\ b \in Deposits /\ Owns(b, r.t)
      /\ r.put \in {"COLLECTED", "WAIVED", "REQUESTED", "CONFIRMED"}
  BY <1>1 DEF Shape, Errand, Holds, Kinds, Delivering
<1>3. PICK t \in DOMAIN tickets : t = r.t
  BY <1>2 DEF Owns
<1>4. tickets[t].b = b /\ tickets[t] \in TicketDoc
  BY <1>2, <1>3, EitherKind DEF Owns
<1>5. PICK doc : doc = [tickets[t] EXCEPT !.deposit = r.put]
  OBVIOUS
<1>6. doc \in TicketDoc
  BY <1>2, <1>4, <1>5 DEF TicketDoc, DepositStatuses
<1>7. /\ doc.b = b /\ doc.kind = tickets[t].kind /\ doc.live = tickets[t].live
      /\ doc.parent = tickets[t].parent /\ doc.charge = tickets[t].charge
      /\ doc.deposit = r.put
  BY <1>4, <1>5 DEF TicketDoc
<1>8. "keep" \in Points
  BY DEF Points
<1>9. PICK d \in RequestDoc :
        /\ d = [r EXCEPT !.pc = "keep"]
        /\ d.pc = "keep" /\ d.kind = r.kind /\ d.b = r.b /\ d.t = r.t /\ d.put = r.put
        /\ d.links = r.links
  BY <1>8, MovedTo
<1>10. Works(c, b, r, d) /\ UNCHANGED <<slot, booking>> /\ Stamp(t, doc)
  BY <1>1, <1>3, <1>5, <1>9 DEF StampDeposit, Works, Goto
<1>11. Stamped(b, t, doc)
  BY <1>4, <1>6, <1>7, <1>10, StampFacts
<1>12. Shape(d)
  BY <1>1, <1>2, <1>9 DEF Shape, Errand, Holds, Delivering
<1>13. ASSUME Fit(b, r) PROVE Fit(b, d)'
  <2>1. Neat(b, r) /\ t = booking[b].ticket
    BY <1>1, <1>3, <1>13 DEF Fit, Sound, Banking
  <2>2. Filing(b)' /\ ReceivedBy(b, r)' /\ LinkedBy(b, r)'
    BY <2>1, <1>7, <1>10, <1>11, StampNeat
  <2>3. ReceivedBy(b, d)' /\ LinkedBy(b, d)'
    BY <2>2, <1>1 DEF ReceivedBy, LinkedBy
  <2>4. KeptBy(b, d)'
    BY <1>1, <1>9 DEF KeptBy
  <2>5. tickets'[booking'[b].ticket].deposit = d.put
    BY <2>1, <1>7, <1>9, <1>10, <1>11 DEF Stamped
  <2>6. Sound(b, d)'
    BY <2>5, <1>2, <1>9 DEF Sound, Deciding, Arriving, Towing, Dropping, Banking
  <2> QED  BY <2>2, <2>3, <2>4, <2>6 DEF Fit, Neat
<1>14. r.pc # "write" /\ d.pc # "write"
  BY <1>1, <1>9
<1> QED
  BY <1>1, <1>2, <1>4, <1>6, <1>7, <1>9, <1>10, <1>12, <1>13, <1>14, StampKeeps

LEMMA KeepDepositKeeps ==
  ASSUME IInv, NEW c \in Requests, KeepDeposit(c)
  PROVE  IInv'
<1>1. PICK r \in RequestDoc, b \in Bookings :
        /\ r = req[c] /\ r.b = b /\ Shape(r) /\ r.pc = "keep" /\ r.kind \in Kinds \ {"none"}
  BY Working DEF KeepDeposit, At
<1>2. /\ r.kind \in {"collect", "request", "paid"} /\ b \in Deposits
      /\ r.put \in {"COLLECTED", "WAIVED", "REQUESTED", "CONFIRMED"}
  BY <1>1 DEF Shape, Errand, Kinds, Delivering
<1>3. PICK old \in BookingDoc : old = booking[b]
  BY DEF IInv, TypeOK
<1>4. PICK doc : doc = [old EXCEPT !.deposit = r.put]
  OBVIOUS
<1>5. doc \in BookingDoc
  BY <1>2, <1>4 DEF BookingDoc, DepositStatuses
<1>6. /\ doc.status = old.status /\ doc.ticket = old.ticket /\ doc.links = old.links
      /\ doc.deposit = r.put
  BY <1>4 DEF BookingDoc
<1>7. PICK d \in RequestDoc : d = Idle /\ Shape(d) /\ d.b = None /\ d.pc = "idle"
  BY DoneShape
<1>8. d.b # b
  BY <1>7, BookingsAssumption
<1>9. Works(c, b, r, d) /\ Write(b, doc) /\ UNCHANGED <<slot, tickets>>
  BY <1>1, <1>3, <1>4, <1>7 DEF KeepDeposit, Works, Done, Goto
<1>10. booking'[b] = doc
  BY <1>9 DEF Write, IInv, TypeOK
<1>11. doc.links \subseteq DOMAIN tickets /\ (doc.ticket # 0 => Owns(b, doc.ticket))
  BY <1>3, <1>6 DEF IInv, TypeOK, Good, Owned
<1>12. ASSUME Fit(b, r) PROVE Fit(b, d)'
  <2>1. Neat(b, r) /\ Banking(b, r)
    BY <1>1, <1>12 DEF Fit, Sound
  <2>2. Begun(b)'
    BY <2>1, <1>3, <1>6, <1>9, <1>10, SameSets DEF Neat, Filing, Begun
  <2>3. Filing(b)'
    BY <2>1, <2>2, <1>3, <1>6, <1>9, <1>10, SameFiling DEF Neat
  <2>4. ReceivedBy(b, d)' /\ LinkedBy(b, d)'
    BY <2>1, <1>1, <1>3, <1>6, <1>9, <1>10, SameSets DEF Neat, ReceivedBy, LinkedBy, Is
  <2>5. Agree(b)'
    BY <2>1, <1>1, <1>3, <1>6, <1>9, <1>10 DEF Banking, Agree
  <2> QED  BY <2>3, <2>4, <2>5, <1>8 DEF Fit, Neat, KeptBy
<1>13. Share(b, doc.status, d) <=> Share(b, booking[b].status, r)
  BY <1>1, <1>3, <1>6, <1>8 DEF Share
<1> QED
  BY <1>2, <1>3, <1>5, <1>6, <1>7, <1>9, <1>11, <1>12, <1>13, WriteKeeps

\* A request dies: its booking is rough from then on.
LEMMA AbortKeeps ==
  ASSUME IInv, NEW c \in Requests, Abort(c)
  PROVE  IInv'
<1>1. PICK r \in RequestDoc, b \in Bookings :
        /\ r = req[c] /\ r.b = b /\ Shape(r) /\ r.kind \in Kinds \ {"none"}
  BY Working DEF Abort
<1>2. PICK d \in RequestDoc : d = Idle /\ Shape(d) /\ d.b = None /\ d.pc = "idle"
  BY DoneShape
<1>3. b \in rough' /\ UNCHANGED <<slot, booking, tickets>>
  BY <1>1 DEF Abort
<1>4. Turn(c, b, d)
  <2>1. faults' \in 0..MaxFaults
    BY BookingsAssumption DEF Abort, IInv, TypeOK
  <2>2. rough' = rough \union {b} /\ req' = [req EXCEPT ![c] = d] /\ UNCHANGED <<clock, sweep>>
    BY <1>1, <1>2 DEF Abort, Done, Goto
  <2> QED  BY <2>1, <2>2, <1>1, <1>2, <1>3 DEF Turn
<1>5. Files(b) /\ Books(b, booking[b]) /\ NoDeposit(b)' /\ Shape(d)'
  BY <1>2, <1>3, SameBook
<1>6. slot' \in 0..Capacity
  BY <1>3 DEF IInv, TypeOK
<1> QED  BY <1>1, <1>3, <1>4, <1>5, <1>6, StepFits

------------------------------------------------------------------------------
(* Steps that are no request's: a ticket ends, a booking is made *)

LEMMA SameCount ==
  ASSUME IInv, slot' = slot, rough \subseteq rough',
         \A x \in Bookings : Holding(x)' <=> Holding(x)
  PROVE  SlotIsExact'
<1> SUFFICES ASSUME rough' = {} PROVE slot' = Cardinality(Holders')
  BY DEF SlotIsExact, Holders
<1>1. Holders' = Holders
  BY DEF Holders
<1>2. slot = Cardinality(Holders)
  BY DEF IInv, SlotIsExact, Holders
<1> QED  BY <1>1, <1>2

LEMMA CloseTicketKeeps ==
  ASSUME IInv, NEW t \in DOMAIN tickets, CloseTicket(t)
  PROVE  IInv'
<1>1. PICK b \in Bookings : b = tickets[t].b
  BY EitherKind
<1>2. tickets[t] \in TicketDoc
  BY EitherKind
<1>3. PICK doc : doc = [tickets[t] EXCEPT !.live = FALSE]
  OBVIOUS
<1>4. doc \in TicketDoc
  BY <1>2, <1>3 DEF TicketDoc
<1>5. /\ doc.b = b /\ doc.kind = tickets[t].kind /\ doc.live = FALSE
      /\ doc.parent = tickets[t].parent /\ doc.deposit = tickets[t].deposit
      /\ doc.charge = tickets[t].charge
  BY <1>1, <1>2, <1>3 DEF TicketDoc
<1>6. Stamp(t, doc) /\ UNCHANGED <<clock, slot, booking, req, sweep, rough, faults>>
  BY <1>3 DEF CloseTicket
<1>7. Stamped(b, t, doc)
  BY <1>1, <1>4, <1>5, <1>6, StampFacts
<1>8. Files(b)
  BY <1>7 DEF Stamped
<1>9. TypeOK' /\ SweepShape'
  <2>1. DOMAIN tickets' = DOMAIN tickets
    BY <1>7 DEF Stamped
  <2> QED  BY <2>1, <1>6, <1>8 DEF IInv, TypeOK, SweepShape, Files
<1>10. ASSUME NEW u \in Requests PROVE Shape(req[u])'
  <2>1. PICK e : e = req[u]
    OBVIOUS
  <2>2. Shape(e)'
    BY <2>1, <1>8, StillShape DEF IInv
  <2> QED  BY <2>1, <2>2, <1>6
<1>11. ASSUME NEW x \in Bookings \ {b} PROVE Good(x)'
  <2>1. Filed(x) /\ booking'[x] = booking[x] /\ Asked(x)
    BY <1>6, <1>8, FiledElsewhere DEF Asked, Of
  <2>2. x \notin rough' => x \notin rough /\ Alone(x)' /\ Swept(x)'
    BY <1>6 DEF IInv, Good, Alone, Swept, Of, Listed, Is
  <2> QED  BY <2>1, <2>2, StillGood DEF IInv
<1>12. /\ WalkInsOf(b)' = WalkInsOf(b) /\ Tows(b)' = Tows(b)
       /\ LiveTows(b)' \subseteq LiveTows(b) /\ LiveWalkIns(b)' \subseteq LiveWalkIns(b)
  <2>1. \A u \in WalkInsOf(b) \union Tows(b) : tickets'[u].live => tickets[u].live
    BY <1>5, <1>7 DEF Stamped, WalkInsOf, Tows
  <2> QED  BY <2>1, <1>7 DEF Stamped, LiveTows, LiveWalkIns
<1>13. \A u \in DOMAIN tickets :
         /\ tickets'[u].parent = tickets[u].parent /\ tickets'[u].charge = tickets[u].charge
         /\ tickets'[u].deposit = tickets[u].deposit
  BY <1>5, <1>7 DEF Stamped
<1>14. \A u \in WalkInsOf(b) \union Tows(b) : u \in DOMAIN tickets
  BY DEF WalkInsOf, Tows
<1>15. booking[b].ticket # 0 => booking[b].ticket \in DOMAIN tickets
  BY DEF IInv, TypeOK
<1>16. Agree(b)' <=> Agree(b)
  BY <1>6, <1>13, <1>15 DEF Agree
<1>17. NoDeposit(b)' /\ Owned(b)'
  <2>1. NoDeposit(b)'
    BY <1>1, <1>5, <1>6, <1>7, StampNoDeposit
  <2>2. Owned(b)'
    BY <1>6, <1>7 DEF IInv, Good, Owned, Owns, Stamped, Files
  <2> QED  BY <2>1, <2>2
<1>18. ASSUME b \notin rough PROVE Alone(b)' /\ Swept(b)' /\ Tidy(b)'
  <2>1. Alone(b)' /\ Swept(b)'
    BY <1>6, <1>18 DEF IInv, Good, Alone, Swept, Of, Listed, Is
  <2>2. Tidy(b)
    BY <1>18 DEF IInv, Good
  <2>3. Begun(b)' /\ Received(b)' /\ InTurn(b)' /\ Linked(b)' /\ WorkTicket(b)' /\ DepositKept(b)'
    BY <2>2, <1>6, <1>12, <1>16
    DEF Tidy, Begun, Received, InTurn, Linked, WorkTicket, DepositKept, Of, Is
  <2>4. OneTow(b)' /\ OneWork(b)'
    BY <2>2, <1>12 DEF Tidy, OneTow, OneWork
  <2>5. Parked(b)' /\ Charged(b)'
    BY <2>2, <1>6, <1>12, <1>13, <1>14 DEF Tidy, Parked, Charged
  <2> QED  BY <2>1, <2>3, <2>4, <2>5 DEF Tidy
<1>19. ASSUME b \notin rough, NEW u \in Requests, Of(u, b)' PROVE Sound(b, req[u])'
  <2>1. PICK e : e = req[u]
    OBVIOUS
  <2>2. Sound(b, e)
    BY <2>1, <1>6, <1>19 DEF IInv, Good, Of
  <2>3. Deciding(b, e)' /\ Arriving(b, e)'
    BY <2>2, <1>6, <1>12 DEF Sound, Deciding, Arriving, Is
  <2>4. Towing(b, e)'
    BY <2>2, <1>6, <1>12 DEF Sound, Towing, Is
  <2>5. Dropping(b, e)'
    BY <2>2, <1>6, <1>12, <1>13, <1>14 DEF Sound, Dropping, Is
  <2>6. Banking(b, e)'
    BY <2>2, <1>6, <1>13, <1>15, <1>16 DEF Sound, Banking, Is
  <2> QED  BY <2>1, <2>3, <2>4, <2>5, <2>6, <1>6 DEF Sound
<1>20. Good(b)'
  BY <1>6, <1>17, <1>18, <1>19 DEF Good
<1>21. SlotIsExact'
  <2>1. \A x \in Bookings : Holding(x)' <=> Holding(x)
    BY <1>6 DEF Holding, ClaimedBy, ReleasedBy, At, Is
  <2> QED  BY <2>1, <1>6, SameCount
<1> QED  BY <1>9, <1>10, <1>11, <1>20, <1>21 DEF IInv

\* A booking is made: unless it is rough, no request of its earlier life is left
\* that could write more than a deposit.
LEMMA CreateKeeps ==
  ASSUME IInv, NEW b \in Bookings, Create(b)
  PROVE  IInv'
<1>1. PICK deposit \in DepositStatuses : deposit = IF b \in Deposits THEN "DUE" ELSE "NONE"
  BY DEF DepositStatuses
<1>2. PICK doc : doc = [Unmade EXCEPT !.status = "REQUESTED", !.deposit = deposit]
  OBVIOUS
<1>3. doc \in BookingDoc /\ doc.status = "REQUESTED" /\ doc.ticket = 0 /\ doc.links = {}
      /\ doc.deposit = deposit
  BY <1>2 DEF Unmade, BookingDoc, Statuses
<1>4. /\ booking[b].status = "NONE" /\ booking[b].ticket = 0 /\ booking[b].links = {}
  BY DEF Create, Unmade
<1>5. booking' = [booking EXCEPT ![b] = doc]
      /\ UNCHANGED <<clock, slot, tickets, req, sweep, rough, faults>>
  BY <1>1, <1>2 DEF Create, Write
<1>6. booking'[b] = doc /\ \A x \in Bookings \ {b} : booking'[x] = booking[x]
  BY <1>5 DEF IInv, TypeOK
<1>7. TypeOK' /\ SweepShape'
  <2>1. booking' \in [Bookings -> BookingDoc]
    BY <1>3, <1>5 DEF IInv, TypeOK
  <2>2. \A x \in Bookings : booking'[x].links \union ({booking'[x].ticket} \ {0}) \subseteq DOMAIN tickets
    BY <1>3, <1>6 DEF IInv, TypeOK
  <2> QED  BY <2>1, <2>2, <1>5 DEF IInv, TypeOK, SweepShape
<1>8. ASSUME NEW u \in Requests PROVE Shape(req[u])'
  <2>1. PICK e : e = req[u]
    OBVIOUS
  <2>2. Files(b)
    BY <1>5 DEF Files, IInv, TypeOK
  <2>3. Shape(e)'
    BY <2>1, <2>2, StillShape DEF IInv
  <2> QED  BY <2>1, <2>3, <1>5
<1>9. ASSUME NEW x \in Bookings \ {b} PROVE Good(x)'
  <2>1. Filed(x) /\ booking'[x] = booking[x] /\ Asked(x)
    BY <1>5, <1>6, FiledSame DEF Asked, Of
  <2>2. x \notin rough' => x \notin rough /\ Alone(x)' /\ Swept(x)'
    BY <1>5, <1>6 DEF IInv, Good, Alone, Swept, Of, Listed, Is
  <2> QED  BY <2>1, <2>2, StillGood DEF IInv
<1>10. NoDeposit(b)' /\ Owned(b)'
  BY <1>1, <1>3, <1>5, <1>6 DEF IInv, Good, NoDeposit, Owned
<1>11. ASSUME b \notin rough PROVE WalkInsOf(b) = {} /\ Tows(b) = {}
  BY <1>4, <1>11 DEF IInv, Good, Tidy, Begun, Settled, Statuses
<1>12. ASSUME b \notin rough PROVE Alone(b)' /\ Swept(b)' /\ Tidy(b)'
  <2>1. Alone(b)'
    BY <1>5, <1>12 DEF IInv, Good, Alone, Of, Listed
  <2>2. Swept(b)'
    BY <1>4, <1>5, <1>12 DEF IInv, Good, Swept, Is
  <2>3. WalkInsOf(b)' = {} /\ Tows(b)' = {} /\ LiveTows(b)' = {} /\ LiveWalkIns(b)' = {}
    BY <1>5, <1>11, <1>12, SameSets DEF LiveTows, LiveWalkIns
  <2>4. Tidy(b)'
    BY <2>3, <1>3, <1>6
    DEF Tidy, Begun, Received, InTurn, Linked, OneTow, Parked, OneWork, WorkTicket, Charged,
        DepositKept, Agree
  <2> QED  BY <2>1, <2>2, <2>4
<1>13. ASSUME b \notin rough, NEW u \in Requests, Of(u, b)' PROVE Sound(b, req[u])'
  <2>1. PICK e \in RequestDoc : e = req[u]
    BY DEF IInv, TypeOK
  <2>2. Sound(b, e) /\ Shape(e) /\ e.b = b /\ b # None
    BY <2>1, <1>5, <1>13, BookingsAssumption DEF IInv, Good, Of
  <2>3. e.pc # "idle" /\ e.kind \in Kinds \ {"none"}
    BY <2>2, IdleShape DEF Shape, Errand, RequestDoc
  <2>4. e.kind \notin {"accept", "decline", "cancel", "complete"}
    BY <2>2, <1>4 DEF Sound, Deciding, Is
  <2>5. e.pc \notin {"arrived", "adopt", "meet", "join", "copy", "link", "charge", "stamp"}
    <3>1. \A t : ~Owns(b, t)
      BY <1>11, <1>13, EitherKind DEF Owns
    <3> QED  BY <3>1, <2>2, <1>11, <1>13 DEF Shape, Holds
  <2>6. e.kind \notin {"arrive", "tow"}
    BY <2>2, <2>5, <1>4 DEF Sound, Arriving, Towing, Is
  <2>7. e.kind # "deliver"
    BY <2>2, <2>5, <1>11, <1>13 DEF Shape, Errand, Holds, Delivering
  <2>8. e.kind \in {"collect", "request", "paid"} /\ e.pc = "keep"
    BY <2>2, <2>3, <2>4, <2>5, <2>6, <2>7 DEF Kinds, Shape, Errand
  <2>9. Sound(b, e)'
    BY <2>8, <1>3, <1>6 DEF Sound, Deciding, Arriving, Towing, Dropping, Banking
  <2> QED  BY <2>1, <2>9, <1>5
<1>14. Good(b)'
  BY <1>5, <1>10, <1>12, <1>13 DEF Good
<1>15. SlotIsExact'
  <2>1. \A x \in Bookings : Holding(x)' <=> Holding(x)
    <3>1. \A x \in Bookings : (ClaimedBy(x)' <=> ClaimedBy(x)) /\ (ReleasedBy(x)' <=> ReleasedBy(x))
      BY <1>5 DEF ClaimedBy, ReleasedBy, At
    <3>2. \A x \in Bookings : Is(x, {"CONFIRMED", "ARRIVED", "COMPLETED"})'
                                <=> Is(x, {"CONFIRMED", "ARRIVED", "COMPLETED"})
      BY <1>3, <1>4, <1>6 DEF Is
    <3> QED  BY <3>1, <3>2 DEF Holding
  <2> QED  BY <2>1, <1>5, SameCount
<1> QED  BY <1>7, <1>8, <1>9, <1>14, <1>15 DEF IInv

------------------------------------------------------------------------------
(* Time, and the sweep *)

\* A step that writes neither a booking, nor a ticket, nor a request.
LEMMA ListKeeps ==
  ASSUME IInv, UNCHANGED <<booking, tickets, req>>,
         clock' \in 1..Len(Phases), slot' \in 0..Capacity, faults' \in 0..MaxFaults,
         sweep'.pc \in {"idle", "noshow", "mark", "complete"},
         sweep'.b \in Bookings \union {None}, sweep'.left \subseteq Bookings, SweepShape',
         rough \subseteq rough', rough' \subseteq Bookings,
         \A x \in Bookings \ rough' : Alone(x)' /\ Swept(x)', SlotIsExact'
  PROVE  IInv'
<1>1. TypeOK'
  BY DEF IInv, TypeOK
<1>2. ASSUME NEW u \in Requests PROVE Shape(req[u])'
  BY DEF IInv, Shape, Errand, Holds, Owns, WalkInsOf, Tows
<1>3. ASSUME NEW x \in Bookings PROVE Good(x)'
  <2>1. Filed(x) /\ booking'[x] = booking[x] /\ Asked(x)
    BY FiledSame DEF Asked, Of
  <2>2. x \notin rough' => x \notin rough /\ Alone(x)' /\ Swept(x)'
    OBVIOUS
  <2> QED  BY <2>1, <2>2, StillGood DEF IInv
<1> QED  BY <1>1, <1>2, <1>3 DEF IInv

LEMMA TickKeeps ==
  ASSUME IInv, Tick
  PROVE  IInv'
<1>1. /\ clock' = clock + 1 /\ clock < Len(Phases)
      /\ UNCHANGED <<slot, booking, tickets, req, sweep, rough, faults>>
  BY DEF Tick
<1>2. clock' \in 1..Len(Phases)
  BY <1>1 DEF IInv, TypeOK, Phases
<1>3. \A x \in Bookings \ rough' : Alone(x)' /\ Swept(x)'
  BY <1>1 DEF IInv, Good, Alone, Swept, Of, Listed, Is
<1>4. SlotIsExact'
  <2>1. \A x \in Bookings : Holding(x)' <=> Holding(x)
    BY <1>1 DEF Holding, ClaimedBy, ReleasedBy, At, Is
  <2> QED  BY <2>1, <1>1, SameCount
<1> QED  BY <1>1, <1>2, <1>3, <1>4, ListKeeps DEF IInv, TypeOK, SweepShape

\* The sweep lists bookings: those that a request is on become rough.
LEMMA ListingKeeps ==
  ASSUME IInv, NEW pc \in {"noshow", "complete"}, NEW left \in SUBSET Bookings,
         UNCHANGED <<clock, slot, booking, tickets, req, faults>>, sweep.pc # "mark",
         sweep' = [pc |-> pc, b |-> None, left |-> left],
         rough' = rough \union Overlapping(left),
         \A x \in left : Is(x, {IF pc = "noshow" THEN "CONFIRMED" ELSE "ARRIVED"})
  PROVE  IInv'
<1>1. None \notin Bookings
  BY BookingsAssumption
<1>2. sweep'.pc = pc /\ sweep'.b = None /\ sweep'.left = left
  OBVIOUS
<1>3. Overlapping(left) \subseteq Bookings
  BY DEF Overlapping
<1>4. ASSUME NEW x \in Bookings \ rough' PROVE Alone(x)' /\ Swept(x)'
  <2>1. Alone(x)
    BY <1>4 DEF IInv, Good
  <2>2. x \in left => \A c \in Requests : ~Of(c, x)
    BY <1>4 DEF Overlapping, Of
  <2>3. Listed(x)' => x \in left
    BY <1>1, <1>2 DEF Listed
  <2>4. Alone(x)'
    BY <2>1, <2>2, <2>3 DEF Alone, Of
  <2>5. Swept(x)'
    BY <1>2 DEF Swept, Is
  <2> QED  BY <2>4, <2>5
<1>5. SlotIsExact'
  <2>1. \A x \in Bookings : Holding(x)' <=> Holding(x)
    BY <1>2 DEF Holding, ClaimedBy, ReleasedBy, At, Is
  <2> QED  BY <2>1, SameCount
<1>6. SweepShape'
  BY <1>2 DEF SweepShape
<1>7. rough \subseteq rough' /\ rough' \subseteq Bookings
  BY <1>3 DEF IInv, TypeOK
<1> QED  BY <1>2, <1>4, <1>5, <1>6, <1>7, ListKeeps DEF IInv, TypeOK

LEMMA RestKeeps ==
  ASSUME IInv, UNCHANGED <<clock, slot, booking, tickets, req>>, sweep' = Resting,
         faults' \in 0..MaxFaults,
         rough' = IF sweep.pc = "mark" THEN rough \union {sweep.b} ELSE rough
  PROVE  IInv'
<1>1. sweep'.pc = "idle" /\ sweep'.b = None /\ sweep'.left = {}
      /\ sweep' = [pc |-> "idle", b |-> None, left |-> {}]
  BY DEF Resting
<1>2. rough \subseteq rough' /\ rough' \subseteq Bookings
  BY DEF IInv, TypeOK, SweepShape
<1>3. ASSUME NEW x \in Bookings \ rough' PROVE Alone(x)' /\ Swept(x)'
  BY <1>1, <1>2, <1>3 DEF IInv, Good, Alone, Swept, Of, Listed
<1>4. SlotIsExact'
  <2>1. CASE sweep.pc = "mark"
    BY <2>1 DEF SlotIsExact
  <2>2. CASE sweep.pc # "mark"
    <3>1. \A x \in Bookings : Holding(x)' <=> Holding(x)
      BY <2>2, <1>1 DEF Holding, ClaimedBy, ReleasedBy, At, Is
    <3> QED  BY <3>1, <1>2, SameCount
  <2> QED  BY <2>1, <2>2
<1>5. SweepShape'
  BY <1>1 DEF SweepShape
<1> QED  BY <1>1, <1>2, <1>3, <1>4, <1>5, ListKeeps DEF IInv, TypeOK

LEMMA ListNoShowsKeeps ==
  ASSUME IInv, ListNoShows
  PROVE  IInv'
<1>1. PICK left \in SUBSET Bookings : left = {b \in Due : ~booking[b].came}
  BY DEF Due
<1>2. sweep' = [pc |-> "noshow", b |-> None, left |-> left]
  BY <1>1 DEF ListNoShows, Resting
<1>3. \A x \in left : Is(x, {"CONFIRMED"})
  BY <1>1 DEF Due
<1>4. rough' = rough \union Overlapping(left)
      /\ UNCHANGED <<clock, slot, booking, tickets, req, faults>> /\ sweep.pc # "mark"
  BY <1>1 DEF ListNoShows
<1> QED  BY <1>2, <1>3, <1>4, ListingKeeps

LEMMA ListArrivedKeeps ==
  ASSUME IInv, ListArrived
  PROVE  IInv'
<1>1. UNCHANGED <<clock, slot, booking, tickets, req, faults>> /\ sweep.pc = "noshow"
  BY DEF ListArrived
<1>2. CASE LongAgo = {}
  <2>1. rough' = rough /\ sweep' = Resting
    BY <1>2 DEF ListArrived, Overlapping
  <2>2. faults' \in 0..MaxFaults
    BY <1>1 DEF IInv, TypeOK
  <2> QED  BY <1>1, <2>1, <2>2, RestKeeps
<1>3. CASE LongAgo # {}
  <2>1. PICK left \in SUBSET Bookings : left = LongAgo
    BY DEF LongAgo
  <2>2. sweep' = [pc |-> "complete", b |-> None, left |-> left]
    BY <1>3, <2>1 DEF ListArrived, Resting
  <2>3. \A x \in left : Is(x, {"ARRIVED"})
    BY <2>1 DEF LongAgo
  <2>4. rough' = rough \union Overlapping(left)
    BY <2>1 DEF ListArrived
  <2> QED  BY <1>1, <2>2, <2>3, <2>4, ListingKeeps
<1> QED  BY <1>2, <1>3

LEMMA AbortSweepKeeps ==
  ASSUME IInv, AbortSweep
  PROVE  IInv'
<1>1. faults' \in 0..MaxFaults
  BY BookingsAssumption DEF AbortSweep, IInv, TypeOK
<1> QED  BY <1>1, RestKeeps DEF AbortSweep

LEMMA ReleaseNoShowKeeps ==
  ASSUME IInv, NEW b \in Bookings, ReleaseNoShow(b)
  PROVE  IInv'
<1>1. /\ sweep.pc = "noshow" /\ b \in sweep.left /\ slot' = Freed
      /\ UNCHANGED <<clock, booking, tickets, req, rough, faults>>
  BY DEF ReleaseNoShow
<1>2. sweep' = [pc |-> "mark", b |-> b, left |-> sweep.left \ {b}]
  BY DEF ReleaseNoShow
<1>3. sweep'.pc = "mark" /\ sweep'.b = b /\ sweep'.left = sweep.left \ {b}
  BY <1>2
<1>4. None \notin Bookings /\ sweep.b = None /\ sweep.left \subseteq Bookings
  BY <1>1, BookingsAssumption DEF IInv, SweepShape, TypeOK
<1>5. slot \in 0..Capacity /\ Capacity \in Nat /\ slot' = IF slot > 0 THEN slot - 1 ELSE 0
  BY <1>1, BookingsAssumption DEF IInv, TypeOK, Freed
<1>6. slot' \in 0..Capacity /\ (slot > 0 => slot' = slot - 1)
  BY <1>5
<1>7. ASSUME NEW x \in Bookings \ rough' PROVE Alone(x)' /\ Swept(x)'
  <2>1. Alone(x) /\ Swept(x)
    BY <1>1, <1>7 DEF IInv, Good
  <2>2. Listed(x)' => Listed(x)
    BY <1>1, <1>3 DEF Listed
  <2>3. Alone(x)'
    BY <2>1, <2>2, <1>1 DEF Alone, Of
  <2>4. Swept(x)'
    BY <2>1, <1>1, <1>3 DEF Swept, Is
  <2> QED  BY <2>3, <2>4
<1>8. SlotIsExact'
  <2>1. ASSUME NEW x \in Bookings \ {b} PROVE Holding(x)' <=> Holding(x)
    BY <1>1, <1>3 DEF Holding, ClaimedBy, ReleasedBy, At, Is
  <2>2. ASSUME rough' = {} PROVE rough = {} /\ Counts(Holding(b), Holding(b)')
    <3>1. rough = {} /\ Alone(b) /\ Swept(b)
      BY <2>2, <1>1 DEF IInv, Good
    <3>2. \A c \in Requests : ~Of(c, b)
      BY <3>1, <1>1 DEF Alone, Listed
    <3>3. Holding(b)
      BY <3>1, <3>2, <1>1 DEF Holding, Swept, Is, ReleasedBy, Of
    <3>4. ~Holding(b)'
      BY <3>2, <1>1, <1>3 DEF Holding, ClaimedBy, ReleasedBy, Of
    <3>5. slot > 0
      BY <3>1, <3>3, HeldIsClaimed
    <3> QED  BY <3>1, <3>3, <3>4, <3>5, <1>6 DEF Counts
  <2> QED  BY <2>1, <2>2, CountHolders
<1>9. SweepShape'
  BY <1>2, <1>3 DEF SweepShape
<1> QED  BY <1>1, <1>3, <1>4, <1>6, <1>7, <1>8, <1>9, ListKeeps DEF IInv, TypeOK

\* The sweep closes a booking it has listed.
LEMMA ClosingKeeps ==
  ASSUME IInv, NEW b \in Bookings, NEW status \in {"NO_SHOW", "COMPLETED"},
         NEW pc \in {"idle", "noshow", "complete"}, NEW left \in SUBSET (sweep.left \ {b}),
         Write(b, [booking[b] EXCEPT !.status = status]),
         sweep' = [pc |-> pc, b |-> None, left |-> left],
         UNCHANGED <<clock, slot, tickets, req, rough, faults>>, Listed(b),
         \/ sweep.pc = "mark" /\ sweep.b = b /\ status = "NO_SHOW" /\ pc = "noshow"
         \/ sweep.pc = "complete" /\ b \in sweep.left /\ status = "COMPLETED"
            /\ pc \in {"idle", "complete"}
  PROVE  IInv'
<1>1. None \notin Bookings
  BY BookingsAssumption
<1>2. sweep'.pc = pc /\ sweep'.b = None /\ sweep'.left = left
  OBVIOUS
<1>3. PICK old \in BookingDoc : old = booking[b]
  BY DEF IInv, TypeOK
<1>4. PICK doc : doc = [old EXCEPT !.status = status]
  OBVIOUS
<1>5. doc \in BookingDoc
  BY <1>4 DEF BookingDoc, Statuses
<1>6. doc.status = status /\ doc.ticket = old.ticket /\ doc.links = old.links /\ doc.deposit = old.deposit
  BY <1>4 DEF BookingDoc
<1>7. booking'[b] = doc /\ \A x \in Bookings \ {b} : booking'[x] = booking[x]
  BY <1>3, <1>4 DEF Write, IInv, TypeOK
<1>8. TypeOK' /\ SweepShape'
  <2>1. booking' \in [Bookings -> BookingDoc]
    BY <1>3, <1>4, <1>5 DEF Write, IInv, TypeOK
  <2>2. \A x \in Bookings : booking'[x].links \union ({booking'[x].ticket} \ {0}) \subseteq DOMAIN tickets
    BY <1>3, <1>6, <1>7 DEF IInv, TypeOK
  <2>3. left \subseteq Bookings
    BY DEF IInv, TypeOK
  <2> QED  BY <2>1, <2>2, <2>3, <1>2 DEF IInv, TypeOK, SweepShape
<1>9. ASSUME NEW u \in Requests PROVE Shape(req[u])'
  BY DEF IInv, Shape, Errand, Holds, Owns, WalkInsOf, Tows
<1>10. \A x \in Bookings : Listed(x)' => Listed(x)
  BY <1>1, <1>2 DEF Listed
<1>11. ASSUME NEW x \in Bookings \ {b} PROVE Good(x)'
  <2>1. Filed(x) /\ booking'[x] = booking[x] /\ Asked(x)
    BY <1>7, FiledSame DEF Asked, Of
  <2>2. ASSUME x \notin rough' PROVE x \notin rough /\ Alone(x)' /\ Swept(x)'
    <3>1. x \notin rough /\ Alone(x) /\ Swept(x)
      BY <2>2 DEF IInv, Good
    <3>2. Alone(x)'
      BY <3>1, <1>10 DEF Alone, Of
    <3>3. Swept(x)'
      BY <3>1, <1>2, <1>7 DEF Swept, Is
    <3> QED  BY <3>1, <3>2, <3>3
  <2> QED  BY <2>1, <2>2, StillGood DEF IInv
<1>12. NoDeposit(b)' /\ Owned(b)'
  BY <1>3, <1>6, <1>7 DEF IInv, Good, NoDeposit, Owned, Owns
<1>13. ASSUME b \notin rough
       PROVE  Tidy(b) /\ \A c \in Requests : ~Of(c, b)
  BY <1>13 DEF IInv, Good, Alone
<1>14. ASSUME b \notin rough PROVE Alone(b)' /\ Swept(b)' /\ Tidy(b)'
  <2>1. Alone(b)'
    BY <1>13, <1>14 DEF Alone, Of
  <2>2. Swept(b)'
    BY <1>2 DEF Swept
  <2>3. Begun(b)' /\ Received(b)'
    BY <1>6, <1>7 DEF Begun, Received, Settled, Statuses, Is
  <2>4. Linked(b)' /\ DepositKept(b)'
    BY <1>3, <1>6, <1>7, <1>13, <1>14, SameSets DEF Tidy, Linked, DepositKept, Agree, Of
  <2>5. InTurn(b)' /\ OneTow(b)' /\ Parked(b)' /\ OneWork(b)' /\ WorkTicket(b)' /\ Charged(b)'
    BY <1>3, <1>6, <1>7, <1>13, <1>14, SameSets
    DEF Tidy, InTurn, OneTow, Parked, OneWork, WorkTicket, Charged
  <2> QED  BY <2>1, <2>2, <2>3, <2>4, <2>5 DEF Tidy
<1>15. ASSUME b \notin rough, NEW u \in Requests, Of(u, b)' PROVE Sound(b, req[u])'
  BY <1>13, <1>15 DEF Of
<1>16. Good(b)'
  BY <1>12, <1>14, <1>15 DEF Good
<1>17. SlotIsExact'
  <2>1. ASSUME NEW x \in Bookings \ {b} PROVE Holding(x)' <=> Holding(x)
    BY <1>2, <1>7 DEF Holding, ClaimedBy, ReleasedBy, At, Is
  <2>2. ASSUME rough' = {} PROVE rough = {} /\ Counts(Holding(b), Holding(b)')
    <3>1. rough = {} /\ Swept(b) /\ \A c \in Requests : ~Of(c, b)
      BY <2>2, <1>13 DEF IInv, Good
    <3>2. ~ClaimedBy(b) /\ ~ClaimedBy(b)'
      BY <3>1 DEF ClaimedBy, Of
    <3>3. ReleasedBy(b) <=> sweep.pc = "mark"
      BY <3>1 DEF ReleasedBy, Of
    <3>4. ~ReleasedBy(b)'
      BY <3>1, <1>2 DEF ReleasedBy, Of
    <3>5. Holding(b)' <=> Holding(b)
      BY <3>1, <3>2, <3>3, <3>4, <1>6, <1>7 DEF Holding, Swept, Is
    <3> QED  BY <3>1, <3>5 DEF Counts
  <2> QED  BY <2>1, <2>2, CountHolders
<1> QED  BY <1>8, <1>9, <1>11, <1>16, <1>17 DEF IInv

LEMMA MarkNoShowKeeps ==
  ASSUME IInv, MarkNoShow
  PROVE  IInv'
<1>1. PICK b \in Bookings : b = sweep.b /\ b \notin sweep.left
  BY DEF MarkNoShow, IInv, SweepShape
<1>2. PICK left : left = sweep.left
  OBVIOUS
<1>3. left \in SUBSET (sweep.left \ {b})
  BY <1>1, <1>2
<1>4. Listed(b) /\ sweep.pc = "mark"
  BY <1>1 DEF Listed, MarkNoShow
<1>5. /\ Write(b, [booking[b] EXCEPT !.status = "NO_SHOW"])
      /\ sweep' = [pc |-> "noshow", b |-> None, left |-> left]
      /\ UNCHANGED <<clock, slot, tickets, req, rough, faults>>
  BY <1>1, <1>2 DEF MarkNoShow
<1> QED  BY <1>1, <1>3, <1>4, <1>5, ClosingKeeps

LEMMA AutoCompleteKeeps ==
  ASSUME IInv, NEW b \in Bookings, AutoComplete(b)
  PROVE  IInv'
<1>1. sweep.pc = "complete" /\ b \in sweep.left /\ Listed(b)
  BY DEF AutoComplete, Listed
<1>2. sweep = [pc |-> "complete", b |-> None, left |-> sweep.left]
  BY <1>1 DEF IInv, SweepShape
<1>3. PICK pc \in {"idle", "complete"} : pc = IF sweep.left = {b} THEN "idle" ELSE "complete"
  OBVIOUS
<1>4. PICK left : left = sweep.left \ {b}
  OBVIOUS
<1>5. sweep' = [pc |-> pc, b |-> None, left |-> left]
  <2>1. CASE sweep.left = {b}
    <3>1. left = {}
      BY <2>1, <1>4
    <3> QED  BY <2>1, <3>1, <1>3 DEF AutoComplete, Resting
  <2>2. CASE sweep.left # {b}
    BY <2>2, <1>2, <1>3, <1>4 DEF AutoComplete
  <2> QED  BY <2>1, <2>2
<1>6. /\ Write(b, [booking[b] EXCEPT !.status = "COMPLETED"])
      /\ UNCHANGED <<clock, slot, tickets, req, rough, faults>>
  BY DEF AutoComplete
<1>7. left \in SUBSET (sweep.left \ {b})
  BY <1>4
<1> QED  BY <1>1, <1>3, <1>5, <1>6, <1>7, ClosingKeeps

------------------------------------------------------------------------------
(* The theorems *)

LEMMA InitHolds == Init => IInv
<1> SUFFICES ASSUME Init PROVE IInv
  OBVIOUS
<1>1. /\ clock = 1 /\ slot = 0 /\ booking = [b \in Bookings |-> Unmade] /\ tickets = <<>>
      /\ req = [c \in Requests |-> Idle] /\ sweep = Resting /\ rough = {} /\ faults = 0
  BY DEF Init
<1>2. sweep.pc = "idle" /\ sweep.b = None /\ sweep.left = {}
      /\ sweep = [pc |-> "idle", b |-> None, left |-> {}]
  BY <1>1 DEF Resting
<1>3. \A b \in Bookings : /\ booking[b] = Unmade /\ booking[b].ticket = 0 /\ booking[b].links = {}
                          /\ booking[b].status = "NONE" /\ booking[b].deposit = "NONE"
  BY <1>1 DEF Unmade
<1>4. \A c \in Requests : req[c] = Idle
  BY <1>1
<1>5. Unmade \in BookingDoc
  BY DEF Unmade, BookingDoc, DepositStatuses
<1>6. TypeOK
  <2>1. clock \in 1..Len(Phases) /\ slot \in 0..Capacity /\ faults \in 0..MaxFaults
    BY <1>1, BookingsAssumption DEF Phases
  <2>2. tickets \in Seq(TicketDoc) /\ Len(tickets) <= MaxTickets
    BY <1>1, BookingsAssumption
  <2>3. booking \in [Bookings -> BookingDoc] /\ req \in [Requests -> RequestDoc]
    BY <1>1, <1>5, IdleShape
  <2>4. \A b \in Bookings : booking[b].links \union ({booking[b].ticket} \ {0}) \subseteq DOMAIN tickets
    BY <1>3
  <2> QED  BY <2>1, <2>2, <2>3, <2>4, <1>1, <1>2 DEF TypeOK
<1>7. SweepShape
  BY <1>2 DEF SweepShape
<1>8. \A c \in Requests : Shape(req[c]) /\ \A b \in Bookings : ~Of(c, b)
  BY <1>4, DoneShape, IdleShape, BookingsAssumption DEF Of
<1>9. ASSUME NEW b \in Bookings PROVE Good(b)
  <2>1. DOMAIN tickets = {}
    BY <1>1
  <2>2. WalkInsOf(b) = {} /\ Tows(b) = {} /\ LiveTows(b) = {} /\ LiveWalkIns(b) = {}
    BY <2>1 DEF WalkInsOf, Tows, LiveTows, LiveWalkIns
  <2>3. NoDeposit(b) /\ Owned(b)
    BY <2>1, <1>3 DEF NoDeposit, Owned
  <2>4. Alone(b) /\ Swept(b)
    BY <1>2, <1>8 DEF Alone, Swept
  <2>5. Tidy(b)
    BY <2>2, <1>3 DEF Tidy, Begun, Received, InTurn, Linked, OneTow, Parked, OneWork, WorkTicket,
                      Charged, DepositKept, Agree
  <2> QED  BY <2>3, <2>4, <2>5, <1>8 DEF Good
<1>10. SlotIsExact
  <2>1. \A b \in Bookings : ~Holding(b)
    BY <1>3, <1>8 DEF Holding, ClaimedBy, Of, Is
  <2>2. Holders = {}
    BY <2>1 DEF Holders
  <2> QED  BY <2>2, <1>1, FS_EmptySet DEF SlotIsExact, Holders
<1> QED  BY <1>6, <1>7, <1>8, <1>9, <1>10 DEF IInv

LEMMA AskHolds ==
  ASSUME IInv, NEW c \in Requests, NEW b \in Bookings, Ask(c, b)
  PROVE  IInv'
BY AnswersKeep, VisitsKeep, BankingBegins DEF Ask

LEMMA WorkHolds ==
  ASSUME IInv, NEW c \in Requests, Work(c)
  PROVE  IInv'
BY ClaimKeeps, ReleaseKeeps, SetStatusKeeps, CheckKeeps, OpenWalkInKeeps, ArrivedKeeps, CopyKeeps,
   LookKeeps, FileTowKeeps, LinkTowKeeps, ResolveKeeps, FindKeeps, AdoptKeeps, MeetKeeps, JoinKeeps,
   ChargeKeeps, StampDepositKeeps, KeepDepositKeeps DEF Work

LEMMA StepHolds == IInv /\ [Next]_vars => IInv'
<1> SUFFICES ASSUME IInv, [Next]_vars PROVE IInv'
  OBVIOUS
<1>1. CASE Tick
  BY <1>1, TickKeeps
<1>2. CASE \E b \in Bookings : Create(b)
  BY <1>2, CreateKeeps
<1>3. ASSUME NEW c \in Requests,
             \/ \E b \in Bookings : Ask(c, b)
             \/ \E t \in DOMAIN tickets : DeliverRead(c, t) \/ Paid(c, t)
             \/ Work(c) \/ Abort(c)
      PROVE  IInv'
  BY <1>3, AskHolds, DeliverReadKeeps, PaidKeeps, WorkHolds, AbortKeeps
<1>4. CASE \E t \in DOMAIN tickets : CloseTicket(t)
  BY <1>4, CloseTicketKeeps
<1>5. CASE SweepStep
  BY <1>5, ListNoShowsKeeps, MarkNoShowKeeps, ListArrivedKeeps, ReleaseNoShowKeeps, AutoCompleteKeeps
  DEF SweepStep
<1>6. CASE AbortSweep
  BY <1>6, AbortSweepKeeps
<1>7. CASE UNCHANGED vars
  <2>1. \A x \in Bookings \ rough' : Alone(x)' /\ Swept(x)'
    BY <1>7 DEF vars, IInv, Good, Alone, Swept, Of, Listed, Is
  <2>2. SlotIsExact'
    <3>1. \A x \in Bookings : Holding(x)' <=> Holding(x)
      BY <1>7 DEF vars, Holding, ClaimedBy, ReleasedBy, At, Is
    <3> QED  BY <3>1, <1>7, SameCount DEF vars
  <2> QED  BY <2>1, <2>2, <1>7, ListKeeps DEF vars, IInv, TypeOK, SweepShape
<1> QED  BY <1>1, <1>2, <1>3, <1>4, <1>5, <1>6, <1>7 DEF Next

LEMMA IInvHolds == Spec => []IInv
BY InitHolds, StepHolds, PTL DEF Spec

\* Every booking, ticket, request and sweep keeps the shape its code gives it, and
\* the slot's counter stays between nothing and the shop's capacity, whatever
\* requests and sweeps do to each other.
THEOREM Typing == Spec => []TypeOK
BY IInvHolds, PTL DEF IInv

\* claimSlot and releaseSlot are transactions, the booking's own read and write
\* are not: as long as no booking is worked on by two handlers at once and no
\* handler dies between its two writes, the counter of the slot is exactly the
\* number of bookings that hold it.
THEOREM SlotStaysExact == Spec => []SlotIsExact
BY IInvHolds, PTL DEF IInv

LEMMA OneLive ==
  ASSUME IInv, NEW b \in Bookings \ rough
  PROVE  Cardinality(LiveOf(b) \intersect WalkInsOf(b)) <= 1
<1>1. LiveOf(b) \intersect WalkInsOf(b) = LiveWalkIns(b)
  BY DEF LiveOf, WalkInsOf, LiveWalkIns
<1>2. OneWork(b)
  BY DEF IInv, Good, Tidy
<1>3. CASE LiveWalkIns(b) = {}
  BY <1>1, <1>3, FS_EmptySet
<1>4. CASE LiveWalkIns(b) # {}
  <2>1. PICK w : LiveWalkIns(b) = {w}
    BY <1>2, <1>4 DEF OneWork
  <2> QED  BY <2>1, <1>1, FS_Singleton
<1> QED  BY <1>3, <1>4

LEMMA Agreeing ==
  ASSUME IInv, NEW b \in Bookings \ rough, booking[b].ticket # 0, ~InFlight(b),
         booking[b].deposit # "REQUESTED"
  PROVE  tickets[booking[b].ticket].deposit = booking[b].deposit
<1>1. DepositKept(b) /\ \A c \in Requests : ~Of(c, b)
  BY DEF IInv, Good, Tidy, InFlight, Of
<1> QED  BY <1>1 DEF DepositKept, Agree

\* Ridden in through the arrive endpoint or brought by a tow, a booking has one
\* live work ticket at a time, and when nobody is at work on it the ticket says
\* the same of its deposit as the booking does.
THEOREM OneWorkStays == Spec => []OneWorkTicket
<1>1. IInv => OneWorkTicket
  BY OneLive, Agreeing DEF OneWorkTicket
<1> QED  BY <1>1, IInvHolds, PTL

------------------------------------------------------------------------------
(* The record of an arrival.                                               *)

\* A booking names a work ticket of its own or none; it names one when the rider
\* came.  A delivery that is to leave the ticket as it is found one there.
Arrival(b) ==
  /\ WorkTicket(b)
  /\ booking[b].came \/ Is(b, {"ARRIVED"}) => booking[b].came /\ booking[b].ticket # 0
Joining ==
  \A c \in Requests : req[c].pc = "join" /\ ~req[c].first => booking[req[c].b].ticket # 0
ArrivalInv == (\A b \in Bookings : Arrival(b)) /\ Joining

TicketsStay == \A b \in Bookings : WalkInsOf(b) \subseteq WalkInsOf(b)'

LEMMA StampStays ==
  ASSUME IInv, NEW t, NEW doc, Stamp(t, doc),
         t \in DOMAIN tickets => doc.b = tickets[t].b /\ doc.kind = tickets[t].kind
  PROVE  TicketsStay
<1>1. DOMAIN tickets' = DOMAIN tickets
  BY DEF Stamp
<1>2. \A u \in DOMAIN tickets : tickets'[u] = IF u = t THEN doc ELSE tickets[u]
  BY DEF Stamp
<1> QED  BY <1>1, <1>2 DEF TicketsStay, WalkInsOf

LEMMA NewStays ==
  ASSUME IInv, NEW doc, tickets' = Append(tickets, doc)
  PROVE  TicketsStay
<1>1. tickets \in Seq(TicketDoc)
  BY DEF IInv, TypeOK
<1>2. DOMAIN tickets \subseteq DOMAIN tickets' /\ \A u \in DOMAIN tickets : tickets'[u] = tickets[u]
  BY <1>1
<1> QED  BY <1>2 DEF TicketsStay, WalkInsOf

LEMMA TicketFields ==
  ASSUME IInv, NEW t \in DOMAIN tickets
  PROVE  tickets[t] \in TicketDoc
BY DEF IInv, TypeOK

\* A ticket that is written keeps its kind and its booking, and none is removed.
LEMMA TicketsOnlyAdded ==
  ASSUME IInv, Next
  PROVE  TicketsStay
<1>1. CASE UNCHANGED tickets
  BY <1>1 DEF TicketsStay, WalkInsOf
<1>2. ASSUME NEW c \in Requests, Work(c), tickets' # tickets PROVE TicketsStay
  <2>1. \/ OpenWalkIn(c) \/ FileTow(c) \/ Copy(c) \/ Resolve(c) \/ Adopt(c) \/ StampDeposit(c)
        \/ Charge(c)
    BY <1>2 DEF Work, Claim, Release, SetStatus, Check, Arrived, Look, LinkTow, Find, Meet, Join,
                KeepDeposit
  <2>2. CASE OpenWalkIn(c)
    BY <2>2, NewStays DEF OpenWalkIn
  <2>3. CASE FileTow(c)
    BY <2>3, NewStays DEF FileTow
  <2>4. CASE Copy(c)
    <3>1. PICK t, x : t = req[c].t /\ x = req[c].deposit
      OBVIOUS
    <3>2. Stamp(t, [tickets[t] EXCEPT !.deposit = x])
      BY <2>4, <3>1 DEF Copy
    <3>3. t \in DOMAIN tickets => /\ [tickets[t] EXCEPT !.deposit = x].b = tickets[t].b
                                   /\ [tickets[t] EXCEPT !.deposit = x].kind = tickets[t].kind
      BY TicketFields DEF TicketDoc
    <3> QED  BY <3>2, <3>3, StampStays
  <2>5. CASE Resolve(c)
    <3>1. PICK t : t = Parent(c)
      OBVIOUS
    <3>2. Stamp(t, [tickets[t] EXCEPT !.live = FALSE])
      BY <2>5, <3>1 DEF Resolve
    <3>3. t \in DOMAIN tickets => /\ [tickets[t] EXCEPT !.live = FALSE].b = tickets[t].b
                                   /\ [tickets[t] EXCEPT !.live = FALSE].kind = tickets[t].kind
      BY TicketFields DEF TicketDoc
    <3> QED  BY <3>2, <3>3, StampStays
  <2>6. CASE Adopt(c)
    <3>1. PICK t, x : t = req[c].t /\ x = Parent(c)
      OBVIOUS
    <3>2. Stamp(t, [tickets[t] EXCEPT !.parent = x])
      BY <2>6, <3>1 DEF Adopt
    <3>3. t \in DOMAIN tickets => /\ [tickets[t] EXCEPT !.parent = x].b = tickets[t].b
                                   /\ [tickets[t] EXCEPT !.parent = x].kind = tickets[t].kind
      BY TicketFields DEF TicketDoc
    <3> QED  BY <3>2, <3>3, StampStays
  <2>7. CASE StampDeposit(c)
    <3>1. PICK t, x : t = req[c].t /\ x = req[c].put
      OBVIOUS
    <3>2. Stamp(t, [tickets[t] EXCEPT !.deposit = x])
      BY <2>7, <3>1 DEF StampDeposit
    <3>3. t \in DOMAIN tickets => /\ [tickets[t] EXCEPT !.deposit = x].b = tickets[t].b
                                   /\ [tickets[t] EXCEPT !.deposit = x].kind = tickets[t].kind
      BY TicketFields DEF TicketDoc
    <3> QED  BY <3>2, <3>3, StampStays
  <2>8. CASE Charge(c)
    <3>1. PICK t : t = req[c].t
      OBVIOUS
    <3>2. Stamp(t, [tickets[t] EXCEPT !.charge = "open"])
      BY <1>2, <2>8, <3>1 DEF Charge
    <3>3. t \in DOMAIN tickets => /\ [tickets[t] EXCEPT !.charge = "open"].b = tickets[t].b
                                   /\ [tickets[t] EXCEPT !.charge = "open"].kind = tickets[t].kind
      BY TicketFields DEF TicketDoc
    <3> QED  BY <3>2, <3>3, StampStays
  <2> QED  BY <2>1, <2>2, <2>3, <2>4, <2>5, <2>6, <2>7, <2>8
<1>3. ASSUME NEW c \in Requests, NEW t \in DOMAIN tickets, Paid(c, t) PROVE TicketsStay
  <2>1. /\ [tickets[t] EXCEPT !.charge = "held"].b = tickets[t].b
        /\ [tickets[t] EXCEPT !.charge = "held"].kind = tickets[t].kind
    BY TicketFields DEF TicketDoc
  <2> QED  BY <1>3, <2>1, StampStays DEF Paid
<1>4. ASSUME NEW t \in DOMAIN tickets, CloseTicket(t) PROVE TicketsStay
  <2>1. /\ [tickets[t] EXCEPT !.live = FALSE].b = tickets[t].b
        /\ [tickets[t] EXCEPT !.live = FALSE].kind = tickets[t].kind
    BY TicketFields DEF TicketDoc
  <2> QED  BY <1>4, <2>1, StampStays DEF CloseTicket
<1>5. ASSUME NEW c \in Requests, NEW b \in Bookings, Ask(c, b) PROVE UNCHANGED tickets
  BY <1>5 DEF Ask, AcceptRead, DeclineRead, CancelRead, CompleteRead, ArriveRead, TowRead,
              RequestRead, CollectRead
<1>6. ASSUME NEW c \in Requests, NEW t \in DOMAIN tickets, DeliverRead(c, t) PROVE UNCHANGED tickets
  BY <1>6 DEF DeliverRead
<1>7. ASSUME NEW c \in Requests, Abort(c) PROVE UNCHANGED tickets
  BY <1>7 DEF Abort
<1>8. ASSUME Tick \/ AbortSweep \/ SweepStep \/ \E b \in Bookings : Create(b)
      PROVE  UNCHANGED tickets
  BY <1>8 DEF Tick, AbortSweep, SweepStep, ListNoShows, MarkNoShow, ListArrived, ReleaseNoShow,
              AutoComplete, Create
<1> QED  BY <1>1, <1>2, <1>3, <1>4, <1>5, <1>6, <1>7, <1>8 DEF Next

\* A booking that is written keeps what it says of the arrival, or gets the
\* arrival and a work ticket of its own.
Kept(b) ==
  \/ /\ booking'[b].came = booking[b].came /\ booking'[b].ticket = booking[b].ticket
     /\ booking'[b].status = "ARRIVED" => Is(b, {"ARRIVED"})
  \/ booking'[b].came /\ booking'[b].ticket \in WalkInsOf(b)

LEMMA StatusOnly ==
  ASSUME IInv, NEW x \in Bookings, NEW s, s # "ARRIVED",
         booking' = [booking EXCEPT ![x] = [booking[x] EXCEPT !.status = s]]
  PROVE  \A b \in Bookings : Kept(b)
<1>1. booking \in [Bookings -> BookingDoc]
  BY DEF IInv, TypeOK
<1> QED  BY <1>1 DEF Kept, BookingDoc, Is

LEMMA ArrivalWrites ==
  ASSUME IInv, ArrivalInv, Next
  PROVE  \A b \in Bookings : Kept(b)
<1>0. booking \in [Bookings -> BookingDoc]
  BY DEF IInv, TypeOK
<1>1. ASSUME UNCHANGED booking PROVE \A b \in Bookings : Kept(b)
  BY <1>1 DEF Kept, Is
<1>2. ASSUME NEW x \in Bookings, Create(x) PROVE \A b \in Bookings : Kept(b)
  <2>1. PICK d : d = [Unmade EXCEPT !.status = "REQUESTED",
                       !.deposit = IF x \in Deposits THEN "DUE" ELSE "NONE"]
    OBVIOUS
  <2>2. d.status = "REQUESTED" /\ d.came = FALSE /\ d.ticket = 0
    BY <2>1 DEF Unmade
  <2>3. booking' = [booking EXCEPT ![x] = d] /\ booking[x].came = FALSE /\ booking[x].ticket = 0
    BY <1>2, <2>1 DEF Create, Write, Unmade
  <2> QED  BY <1>0, <2>2, <2>3 DEF Kept, Is
<1>3. ASSUME NEW c \in Requests, SetStatus(c) PROVE \A b \in Bookings : Kept(b)
  <2>1. PICK r \in RequestDoc, x \in Bookings :
          /\ r = req[c] /\ r.b = x /\ Shape(r) /\ r.pc = "write" /\ r.kind \in Kinds \ {"none"}
    BY <1>3, Working DEF SetStatus, At
  <2>2. r.put # "ARRIVED"
    BY <2>1 DEF Shape, Errand, Kinds, Delivering
  <2>3. booking' = [booking EXCEPT ![x] = [booking[x] EXCEPT !.status = r.put]]
    BY <1>3, <2>1 DEF SetStatus, Write
  <2> QED  BY <2>2, <2>3, StatusOnly
<1>4. ASSUME NEW c \in Requests, Arrived(c) PROVE \A b \in Bookings : Kept(b)
  <2>1. PICK r \in RequestDoc, x \in Bookings : r = req[c] /\ r.b = x /\ Shape(r) /\ r.pc = "arrived"
    BY <1>4, Working DEF Arrived, At
  <2>2. booking' = [booking EXCEPT ![x] = [booking[x] EXCEPT !.status = "ARRIVED", !.came = TRUE,
                                              !.ticket = r.t, !.links = r.links \union {r.t}]]
    BY <1>4, <2>1 DEF Arrived, Write
  <2>3. r.t \in WalkInsOf(x)
    BY <2>1 DEF Shape, Holds
  <2>4. booking'[x].came /\ booking'[x].ticket = r.t /\ \A y \in Bookings \ {x} : booking'[y] = booking[y]
    BY <1>0, <2>2 DEF BookingDoc
  <2> QED  BY <2>3, <2>4 DEF Kept, Is
<1>5. ASSUME NEW c \in Requests, LinkTow(c) PROVE \A b \in Bookings : Kept(b)
  <2>1. PICK r \in RequestDoc, x \in Bookings : r = req[c] /\ r.b = x
    BY <1>5, Working DEF LinkTow, At
  <2>2. PICK l : l = r.links \union {r.t}
    OBVIOUS
  <2>3. booking' = [booking EXCEPT ![x] = [booking[x] EXCEPT !.links = l]]
    BY <1>5, <2>1, <2>2 DEF LinkTow, Write
  <2> QED  BY <1>0, <2>3 DEF Kept, Is, BookingDoc
<1>6. ASSUME NEW c \in Requests, KeepDeposit(c) PROVE \A b \in Bookings : Kept(b)
  <2>1. PICK r \in RequestDoc, x \in Bookings : r = req[c] /\ r.b = x
    BY <1>6, Working DEF KeepDeposit, At
  <2>2. booking' = [booking EXCEPT ![x] = [booking[x] EXCEPT !.deposit = r.put]]
    BY <1>6, <2>1 DEF KeepDeposit, Write
  <2> QED  BY <1>0, <2>2 DEF Kept, Is, BookingDoc
<1>7. ASSUME NEW c \in Requests, Join(c) PROVE \A b \in Bookings : Kept(b)
  <2>1. PICK r \in RequestDoc, x \in Bookings :
          /\ r = req[c] /\ r.b = x /\ Shape(r) /\ r.pc = "join"
    BY <1>7, Working DEF Join, At
  <2>2. PICK status, ticket : /\ status = IF r.put = "NONE" THEN booking[x].status ELSE r.put
                              /\ ticket = IF r.first THEN r.t ELSE booking[x].ticket
    OBVIOUS
  <2>3. booking' = [booking EXCEPT ![x] = [booking[x] EXCEPT !.status = status, !.came = TRUE,
                                              !.ticket = ticket, !.links = r.links]]
    BY <1>7, <2>1, <2>2 DEF Join, Write
  <2>4. ticket \in WalkInsOf(x)
    <3>1. CASE r.first
      BY <2>1, <2>2, <3>1 DEF Shape, Holds
    <3>2. CASE ~r.first
      <4>1. booking[x].ticket # 0
        BY <2>1, <3>2 DEF ArrivalInv, Joining
      <4> QED  BY <2>2, <3>2, <4>1 DEF ArrivalInv, Arrival, WorkTicket
    <3> QED  BY <3>1, <3>2
  <2>5. booking'[x].came /\ booking'[x].ticket = ticket
        /\ \A y \in Bookings \ {x} : booking'[y] = booking[y]
    BY <1>0, <2>3 DEF BookingDoc
  <2> QED  BY <2>4, <2>5 DEF Kept, Is
<1>8. ASSUME NEW c \in Requests, Work(c) PROVE \A b \in Bookings : Kept(b)
  <2>1. \/ SetStatus(c) \/ Arrived(c) \/ LinkTow(c) \/ KeepDeposit(c) \/ Join(c) \/ UNCHANGED booking
    BY <1>8 DEF Work, Claim, Release, Check, OpenWalkIn, Copy, Look, FileTow, Resolve, Find, Adopt,
                Meet, Charge, StampDeposit
  <2> QED  BY <2>1, <1>1, <1>3, <1>4, <1>5, <1>6, <1>7
<1>9. ASSUME NEW c \in Requests, NEW b \in Bookings, Ask(c, b) PROVE UNCHANGED booking
  BY <1>9 DEF Ask, AcceptRead, DeclineRead, CancelRead, CompleteRead, ArriveRead, TowRead,
              RequestRead, CollectRead, Begin
<1>10. ASSUME NEW c \in Requests, NEW t \in DOMAIN tickets, DeliverRead(c, t) \/ Paid(c, t)
       PROVE  UNCHANGED booking
  BY <1>10 DEF DeliverRead, Paid, Begin
<1>11. ASSUME Tick \/ AbortSweep \/ ListNoShows \/ ListArrived \/ (\E c \in Requests : Abort(c))
              \/ (\E t \in DOMAIN tickets : CloseTicket(t)) \/ (\E b \in Bookings : ReleaseNoShow(b))
       PROVE  UNCHANGED booking
  BY <1>11 DEF Tick, AbortSweep, ListNoShows, ListArrived, Abort, CloseTicket, ReleaseNoShow
<1>12. ASSUME MarkNoShow PROVE \A b \in Bookings : Kept(b)
  <2>1. sweep.b \in Bookings
    BY <1>12 DEF MarkNoShow, IInv, SweepShape
  <2>2. PICK x \in Bookings : x = sweep.b
    BY <2>1
  <2>3. booking' = [booking EXCEPT ![x] = [booking[x] EXCEPT !.status = "NO_SHOW"]]
    BY <1>12, <2>2 DEF MarkNoShow, Write
  <2> QED  BY <2>3, StatusOnly
<1>13. ASSUME NEW x \in Bookings, AutoComplete(x) PROVE \A b \in Bookings : Kept(b)
  BY <1>13, StatusOnly DEF AutoComplete, Write
<1> QED
  BY <1>1, <1>2, <1>8, <1>9, <1>10, <1>11, <1>12, <1>13 DEF Next, SweepStep

\* Only the read of a delivery brings a request to the write that joins a booking.
LEMMA JoinsAreMet ==
  ASSUME IInv, Next, NEW c \in Requests, req'[c].pc = "join", req'[c] # req[c]
  PROVE  Meet(c)
<1>0. req \in [Requests -> RequestDoc]
  BY DEF IInv, TypeOK
<1>1. ASSUME NEW e \in Requests, NEW d, Goto(e, d) PROVE c = e /\ d.pc = "join"
  BY <1>0, <1>1 DEF Goto
<1>i. Idle.pc = "idle"
  BY DEF Idle
<1>2. ASSUME NEW e \in Requests, NEW b \in Bookings, NEW pc, NEW kind, NEW d,
             d.pc = pc, Begin(e, b, d), pc # "join"
      PROVE  FALSE
  BY <1>1, <1>2 DEF Begin
<1>3. ASSUME NEW e \in Requests, NEW b \in Bookings, Ask(e, b) PROVE FALSE
  <2>1. ASSUME NEW kind, NEW pc, NEW put, pc # "join",
               Begin(e, b, [Reading(b, kind, pc) EXCEPT !.put = put])
        PROVE  FALSE
    <3>1. PICK d : d = [Reading(b, kind, pc) EXCEPT !.put = put]
      OBVIOUS
    <3>2. d.pc = pc
      BY <3>1 DEF Reading, Idle
    <3> QED  BY <1>2, <2>1, <3>1, <3>2
  <2>2. ASSUME NEW kind, NEW pc, pc # "join", Begin(e, b, Reading(b, kind, pc)) PROVE FALSE
    <3>1. Reading(b, kind, pc).pc = pc
      BY DEF Reading, Idle
    <3> QED  BY <1>2, <2>2, <3>1
  <2>3. CASE AcceptRead(e, b)
    BY <2>1, <2>3 DEF AcceptRead
  <2>4. CASE DeclineRead(e, b)
    BY <2>1, <2>4 DEF DeclineRead
  <2>5. CASE CancelRead(e, b)
    <3>1. PICK pc : pc = IF Is(b, {"CONFIRMED"}) THEN "release" ELSE "write"
      OBVIOUS
    <3> QED  BY <2>1, <2>5, <3>1 DEF CancelRead
  <2>6. CASE CompleteRead(e, b)
    BY <2>1, <2>6 DEF CompleteRead
  <2>7. CASE ArriveRead(e, b) \/ TowRead(e, b)
    BY <2>2, <2>7 DEF ArriveRead, TowRead
  <2>8. CASE RequestRead(e, b)
    BY <2>1, <2>8 DEF RequestRead
  <2>9. ASSUME NEW how, CollectRead(e, b, how) PROVE FALSE
    <3>1. PICK pc : pc = IF booking[b].ticket = 0 THEN "keep" ELSE "stamp"
      OBVIOUS
    <3> QED  BY <2>1, <2>9, <3>1 DEF CollectRead
  <2> QED  BY <1>3, <2>3, <2>4, <2>5, <2>6, <2>7, <2>8, <2>9 DEF Ask
<1>4. ASSUME NEW e \in Requests, NEW t \in DOMAIN tickets, DeliverRead(e, t) \/ Paid(e, t) PROVE FALSE
  <2>1. CASE DeliverRead(e, t)
    <3>1. PICK d : d = [Idle EXCEPT !.kind = "deliver", !.pc = "resolve",
                                    !.b = tickets[t].b, !.links = {t}]
      OBVIOUS
    <3>2. d.pc = "resolve"
      BY <3>1 DEF Idle
    <3>3. Goto(e, d)
      BY <2>1, <3>1 DEF DeliverRead, Begin
    <3> QED  BY <1>1, <3>2, <3>3
  <2>2. CASE Paid(e, t)
    <3>1. PICK d : d = [Idle EXCEPT !.kind = "paid", !.pc = "stamp", !.t = t,
                                    !.b = tickets[t].b, !.put = "CONFIRMED"]
      OBVIOUS
    <3>2. d.pc = "stamp"
      BY <3>1 DEF Idle
    <3>3. Goto(e, d)
      BY <2>2, <3>1 DEF Paid, Begin
    <3> QED  BY <1>1, <3>2, <3>3
  <2> QED  BY <1>4, <2>1, <2>2
<1>5. ASSUME NEW e \in Requests, Abort(e) PROVE FALSE
  BY <1>1, <1>5, <1>i DEF Abort, Done
<1>6. ASSUME NEW e \in Requests, Work(e) PROVE Meet(c)
  <2>0. req[e] \in RequestDoc
    BY <1>0
  <2>1. CASE Meet(e)
    <3>1. \E d : Goto(e, d)
      BY <2>1 DEF Meet
    <3> QED  BY <2>1, <3>1, <1>1
  <2>2. ASSUME NEW d, Goto(e, d), d.pc # "join" PROVE FALSE
    BY <1>1, <2>2
  <2>3. CASE ~Meet(e)
    <3>1. \E d : Goto(e, d) /\ d.pc # "join"
      <4>1. CASE Release(e) \/ SetStatus(e) \/ Copy(e)
        BY <2>0, <1>i, <4>1 DEF Release, SetStatus, Copy, Done, RequestDoc
      <4>2. CASE Claim(e) \/ Check(e)
        <5>1. Done(e) \/ \E pc \in {"write", "open"} : Goto(e, [req[e] EXCEPT !.pc = pc])
          BY <4>2 DEF Claim, Check
        <5>2. ASSUME NEW pc \in {"write", "open"}, Goto(e, [req[e] EXCEPT !.pc = pc])
              PROVE  \E d : Goto(e, d) /\ d.pc # "join"
          BY <2>0, <5>2 DEF RequestDoc
        <5> QED  BY <1>i, <5>1, <5>2 DEF Done
      <4>8. CASE Arrived(e)
        <5>1. Goto(e, [req[e] EXCEPT !.pc = "copy"]) \/ Goto(e, Idle)
          BY <4>8 DEF Arrived, ThenCopy
        <5>2. [req[e] EXCEPT !.pc = "copy"].pc # "join"
          BY <2>0 DEF RequestDoc
        <5> QED  BY <1>i, <5>1, <5>2
      <4>9. CASE OpenWalkIn(e)
        <5>1. PICK r \in RequestDoc : r = req[e]
          BY <2>0
        <5>2. PICK pc, n : pc = (IF r.kind = "arrive" THEN "arrived" ELSE "adopt") /\ n = Next1
          OBVIOUS
        <5>3. Goto(e, [r EXCEPT !.pc = pc, !.t = n])
          BY <4>9, <5>1, <5>2 DEF OpenWalkIn
        <5>4. [r EXCEPT !.pc = pc, !.t = n].pc # "join"
          BY <5>1, <5>2 DEF RequestDoc
        <5> QED  BY <5>3, <5>4
      <4>31. CASE Look(e)
        <5>1. Goto(e, [req[e] EXCEPT !.pc = "file"]) \/ Goto(e, Idle)
          BY <4>31 DEF Look, Done
        <5>2. [req[e] EXCEPT !.pc = "file"].pc # "join"
          BY <2>0 DEF RequestDoc
        <5> QED  BY <1>i, <5>1, <5>2
      <4>32. CASE FileTow(e)
        <5>1. PICK r \in RequestDoc : r = req[e]
          BY <2>0
        <5>4. PICK n : n = Next1
          OBVIOUS
        <5>2. Goto(e, [r EXCEPT !.pc = "link", !.t = n])
          BY <4>32, <5>1, <5>4 DEF FileTow
        <5>3. [r EXCEPT !.pc = "link", !.t = n].pc # "join"
          BY DEF RequestDoc
        <5> QED  BY <5>2, <5>3
      <4>33. CASE LinkTow(e)
        BY <1>i, <4>33 DEF LinkTow, Done
      <4>4. CASE Resolve(e) \/ Adopt(e)
        BY <2>0, <4>4 DEF Resolve, Adopt, RequestDoc
      <4>5. CASE Find(e)
        <5>1. \E d, pc : Goto(e, d) /\ d.pc = pc /\ pc \in {"meet", "adopt", "open"}
          BY <2>0, <4>5 DEF Find, RequestDoc
        <5> QED  BY <5>1
      <4>6. CASE Join(e)
        BY <2>0, <4>6 DEF Join, ThenCopy, Idle, RequestDoc
      <4>7. CASE Charge(e) \/ StampDeposit(e) \/ KeepDeposit(e)
        BY <2>0, <4>7 DEF Charge, StampDeposit, KeepDeposit, Done, Idle, RequestDoc
      <4> QED  BY <1>6, <2>3, <4>1, <4>2, <4>31, <4>32, <4>33, <4>4, <4>5, <4>6, <4>7, <4>8, <4>9 DEF Work
    <3> QED  BY <2>2, <3>1
  <2> QED  BY <2>1, <2>3
<1>7. ASSUME Tick \/ SweepStep \/ AbortSweep \/ (\E b \in Bookings : Create(b))
             \/ (\E t \in DOMAIN tickets : CloseTicket(t))
      PROVE  FALSE
  BY <1>7 DEF Tick, SweepStep, AbortSweep, Create, CloseTicket, ListNoShows, MarkNoShow, ListArrived,
              ReleaseNoShow, AutoComplete
<1> QED  BY <1>3, <1>4, <1>5, <1>6, <1>7 DEF Next

LEMMA ArrivalHolds ==
  ASSUME IInv, ArrivalInv, [Next]_vars
  PROVE  ArrivalInv' /\ [ArrivalIsKeptStep]_vars
<1>1. CASE UNCHANGED vars
  <2>1. \A b \in Bookings : WalkInsOf(b)' = WalkInsOf(b)
    BY <1>1 DEF vars, WalkInsOf
  <2>2. ArrivalInv'
    BY <1>1, <2>1 DEF vars, ArrivalInv, Arrival, WorkTicket, Joining, Is
  <2> QED  BY <1>1, <2>2
<1>2. CASE Next
  <2>0. TicketsStay /\ \A b \in Bookings : Kept(b)
    BY <1>2, TicketsOnlyAdded, ArrivalWrites
  <2>1. ASSUME NEW b \in Bookings
        PROVE  /\ Arrival(b)'
               /\ booking[b].came => booking'[b].came
               /\ booking[b].ticket # 0 => booking'[b].ticket # 0
    <3>1. Kept(b) /\ WalkInsOf(b) \subseteq WalkInsOf(b)' /\ Arrival(b)
      BY <2>0 DEF TicketsStay, ArrivalInv
    <3>2. 0 \notin WalkInsOf(b)
      BY DEF IInv, TypeOK, WalkInsOf
    <3>3. CASE /\ booking'[b].came = booking[b].came /\ booking'[b].ticket = booking[b].ticket
               /\ booking'[b].status = "ARRIVED" => Is(b, {"ARRIVED"})
      BY <3>1, <3>3 DEF Arrival, WorkTicket, Is
    <3>4. CASE booking'[b].came /\ booking'[b].ticket \in WalkInsOf(b)
      BY <3>1, <3>2, <3>4 DEF Arrival, WorkTicket, Is
    <3> QED  BY <3>1, <3>3, <3>4 DEF Kept
  <2>2. Joining'
    <3> SUFFICES ASSUME NEW c \in Requests, req'[c].pc = "join", ~req'[c].first
                 PROVE  booking'[req'[c].b].ticket # 0
      BY DEF Joining
    <3>1. CASE req'[c] = req[c]
      <4>1. req[c].b \in Bookings /\ booking[req[c].b].ticket # 0
        BY <3>1 DEF ArrivalInv, Joining, IInv, Shape, Errand
      <4> QED  BY <3>1, <4>1, <2>1
    <3>2. CASE req'[c] # req[c]
      <4>1. Meet(c)
        BY <1>2, <3>2, JoinsAreMet
      <4>2. PICK r \in RequestDoc, x \in Bookings : r = req[c] /\ r.b = x
        BY <4>1, Working DEF Meet, At
      <4>3. PICK put, first, links, deposit :
              /\ first = (booking[x].ticket = 0)
              /\ req' = [req EXCEPT ![c] = [r EXCEPT !.pc = "join", !.put = put, !.first = first,
                                                     !.links = links, !.deposit = deposit]]
        BY <4>1, <4>2 DEF Meet, Goto
      <4>4. req'[c].b = x /\ req'[c].first = first
        BY <4>2, <4>3 DEF RequestDoc, IInv, TypeOK
      <4>5. booking' = booking
        BY <4>1 DEF Meet
      <4> QED  BY <4>3, <4>4, <4>5
    <3> QED  BY <3>1, <3>2
  <2>3. ArrivalInv'
    BY <2>1, <2>2 DEF ArrivalInv
  <2>4. ArrivalIsKeptStep
    BY <2>1 DEF ArrivalIsKeptStep, Arrival, WorkTicket, Is
  <2> QED  BY <2>3, <2>4
<1> QED  BY <1>1, <1>2

\* Whatever crosses an arrival (the sweep that listed the booking before and marks
\* it a no-show after, another check-in, a delivery, a cancel) and wherever a handler
\* dies, the arrival stays on record: arrivedAt is never cleared, and the booking
\* names a work ticket opened for it.  Nothing is excused.
THEOREM ArrivalStaysKept == Spec => ArrivalIsKept
<1>1. Init => ArrivalInv
  BY DEF Init, ArrivalInv, Arrival, WorkTicket, Joining, Unmade, Idle, Is
<1>2. IInv /\ ArrivalInv /\ [Next]_vars => ArrivalInv' /\ [ArrivalIsKeptStep]_vars
  BY ArrivalHolds
<1> QED  BY <1>1, <1>2, IInvHolds, PTL DEF Spec, ArrivalIsKept

------------------------------------------------------------------------------
(* Reminders, for any times, number of plans, losses and deliveries under way. *)

Times == Instants \cup {Never}
PlanDoc == [status : {"REQUESTED", "CONFIRMED", "CLOSED"}, at : Times, sent : BOOLEAN,
            version : 1..MaxPlans, towed : BOOLEAN]
PlannerDoc == [pc : {"idle", "arm", "enqueue"}, at : Times]
BillDoc == [due : Times, count : Nat, payable : BOOLEAN, owed : BOOLEAN, paid : BOOLEAN]
DeliveryDoc == [pc : {"idle", "push", "mark", "clear"}, plan : 0..MaxPlans,
                at : Times, task : Times, count : Nat]

RemTypeOK ==
  /\ subject \in {"booking", "bill"} /\ now \in Instants
  /\ plan \in PlanDoc /\ planner \in PlannerDoc /\ tasks \subseteq Instants
  /\ bill \in BillDoc /\ courier \in [Couriers -> DeliveryDoc]
  /\ told \in [0..MaxPlans -> Nat] /\ losses \in Nat /\ mixed \in BOOLEAN

\* No task and no delivery is about a booking before it has a plan, and a plan that is
\* being made has a time and, when it replaces another, room for its version.
Planned ==
  /\ plan.at = Never =>
       /\ plan.version = 1 /\ tasks = {} /\ planner.pc = "arm"
       /\ \A v \in 0..MaxPlans : told[v] = 0
  /\ planner.pc # "idle" => planner.at # Never
  /\ planner.pc = "arm" /\ plan.at # Never => plan.version < MaxPlans
Carries(c) ==
  ~Rests(c) =>
    IF OnBooking THEN courier[c].pc # "clear" /\ courier[c].at # Never /\ plan.at # Never
    ELSE courier[c].plan = 0
OneDelivery == \A c, d \in Couriers : ~Rests(c) /\ ~Rests(d) => c = d

\* An undisturbed delivery is about the last plan, of which the rider was not told
\* before, and which is marked once he was.
ToldOfPlan ==
  /\ \A v \in 0..MaxPlans : told[v] <= 1 /\ (v > plan.version => told[v] = 0)
  /\ ~Busied => plan.sent \/ told[plan.version] = 0
  /\ \A c \in Couriers : ~Rests(c) =>
       /\ courier[c].plan = plan.version
       /\ told[plan.version] = IF courier[c].pc = "mark" THEN 1 ELSE 0

\* A bill that is due was reminded of as often as it counts, twice at most, and an
\* undisturbed delivery has that count.
ToldOfBill ==
  /\ told[0] <= 3
  /\ ~bill.payable => bill.due = Never /\ ~Busied /\ bill.count = 0 /\ told[0] = 0
  /\ bill.due # Never => bill.count <= 2 /\ (~Busied => told[0] = bill.count)
  /\ \A c \in Couriers : ~Rests(c) =>
       /\ bill.due # Never
       /\ courier[c].pc = "clear" \/ courier[c].count = bill.count
       /\ told[0] = IF courier[c].pc = "mark" THEN bill.count + 1 ELSE bill.count
Undisturbed == ~mixed => OneDelivery /\ IF OnBooking THEN ToldOfPlan ELSE ToldOfBill

RemIInv ==
  /\ RemTypeOK /\ (OnBooking => Planned) /\ (\A c \in Couriers : Carries(c))
  /\ Undisturbed

LEMMA RemDocs ==
  /\ AtRest \in DeliveryDoc /\ Never \notin Instants /\ 1 \in 1..MaxPlans
  /\ \A v \in 1..MaxPlans : v \in 0..MaxPlans
  /\ \A t \in Instants : t \in Nat /\ t <= Horizon
BY RemindersAssumption DEF AtRest, DeliveryDoc, Times, Never, Instants

LEMMA RemStarts == RemInit => RemIInv
<1> SUFFICES ASSUME RemInit PROVE RemIInv
  OBVIOUS
<1>1. RemTypeOK
  <2>1. \A at \in Instants : Planning("arm", at) \in PlannerDoc
    BY DEF Planning, PlannerDoc, Times
  <2>2. courier \in [Couriers -> DeliveryDoc]
    BY RemDocs DEF RemInit
  <2>3. plan \in PlanDoc /\ bill \in BillDoc
    BY RemDocs DEF RemInit, PlanDoc, BillDoc, Times
  <2>4. planner \in PlannerDoc /\ now \in Instants /\ told \in [0..MaxPlans -> Nat]
    BY <2>1, RemindersAssumption DEF RemInit, Instants
  <2> QED
    BY <2>2, <2>3, <2>4 DEF RemInit, RemTypeOK
<1>2. \A c \in Couriers : Rests(c)
  BY DEF RemInit, Rests, AtRest
<1>3. ~Busied
  BY <1>2 DEF Busied, Rests
<1>4. OnBooking => Planned
  BY RemDocs DEF RemInit, Planned, Planning
<1>5. OneDelivery
  BY <1>2 DEF OneDelivery
<1>6. ToldOfPlan
  BY <1>2, RemDocs DEF RemInit, ToldOfPlan
<1>7. ToldOfBill
  <2>1. told[0] = 0
    BY RemindersAssumption DEF RemInit
  <2> QED
    BY <1>2, <1>3, <2>1 DEF RemInit, ToldOfBill
<1> QED
  BY <1>1, <1>2, <1>4, <1>5, <1>6, <1>7 DEF RemIInv, Carries, Undisturbed

LEMMA RemKept ==
  ASSUME RemIInv, UNCHANGED remVars
  PROVE  RemIInv'
BY DEF RemIInv, remVars, RemTypeOK, Planned, Carries, Rests, OnBooking, Undisturbed, OneDelivery,
       ToldOfPlan, ToldOfBill, Busied

\* A step that leaves the couriers, their mark and what was told alone.
LEMMA RemSteady ==
  ASSUME RemIInv, RemTypeOK', UNCHANGED <<subject, courier, told, mixed>>,
         OnBooking => Planned' /\ plan'.version = plan.version /\ (plan.sent => plan'.sent)
                      /\ (plan.at # Never => plan'.at # Never),
         ~OnBooking => bill'.due = bill.due /\ bill'.count = bill.count
                       /\ bill'.payable = bill.payable
  PROVE  RemIInv'
<1>1. \A c \in Couriers : Rests(c)' = Rests(c)
  BY DEF Rests
<1>2. Busied' = Busied /\ OnBooking' = OnBooking
  BY DEF Busied, OnBooking
<1>3. \A c \in Couriers : Carries(c)'
  BY <1>1, <1>2 DEF RemIInv, Carries
<1>4. OneDelivery => OneDelivery'
  BY <1>1 DEF OneDelivery
<1>5. OnBooking /\ ToldOfPlan => ToldOfPlan'
  BY <1>1, <1>2 DEF ToldOfPlan
<1>6. ~OnBooking /\ ToldOfBill => ToldOfBill'
  BY <1>1, <1>2 DEF ToldOfBill
<1> QED
  BY <1>2, <1>3, <1>4, <1>5, <1>6 DEF RemIInv, Undisturbed

LEMMA PassesKeeps == ASSUME RemIInv, Passes PROVE RemIInv'
<1>1. now' \in Instants
  BY RemindersAssumption DEF Passes, RemIInv, RemTypeOK, Instants
<1>2. RemTypeOK'
  BY <1>1 DEF Passes, RemIInv, RemTypeOK
<1>3. OnBooking => Planned'
  BY DEF Passes, RemIInv, Planned
<1> QED
  BY <1>2, <1>3, RemSteady DEF Passes

LEMMA UpdatePlanKeeps == ASSUME RemIInv, NEW at \in Instants, UpdatePlan(at) PROVE RemIInv'
<1>1. planner' \in PlannerDoc /\ planner'.pc = "arm" /\ planner'.at # Never
  BY RemDocs DEF UpdatePlan, Planning, PlannerDoc, Times
<1>2. RemTypeOK'
  BY <1>1 DEF UpdatePlan, RemIInv, RemTypeOK
<1>3. OnBooking => Planned'
  BY <1>1 DEF UpdatePlan, RemIInv, Planned
<1> QED
  BY <1>2, <1>3, RemSteady DEF UpdatePlan

LEMMA EnqueueReminderKeeps == ASSUME RemIInv, EnqueueReminder PROVE RemIInv'
<1>1. planner' \in PlannerDoc /\ planner'.pc = "idle"
  BY DEF EnqueueReminder, Planning, PlannerDoc, Times
<1>2. plan.at # Never
  BY DEF EnqueueReminder, RemIInv, Planned
<1>3. tasks' \subseteq Instants /\ losses' \in Nat
  <2>1. planner.at \in Instants
    BY DEF EnqueueReminder, RemIInv, RemTypeOK, Planned, PlannerDoc, Times
  <2> QED
    BY <2>1 DEF EnqueueReminder, RemIInv, RemTypeOK
<1>4. RemTypeOK'
  BY <1>1, <1>3 DEF EnqueueReminder, RemIInv, RemTypeOK
<1>5. OnBooking => Planned'
  BY <1>1, <1>2 DEF EnqueueReminder, RemIInv, Planned
<1> QED
  BY <1>4, <1>5, RemSteady DEF EnqueueReminder

LEMMA TowInsteadKeeps == ASSUME RemIInv, TowInstead PROVE RemIInv'
<1>1. plan' \in PlanDoc /\ plan'.version = plan.version /\ plan'.sent /\ plan'.at = plan.at
  BY DEF TowInstead, RemIInv, RemTypeOK, PlanDoc
<1>2. RemTypeOK'
  BY <1>1 DEF TowInstead, RemIInv, RemTypeOK
<1>3. OnBooking => Planned'
  BY <1>1 DEF TowInstead, RemIInv, Planned
<1> QED
  BY <1>1, <1>2, <1>3, RemSteady DEF TowInstead

LEMMA AnswerKeeps ==
  ASSUME RemIInv, NEW status \in {"CONFIRMED", "CLOSED"}, Answer(status) PROVE RemIInv'
<1>1. plan' \in PlanDoc /\ plan'.version = plan.version /\ plan'.sent = plan.sent /\ plan'.at = plan.at
  BY DEF Answer, RemIInv, RemTypeOK, PlanDoc
<1>2. RemTypeOK'
  BY <1>1 DEF Answer, RemIInv, RemTypeOK
<1>3. OnBooking => Planned'
  BY <1>1 DEF Answer, RemIInv, Planned
<1> QED
  BY <1>1, <1>2, <1>3, RemSteady DEF Answer

LEMMA SettleKeeps == ASSUME RemIInv, Settle PROVE RemIInv'
<1>1. bill' \in BillDoc /\ bill'.due = bill.due /\ bill'.count = bill.count /\ bill'.payable = bill.payable
  BY DEF Settle, RemIInv, RemTypeOK, BillDoc
<1>2. RemTypeOK'
  BY <1>1 DEF Settle, RemIInv, RemTypeOK
<1> QED
  BY <1>1, <1>2, RemSteady DEF Settle

LEMMA SchedulePaymentReminderKeeps == ASSUME RemIInv, SchedulePaymentReminder PROVE RemIInv'
<1>1. /\ bill' \in BillDoc /\ bill'.payable /\ bill'.count = bill.count
  <2>1. now < Horizon => now + 1 \in Times
    BY RemindersAssumption DEF RemIInv, RemTypeOK, Instants, Times
  <2> QED
    BY <2>1 DEF SchedulePaymentReminder, RemIInv, RemTypeOK, BillDoc, Times
<1>2. RemTypeOK'
  BY <1>1 DEF SchedulePaymentReminder, RemIInv, RemTypeOK
<1>3. ~OnBooking /\ UNCHANGED <<courier, told, mixed, subject>> /\ ~bill.payable
  BY DEF SchedulePaymentReminder
<1>4. (\A c \in Couriers : Rests(c)' = Rests(c)) /\ Busied' = Busied /\ OnBooking' = OnBooking
  BY <1>3 DEF Rests, Busied, OnBooking
<1>5. \A c \in Couriers : Carries(c)'
  BY <1>3, <1>4 DEF RemIInv, Carries
<1>6. OneDelivery => OneDelivery'
  BY <1>4 DEF OneDelivery
<1>7. ToldOfBill => ToldOfBill'
  <2>1. ToldOfBill => \A c \in Couriers : Rests(c)
    BY <1>3 DEF ToldOfBill, Busied, Rests
  <2> QED
    BY <1>1, <1>3, <1>4, <2>1 DEF ToldOfBill
<1> QED
  BY <1>2, <1>3, <1>4, <1>5, <1>6, <1>7 DEF RemIInv, Undisturbed

LEMMA ArmReminderKeeps == ASSUME RemIInv, ArmReminder PROVE RemIInv'
<1>1. PICK version : version = IF plan.at = Never THEN 1 ELSE plan.version + 1
  OBVIOUS
<1>2. version \in 1..MaxPlans /\ (plan.at # Never => version > plan.version)
  <2>1. plan.version \in 1..MaxPlans /\ Planned /\ planner.pc = "arm"
    BY DEF ArmReminder, RemIInv, RemTypeOK, PlanDoc
  <2>2. plan.at # Never => plan.version < MaxPlans
    BY <2>1 DEF Planned
  <2> QED
    BY <1>1, <2>1, <2>2, RemindersAssumption
<1>3. plan' = [plan EXCEPT !.at = planner.at, !.sent = FALSE, !.towed = FALSE, !.version = version]
  BY <1>1 DEF ArmReminder
<1>4. plan' \in PlanDoc /\ plan'.version = version /\ plan'.at # Never
  BY <1>2, <1>3 DEF ArmReminder, RemIInv, RemTypeOK, Planned, PlanDoc, PlannerDoc
<1>5. planner' \in PlannerDoc /\ planner'.pc = "enqueue" /\ planner'.at # Never
  BY DEF ArmReminder, RemIInv, RemTypeOK, Planned, PlannerDoc, Planning
<1>6. RemTypeOK'
  BY <1>4, <1>5 DEF ArmReminder, RemIInv, RemTypeOK
<1>7. (\A c \in Couriers : Rests(c)' = Rests(c)) /\ Busied' = Busied /\ OnBooking' /\ OnBooking
  BY DEF ArmReminder, Rests, Busied, OnBooking
<1>8. Planned'
  BY <1>4, <1>5 DEF Planned
<1>9. \A c \in Couriers : Carries(c)'
  BY <1>4, <1>7 DEF ArmReminder, RemIInv, Carries
<1>10. ASSUME ~mixed' PROVE OneDelivery' /\ ToldOfPlan'
  <2>1. ~mixed /\ ~Busied /\ ToldOfPlan /\ OneDelivery
    BY <1>7, <1>10 DEF ArmReminder, RemIInv, RemTypeOK, Undisturbed
  <2>2. told[version] = 0
    BY <1>1, <1>2, <2>1, RemDocs DEF ArmReminder, RemIInv, Planned, ToldOfPlan
  <2>3. \A v \in 0..MaxPlans : v > version => told[v] = 0
    BY <1>1, <1>2, <2>1 DEF ArmReminder, RemIInv, RemTypeOK, PlanDoc, Planned, ToldOfPlan
  <2>4. \A c \in Couriers : Rests(c)
    BY <2>1 DEF Busied, Rests
  <2> QED
    BY <1>4, <1>7, <2>1, <2>2, <2>3, <2>4 DEF ArmReminder, ToldOfPlan, OneDelivery
<1> QED
  BY <1>6, <1>7, <1>8, <1>9, <1>10 DEF RemIInv, Undisturbed

\* A courier begins a delivery: the others rest, or the behaviour is disturbed.
LEMMA Departs ==
  ASSUME RemIInv, RemTypeOK', NEW c \in Couriers, NEW d \in DeliveryDoc, Rests(c), Send(c, d), Setting,
         UNCHANGED <<subject, plan, planner, bill, told>>, tasks' \subseteq tasks,
         IF OnBooking
         THEN d.pc = "push" /\ d.plan = plan.version /\ d.at # Never /\ plan.at # Never /\ ~plan.sent
         ELSE d.pc \in {"push", "clear"} /\ d.plan = 0 /\ d.count = bill.count /\ bill.due # Never
  PROVE  RemIInv'
<1>1. /\ courier'[c] = d /\ ~Rests(c)'
      /\ \A e \in Couriers \ {c} : courier'[e] = courier[e] /\ Rests(e)' = Rests(e)
  BY DEF RemIInv, RemTypeOK, Send, Rests
<1>2. OnBooking' = OnBooking /\ Busied'
  BY <1>1 DEF OnBooking, Busied, Rests
<1>3. \A e \in Couriers : Carries(e)'
  BY <1>1, <1>2 DEF RemIInv, Carries
<1>4. OnBooking => Planned'
  BY DEF RemIInv, Planned
<1>5. ASSUME ~mixed' PROVE OneDelivery' /\ IF OnBooking THEN ToldOfPlan' ELSE ToldOfBill'
  <2>1. ~mixed /\ ~Busied
    BY <1>5 DEF Setting, RemIInv, RemTypeOK
  <2>2. \A e \in Couriers : Rests(e)
    BY <2>1 DEF Busied, Rests
  <2>3. OneDelivery'
    BY <1>1, <2>2 DEF OneDelivery
  <2>4. OnBooking => ToldOfPlan'
    BY <1>1, <1>2, <2>1, <2>2 DEF RemIInv, Undisturbed, ToldOfPlan
  <2>5. ~OnBooking => ToldOfBill'
    BY <1>1, <1>2, <2>1, <2>2 DEF RemIInv, Undisturbed, ToldOfBill
  <2> QED
    BY <2>3, <2>4, <2>5
<1> QED
  BY <1>2, <1>3, <1>4, <1>5 DEF RemIInv, Undisturbed

LEMMA DeliverTaskKeeps ==
  ASSUME RemIInv, NEW c \in Couriers, NEW at \in tasks, DeliverTask(c, at) PROVE RemIInv'
<1>1. OnBooking /\ tasks' = tasks \ {at} /\ plan.at # Never /\ Rests(c)
  BY DEF DeliverTask, RemIInv, Planned
<1>2. CASE Remindable
  <2>1. PICK d : d = [AtRest EXCEPT !.pc = "push", !.plan = plan.version, !.at = plan.at, !.task = at]
    OBVIOUS
  <2>2. Send(c, d) /\ Setting
    BY <1>2, <2>1 DEF DeliverTask
  <2>3. d \in DeliveryDoc /\ d.pc = "push" /\ d.plan = plan.version /\ d.at = plan.at
    BY <2>1, RemDocs DEF RemIInv, RemTypeOK, AtRest, DeliveryDoc, PlanDoc, Times
  <2>4. courier' \in [Couriers -> DeliveryDoc] /\ mixed' \in BOOLEAN
    BY <2>2, <2>3 DEF Send, Setting, Busied, RemIInv, RemTypeOK
  <2>5. RemTypeOK'
    BY <1>1, <2>4 DEF DeliverTask, RemIInv, RemTypeOK
  <2> QED
    BY <1>1, <1>2, <2>2, <2>3, <2>5, Departs DEF DeliverTask, Remindable
<1>3. CASE ~Remindable
  <2>1. RemTypeOK'
    BY <1>1, <1>3 DEF DeliverTask, RemIInv, RemTypeOK
  <2>2. Planned'
    BY <1>1, <1>3 DEF DeliverTask, RemIInv, Planned
  <2> QED
    BY <1>1, <1>3, <2>1, <2>2, RemSteady DEF DeliverTask
<1> QED
  BY <1>2, <1>3

LEMMA SweepReminderKeeps == ASSUME RemIInv, NEW c \in Couriers, SweepReminder(c) PROVE RemIInv'
<1>1. PICK d : d = [AtRest EXCEPT !.pc = "push", !.plan = plan.version, !.at = plan.at]
  OBVIOUS
<1>2. Send(c, d) /\ Setting /\ OnBooking /\ Rests(c) /\ ~plan.sent
  BY <1>1 DEF SweepReminder, ReminderDue
<1>3. d \in DeliveryDoc /\ d.pc = "push" /\ d.plan = plan.version /\ d.at = plan.at
  BY <1>1, RemDocs DEF RemIInv, RemTypeOK, AtRest, DeliveryDoc, PlanDoc, Times
<1>4. plan.at # Never
  BY RemDocs, RemindersAssumption DEF SweepReminder, ReminderDue, RemIInv, RemTypeOK, Never, Instants
<1>5. courier' \in [Couriers -> DeliveryDoc] /\ mixed' \in BOOLEAN
  BY <1>2, <1>3 DEF Send, Setting, Busied, RemIInv, RemTypeOK
<1>6. RemTypeOK'
  BY <1>5 DEF SweepReminder, RemIInv, RemTypeOK
<1> QED
  BY <1>2, <1>3, <1>4, <1>6, Departs DEF SweepReminder

LEMMA SweepPaymentKeeps == ASSUME RemIInv, NEW c \in Couriers, SweepPayment(c) PROVE RemIInv'
<1>1. PICK d : d = [AtRest EXCEPT !.pc = IF bill.paid \/ ~bill.owed THEN "clear" ELSE "push",
                                  !.count = bill.count]
  OBVIOUS
<1>2. Send(c, d) /\ Setting /\ ~OnBooking /\ Rests(c)
  BY <1>1 DEF SweepPayment
<1>3. d \in DeliveryDoc /\ d.pc \in {"push", "clear"} /\ d.plan = 0 /\ d.count = bill.count
  <2>1. 0 \in 0..MaxPlans
    BY RemindersAssumption
  <2> QED
    BY <1>1, <2>1, RemDocs DEF RemIInv, RemTypeOK, AtRest, DeliveryDoc, BillDoc, Times
<1>4. bill.due # Never
  BY RemDocs, RemindersAssumption DEF SweepPayment, RemIInv, RemTypeOK, Never, Instants
<1>5. courier' \in [Couriers -> DeliveryDoc] /\ mixed' \in BOOLEAN
  BY <1>2, <1>3 DEF Send, Setting, Busied, RemIInv, RemTypeOK
<1>6. RemTypeOK'
  BY <1>5 DEF SweepPayment, RemIInv, RemTypeOK
<1> QED
  BY <1>2, <1>3, <1>4, <1>6, Departs DEF SweepPayment

\* A courier ends, or goes on, with what it carries.
LEMMA Moved ==
  ASSUME RemIInv, NEW c \in Couriers, NEW d \in DeliveryDoc, Send(c, d), UNCHANGED subject
  PROVE  /\ courier'[c] = d /\ (Rests(c)' <=> d.pc = "idle") /\ OnBooking' = OnBooking
         /\ courier' \in [Couriers -> DeliveryDoc]
         /\ \A e \in Couriers \ {c} : courier'[e] = courier[e] /\ Rests(e)' = Rests(e)
BY DEF RemIInv, RemTypeOK, Send, Rests, OnBooking

LEMMA RestIsDelivery == AtRest \in DeliveryDoc /\ AtRest.pc = "idle"
BY RemDocs DEF AtRest

LEMMA ClearReminderKeeps == ASSUME RemIInv, NEW c \in Couriers, ClearReminder(c) PROVE RemIInv'
<1>1. /\ Send(c, AtRest) /\ UNCHANGED <<subject, plan, planner, tasks, told, mixed>>
      /\ ~OnBooking /\ ~Rests(c)
  BY DEF ClearReminder, RemIInv, Carries, Rests
<1>2. /\ courier'[c] = AtRest /\ Rests(c)' /\ OnBooking' = OnBooking
      /\ courier' \in [Couriers -> DeliveryDoc]
      /\ \A e \in Couriers \ {c} : courier'[e] = courier[e] /\ Rests(e)' = Rests(e)
  BY <1>1, RestIsDelivery, Moved
<1>3. bill' \in BillDoc /\ bill'.due = Never /\ bill'.count = 0 /\ bill'.payable = bill.payable
  BY DEF ClearReminder, RemIInv, RemTypeOK, BillDoc, Times
<1>4. RemTypeOK'
  BY <1>1, <1>2, <1>3 DEF ClearReminder, RemIInv, RemTypeOK
<1>5. \A e \in Couriers : Carries(e)'
  BY <1>1, <1>2 DEF RemIInv, Carries
<1>6. ASSUME ~mixed PROVE OneDelivery' /\ ToldOfBill'
  <2>1. OneDelivery /\ ToldOfBill
    BY <1>1, <1>6 DEF RemIInv, Undisturbed
  <2>2. (\A e \in Couriers : Rests(e)') /\ ~Busied'
    BY <1>1, <1>2, <2>1 DEF OneDelivery, Busied, Rests
  <2>3. told[0] <= 3 /\ bill.payable
    BY <1>1, <2>1 DEF ToldOfBill
  <2> QED
    BY <1>1, <1>3, <2>2, <2>3 DEF OneDelivery, ToldOfBill
<1> QED
  BY <1>1, <1>2, <1>4, <1>5, <1>6 DEF RemIInv, Undisturbed

LEMMA PushKeeps == ASSUME RemIInv, NEW c \in Couriers, Push(c) PROVE RemIInv'
<1>1. PICK d : d = [courier[c] EXCEPT !.pc = "mark"]
  OBVIOUS
<1>2. /\ courier[c] \in DeliveryDoc /\ courier[c].pc = "push" /\ ~Rests(c)
      /\ d \in DeliveryDoc /\ d.pc = "mark"
      /\ d.plan = courier[c].plan /\ d.at = courier[c].at /\ d.count = courier[c].count
  BY <1>1 DEF Push, RemIInv, RemTypeOK, DeliveryDoc, Rests
<1>3. /\ Send(c, d) /\ UNCHANGED <<subject, now, plan, planner, tasks, names, bill, losses, mixed>>
      /\ told' = [told EXCEPT ![d.plan] = @ + 1]
  BY <1>1, <1>2 DEF Push
<1>4. /\ courier'[c] = d /\ ~Rests(c)' /\ OnBooking' = OnBooking
      /\ courier' \in [Couriers -> DeliveryDoc]
      /\ \A e \in Couriers \ {c} : courier'[e] = courier[e] /\ Rests(e)' = Rests(e)
  BY <1>2, <1>3, Moved
<1>5. d.plan \in 0..MaxPlans /\ told \in [0..MaxPlans -> Nat]
  BY <1>2 DEF RemIInv, RemTypeOK, DeliveryDoc
<1>6. told' \in [0..MaxPlans -> Nat] /\ told'[d.plan] = told[d.plan] + 1
  BY <1>3, <1>5
<1>7. RemTypeOK'
  BY <1>3, <1>4, <1>6 DEF RemIInv, RemTypeOK
<1>8. \A e \in Couriers : Carries(e)'
  BY <1>2, <1>3, <1>4 DEF RemIInv, Carries
<1>9. OnBooking => Planned'
  <2>1. OnBooking => plan.at # Never /\ Planned
    BY <1>2 DEF RemIInv, Carries
  <2> QED
    BY <1>3, <2>1 DEF Planned
<1>10. ASSUME ~mixed PROVE OneDelivery' /\ IF OnBooking THEN ToldOfPlan' ELSE ToldOfBill'
  <2>1. OneDelivery /\ (\A e \in Couriers \ {c} : Rests(e))
    BY <1>2, <1>10 DEF RemIInv, Undisturbed, OneDelivery
  <2>2. OneDelivery' /\ Busied'
    BY <1>4, <2>1 DEF OneDelivery, Busied, Rests
  <2>3. ASSUME OnBooking PROVE ToldOfPlan'
    <3>1. ToldOfPlan /\ d.plan = plan.version /\ told[d.plan] = 0
      BY <1>2, <1>10, <2>3 DEF RemIInv, Undisturbed, ToldOfPlan
    <3>2. told'[plan.version] = 1 /\ \A v \in 0..MaxPlans : v # plan.version => told'[v] = told[v]
      BY <1>3, <1>5, <3>1
    <3>3. \A v \in 0..MaxPlans : told'[v] <= 1 /\ (v > plan'.version => told'[v] = 0)
      BY <1>3, <3>1, <3>2 DEF ToldOfPlan, RemIInv, RemTypeOK, PlanDoc
    <3> QED
      BY <1>2, <1>3, <1>4, <2>1, <2>2, <3>1, <3>2, <3>3 DEF ToldOfPlan
  <2>4. ASSUME ~OnBooking PROVE ToldOfBill'
    <3>1. ToldOfBill /\ d.plan = 0
      BY <1>2, <1>10, <2>4 DEF RemIInv, Undisturbed, Carries
    <3>2. bill.due # Never /\ bill.count <= 2 /\ bill.count \in Nat /\ told[0] = bill.count
      BY <1>2, <3>1 DEF ToldOfBill, RemIInv, RemTypeOK, BillDoc
    <3>3. told'[0] = bill.count + 1 /\ courier[c].count = bill.count /\ bill.payable
      BY <1>2, <1>6, <3>1, <3>2 DEF ToldOfBill
    <3> QED
      BY <1>2, <1>3, <1>4, <2>1, <2>2, <3>2, <3>3 DEF ToldOfBill
  <2> QED
    BY <2>2, <2>3, <2>4
<1> QED
  BY <1>3, <1>4, <1>7, <1>8, <1>9, <1>10 DEF RemIInv, Undisturbed

\* What the delivery of a courier that ends leaves of the couriers.
LEMMA Handed ==
  ASSUME RemIInv, NEW c \in Couriers, ~Rests(c), Send(c, AtRest), UNCHANGED subject
  PROVE  /\ OnBooking' = OnBooking /\ courier' \in [Couriers -> DeliveryDoc]
         /\ \A e \in Couriers : Rests(e)' \/ (e # c /\ courier'[e] = courier[e] /\ ~Rests(e))
         /\ ~mixed => OneDelivery' /\ ~Busied' /\ \A e \in Couriers : Rests(e)'
<1>1. /\ courier'[c] = AtRest /\ Rests(c)' /\ OnBooking' = OnBooking
      /\ courier' \in [Couriers -> DeliveryDoc]
      /\ \A e \in Couriers \ {c} : courier'[e] = courier[e] /\ Rests(e)' = Rests(e)
  BY RestIsDelivery, Moved
<1>2. ASSUME ~mixed PROVE \A e \in Couriers : Rests(e)'
  BY <1>1, <1>2 DEF RemIInv, Undisturbed, OneDelivery
<1> QED
  BY <1>1, <1>2 DEF OneDelivery, Busied, Rests

LEMMA MarkKeeps == ASSUME RemIInv, NEW c \in Couriers, Mark(c) PROVE RemIInv'
<1>1. /\ ~Rests(c) /\ Send(c, AtRest) /\ courier[c].pc = "mark" /\ courier[c] \in DeliveryDoc
      /\ UNCHANGED <<subject, now, planner, tasks, names, told, losses, mixed>>
  BY DEF Mark, Rests, RemIInv, RemTypeOK
<1>2. /\ OnBooking' = OnBooking /\ courier' \in [Couriers -> DeliveryDoc]
      /\ \A e \in Couriers : Rests(e)' \/ (e # c /\ courier'[e] = courier[e] /\ ~Rests(e))
      /\ ~mixed => OneDelivery' /\ ~Busied' /\ \A e \in Couriers : Rests(e)'
  BY <1>1, Handed
<1>3. CASE OnBooking
  <2>1. /\ plan' \in PlanDoc /\ plan'.at = courier[c].at /\ plan'.sent /\ plan'.version = plan.version
        /\ bill' = bill /\ courier[c].at # Never /\ plan.at # Never
    BY <1>1, <1>3 DEF Mark, RemIInv, RemTypeOK, PlanDoc, DeliveryDoc, Carries
  <2>2. RemTypeOK'
    BY <1>1, <1>2, <2>1 DEF RemIInv, RemTypeOK
  <2>3. Planned'
    BY <1>1, <1>3, <2>1 DEF RemIInv, Planned
  <2>4. \A e \in Couriers : Carries(e)'
    BY <1>2, <1>3, <2>1 DEF RemIInv, Carries
  <2>5. ASSUME ~mixed PROVE ToldOfPlan'
    BY <1>1, <1>2, <1>3, <2>1, <2>5 DEF RemIInv, Undisturbed, ToldOfPlan
  <2> QED
    BY <1>1, <1>2, <1>3, <2>2, <2>3, <2>4, <2>5 DEF RemIInv, Undisturbed
<1>4. CASE ~OnBooking
  <2>1. PICK count : count = courier[c].count + 1
    OBVIOUS
  <2>2. /\ count \in Nat /\ plan' = plan
        /\ bill' = [bill EXCEPT !.due = NextDelay(count), !.count = count]
    BY <1>1, <1>4, <2>1 DEF Mark, DeliveryDoc
  <2>3. NextDelay(count) \in Times /\ (NextDelay(count) # Never => count <= 2)
    BY <2>2, RemindersAssumption DEF NextDelay, RemIInv, RemTypeOK, Times, Instants
  <2>4. /\ bill' \in BillDoc /\ bill'.due = NextDelay(count) /\ bill'.count = count
        /\ bill'.payable = bill.payable
    BY <2>2, <2>3 DEF RemIInv, RemTypeOK, BillDoc
  <2>5. RemTypeOK'
    BY <1>1, <1>2, <2>2, <2>4 DEF RemIInv, RemTypeOK
  <2>6. \A e \in Couriers : Carries(e)'
    BY <1>2, <1>4 DEF RemIInv, Carries
  <2>7. ASSUME ~mixed PROVE ToldOfBill'
    <3>1. ToldOfBill
      BY <1>4, <2>7 DEF RemIInv, Undisturbed
    <3>2. told[0] = count /\ told[0] <= 3 /\ bill.payable
      BY <1>1, <2>1, <3>1 DEF ToldOfBill
    <3> QED
      BY <1>1, <1>2, <2>3, <2>4, <2>7, <3>2 DEF ToldOfBill
  <2> QED
    BY <1>1, <1>2, <1>4, <2>5, <2>6, <2>7 DEF RemIInv, Undisturbed
<1> QED
  BY <1>3, <1>4

LEMMA LoseKeeps == ASSUME RemIInv, NEW c \in Couriers, Lose(c) PROVE RemIInv'
<1>1. /\ ~Rests(c) /\ Send(c, AtRest) /\ courier[c] \in DeliveryDoc
      /\ UNCHANGED <<subject, now, plan, planner, names, bill, told>>
      /\ mixed' = (mixed \/ courier[c].pc = "mark")
  BY DEF Lose, RemIInv, RemTypeOK
<1>2. /\ OnBooking' = OnBooking /\ courier' \in [Couriers -> DeliveryDoc]
      /\ \A e \in Couriers : Rests(e)' \/ (e # c /\ courier'[e] = courier[e] /\ ~Rests(e))
      /\ ~mixed => OneDelivery' /\ ~Busied' /\ \A e \in Couriers : Rests(e)'
  BY <1>1, Handed
<1>3. RemTypeOK'
  <2>1. losses' \in Nat /\ tasks' \subseteq Instants /\ mixed' \in BOOLEAN
    BY <1>1 DEF Lose, RemIInv, RemTypeOK, DeliveryDoc, Times
  <2> QED
    BY <1>1, <1>2, <2>1 DEF RemIInv, RemTypeOK
<1>4. \A e \in Couriers : Carries(e)'
  BY <1>1, <1>2 DEF RemIInv, Carries
<1>5. OnBooking => Planned'
  <2>1. OnBooking => plan.at # Never /\ Planned
    BY <1>1 DEF RemIInv, Carries
  <2> QED
    BY <1>1, <2>1 DEF Planned
<1>6. ASSUME ~mixed' PROVE OneDelivery' /\ IF OnBooking THEN ToldOfPlan' ELSE ToldOfBill'
  <2>1. ~mixed /\ courier[c].pc # "mark"
    BY <1>1, <1>6 DEF RemIInv, RemTypeOK
  <2>2. OnBooking => ToldOfPlan'
    BY <1>1, <1>2, <2>1 DEF RemIInv, Undisturbed, ToldOfPlan
  <2>3. ~OnBooking => ToldOfBill'
    BY <1>1, <1>2, <2>1 DEF RemIInv, Undisturbed, ToldOfBill
  <2> QED
    BY <1>2, <2>1, <2>2, <2>3
<1> QED
  BY <1>2, <1>3, <1>4, <1>5, <1>6 DEF RemIInv, Undisturbed

LEMMA RemindersInvariant == RemSpec => []RemIInv
<1>1. RemIInv /\ [RemNext]_remVars => RemIInv'
  <2> SUFFICES ASSUME RemIInv, [RemNext]_remVars PROVE RemIInv'
    OBVIOUS
  <2>1. CASE UNCHANGED remVars
    BY <2>1, RemKept
  <2>2. CASE \/ Passes \/ ArmReminder \/ EnqueueReminder \/ TowInstead
             \/ SchedulePaymentReminder \/ Settle
    BY <2>2, PassesKeeps, ArmReminderKeeps, EnqueueReminderKeeps, TowInsteadKeeps,
       SchedulePaymentReminderKeeps, SettleKeeps
  <2>3. CASE \E at \in Instants : UpdatePlan(at)
    BY <2>3, UpdatePlanKeeps
  <2>4. CASE \E status \in {"CONFIRMED", "CLOSED"} : Answer(status)
    BY <2>4, AnswerKeeps
  <2>5. ASSUME NEW c \in Couriers,
               \/ \E at \in tasks : DeliverTask(c, at)
               \/ SweepReminder(c) \/ SweepPayment(c) \/ ClearReminder(c)
               \/ Push(c) \/ Mark(c) \/ Lose(c)
        PROVE  RemIInv'
    BY <2>5, DeliverTaskKeeps, SweepReminderKeeps, SweepPaymentKeeps, ClearReminderKeeps,
       PushKeeps, MarkKeeps, LoseKeeps
  <2> QED
    BY <2>1, <2>2, <2>3, <2>4, <2>5 DEF RemNext
<1> QED
  BY <1>1, RemStarts, PTL DEF RemSpec

\* However tasks, sweeps, new plans, answers and deaths interleave, a rider is told
\* once of each plan of a booking and three times of a bill at most, unless a
\* delivery overlapped another writer or died after its push: the mark and the count
\* that a delivery read are what it relies on (sendReminderForBooking,
\* sweepPaymentReminders).
THEOREM RidersToldEnough == RemSpec => []ToldEnough
<1>1. RemIInv => ToldEnough
  BY DEF RemIInv, RemTypeOK, Undisturbed, ToldOfPlan, ToldOfBill, ToldEnough
<1> QED
  BY <1>1, RemindersInvariant, PTL
==============================================================================
