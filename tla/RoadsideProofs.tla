--------------------------- MODULE RoadsideProofs ---------------------------
(* Proofs about what surrounds a tow, for any helpers, shops, records and     *)
(* calls: the rooms of a ticket or a hazard (Chat), the drop-off (DropOff),    *)
(* the directory of who may take a ticket, with its ratings (Providers,        *)
(* Ratings), and the fare of the tow (TowFare), for any rates and distances.   *)
EXTENDS Chat, DropOff, Ratings, TowFare, FiniteSetTheorems, WellFoundedInduction, TLAPS

------------------------------------------------------------------------------
(* The rooms *)

Calls == Talkers \cup {Server}
Stages == {"idle", "find", "join", "create", "check", "write", "push",
           "event", "look", "archive", "clear"}
JobDoc == [status : {"PENDING", "MATCHED", "CLOSED"}, assigned : Helpers \cup {Nobody},
           version : Versions]
RoomDoc == [exists : BOOLEAN, members : SUBSET Talkers, closed : BOOLEAN]
CallDoc == [op : {"none", "accept", "cancel", "decline"}, pc : Stages, version : Versions,
            with : SUBSET Talkers, closed : BOOLEAN]

ChatTypeOK ==
  /\ scope \in {"TOW", "SOS", "HAZARD"} /\ job \in JobDoc
  /\ rooms \in [Versions -> RoomDoc] /\ messages \in [Versions -> SUBSET SUBSET Helpers]
  /\ call \in [Calls -> CallDoc] /\ sweep.on \in BOOLEAN
  /\ joined \subseteq Talkers /\ kept \in BOOLEAN /\ replaced \in BOOLEAN /\ unheard \in BOOLEAN

\* Each version of a ticket has one provider at most, or Nobody yet, and what
\* is in its room, under it, or on its way there is his and the rider's.
Fit(p) == {Rider, p} \ {Nobody}
Private(who) ==
  /\ \A v \in Versions : rooms[v].members \subseteq Fit(who[v])
  /\ \A v \in Versions : \A m \in messages[v] : m \subseteq Fit(who[v]) \ {Rider}
  /\ \A c \in Calls : call[c].with \subseteq Fit(who[call[c].version])
  /\ job.assigned \in {Nobody, who[job.version]}
  /\ \A v \in Versions : v > job.version => who[v] = Nobody
  /\ job.status = "PENDING" => who[job.version] = Nobody
Tenants == [Versions -> Helpers \cup {Nobody}]
PrivateInv == ~kept /\ ~OnHazard => \E who \in Tenants : Private(who)

\* The handler that gives a ticket back still has the version it is of.
ServerSound(d) ==
  /\ d.pc \in {"idle", "event", "create", "write", "look", "archive", "clear"}
  /\ d.pc # "idle" => ~OnHazard /\ d.op \in {"accept", "cancel", "decline"}
  /\ d.op = "accept" => d.pc \in {"event", "create", "write"}
  /\ d.pc # "idle" /\ d.op # "accept" => d.version = job.version /\ job.version < LastVersion

\* A call that found its room is in it with everyone it is meant for.
CallSound(c, d) ==
  /\ c # Server => d.pc \in {"idle", "find", "join", "create", "check", "write", "push"}
  /\ OnHazard => d.version = 0 /\ (d.pc # "idle" => d.with = {c}) /\ d.pc # "check"
  /\ ~OnHazard /\ ~replaced /\ c # Server /\ d.pc \in {"check", "write", "push"} =>
       rooms[d.version].exists /\ d.with \subseteq rooms[d.version].members

\* Everyone let into a hazard's room is in it while the hazard lives.
HazardInv ==
  /\ OnHazard => job.version = 0 /\ job.status # "MATCHED"
  /\ OnHazard /\ Live /\ ~replaced => joined \subseteq rooms[0].members
  /\ sweep.on => OnHazard /\ ~Live
NoGhosts == \A v \in Versions : ~rooms[v].exists => rooms[v].members = {}

ChatIInv ==
  /\ ChatTypeOK /\ PrivateInv /\ ServerSound(call[Server])
  /\ (\A c \in Calls : CallSound(c, call[c]))
  /\ HazardInv /\ NoGhosts /\ MeantAreTold

LEMMA Roles ==
  /\ Nobody # Rider /\ Nobody \notin Helpers /\ Rider \notin Helpers
  /\ Server \notin Talkers /\ Server \in Calls /\ Talkers \subseteq Calls
  /\ Rider \in Talkers /\ Helpers \subseteq Talkers
  /\ 0 \in Versions /\ Versions \subseteq Nat
  BY ChatAssumption DEF Calls, Talkers, Versions

LEMMA EmptyRecords ==
  /\ NoCall \in CallDoc /\ NoCall.op = "none" /\ NoCall.pc = "idle" /\ NoCall.version = 0
  /\ NoCall.with = {} /\ NoCall.closed = FALSE
  /\ NoRoom \in RoomDoc /\ NoRoom.exists = FALSE /\ NoRoom.members = {}
  BY Roles DEF NoCall, NoRoom, CallDoc, RoomDoc, Stages

LEMMA InitChatIInv == ChatInit => ChatIInv
<1> SUFFICES ASSUME ChatInit PROVE ChatIInv
  OBVIOUS
<1>1. ChatTypeOK
  BY Roles, EmptyRecords DEF ChatInit, ChatTypeOK, JobDoc, Calls, NoSweep
<1>2. job.version = 0 /\ job.assigned = Nobody /\ job.status = "PENDING"
  BY DEF ChatInit
<1>3. Private([v \in Versions |-> Nobody])
  BY <1>2, Roles, EmptyRecords DEF ChatInit, Private, Calls
<1>4. [v \in Versions |-> Nobody] \in Tenants
  BY DEF Tenants
<1>5. call[Server] = NoCall /\ \A c \in Calls : call[c] = NoCall
  BY Roles DEF ChatInit, Calls
<1>6. ServerSound(call[Server])
  BY <1>5, EmptyRecords DEF ServerSound
<1>7. \A c \in Calls : CallSound(c, call[c])
  BY <1>5, EmptyRecords DEF CallSound
<1>8. HazardInv /\ NoGhosts /\ MeantAreTold
  BY <1>2, Roles, EmptyRecords DEF ChatInit, HazardInv, NoGhosts, MeantAreTold, NoSweep
<1> QED
  BY <1>1, <1>3, <1>4, <1>6, <1>7, <1>8 DEF ChatIInv, PrivateInv

\* What a step of one call u, which becomes d, may do.
Elsewhere == UNCHANGED <<scope, job, sweep, kept>>
Shapes ==
  /\ rooms' \in [Versions -> RoomDoc] /\ messages' \in [Versions -> SUBSET SUBSET Helpers]
  /\ joined' \subseteq Talkers /\ replaced' \in BOOLEAN /\ unheard' \in BOOLEAN
\* Rooms gain the call's people at the call's version, and lose nobody unless replaced.
RoomsGain(u) ==
  /\ \A v \in Versions : rooms[v].exists => rooms'[v].exists
  /\ ~replaced' => ~replaced /\ \A v \in Versions : rooms[v].members \subseteq rooms'[v].members
  /\ \A v \in Versions :
       rooms'[v].members \subseteq rooms[v].members
                                   \cup (IF v = call[u].version THEN call[u].with ELSE {})
Says(u) ==
  \A v \in Versions :
    messages'[v] \subseteq messages[v]
                           \cup (IF v = call[u].version THEN {call[u].with \ {Rider}} ELSE {})
\* The call is for the same people at the same version, or for today's parties.
MeantFor(u, d) ==
  \/ d.with = {} \/ (d.version = call[u].version /\ d.with = call[u].with)
  \/ d.version = job.version /\ d.with = Parties
Lets == OnHazard /\ Live /\ ~replaced' => joined' \subseteq rooms'[0].members

LEMMA CallStep ==
  ASSUME ChatIInv, NEW u \in Calls, NEW d \in CallDoc, call' = [call EXCEPT ![u] = d],
         Elsewhere, Shapes, RoomsGain(u), Says(u), ~OnHazard => MeantFor(u, d),
         CallSound(u, d)', u = Server => ServerSound(d), Lets, NoGhosts', MeantAreTold'
  PROVE  ChatIInv'
<1>1. ChatTypeOK'
  BY DEF ChatIInv, ChatTypeOK, Elsewhere, Shapes
<1>2. call'[u] = d /\ \A c \in Calls : c # u => call'[c] = call[c]
  BY DEF ChatIInv, ChatTypeOK
<1>3. PrivateInv'
  <2> SUFFICES ASSUME ~kept, ~OnHazard PROVE \E who \in Tenants : Private(who)'
    BY DEF PrivateInv, Elsewhere, OnHazard
  <2>1. PICK who \in Tenants : Private(who)
    BY DEF ChatIInv, PrivateInv
  <2>2. call[u].with \subseteq Fit(who[call[u].version])
    BY <2>1 DEF Private
  <2>3. Parties \subseteq Fit(who[job.version])
    BY <2>1 DEF Private, Parties, Fit
  <2>4. d.with \subseteq Fit(who[d.version])
    BY <2>2, <2>3 DEF MeantFor
  <2>5. \A c \in Calls : call'[c].with \subseteq Fit(who[call'[c].version])
    BY <1>2, <2>1, <2>4 DEF Private
  <2>6. \A v \in Versions : rooms'[v].members \subseteq Fit(who[v])
    BY <2>1, <2>2 DEF Private, RoomsGain
  <2>7. \A v \in Versions : \A m \in messages'[v] : m \subseteq Fit(who[v]) \ {Rider}
    BY <2>1, <2>2 DEF Private, Says
  <2>8. Private(who)'
    BY <2>1, <2>5, <2>6, <2>7 DEF Private, Elsewhere
  <2> QED
    BY <2>8
<1>4. ServerSound(call[Server])'
  BY <1>2, Roles DEF ChatIInv, ServerSound, Elsewhere, OnHazard
<1>5. ASSUME NEW c \in Calls PROVE CallSound(c, call[c])'
  <2>1. CASE c = u
    BY <1>2, <2>1 DEF CallSound, Elsewhere, OnHazard
  <2>2. CASE c # u
    <3>1. call'[c] = call[c] /\ CallSound(c, call[c]) /\ call[c].version \in Versions
      BY <1>2, <2>2 DEF ChatIInv, ChatTypeOK, CallDoc
    <3> QED
      BY <3>1 DEF CallSound, Elsewhere, OnHazard, RoomsGain
  <2> QED
    BY <2>1, <2>2
<1>6. HazardInv'
  BY DEF ChatIInv, HazardInv, Elsewhere, OnHazard, Live, Lets
<1> QED
  BY <1>1, <1>3, <1>4, <1>5, <1>6 DEF ChatIInv

\* A call that leaves the rooms and messages alone.
Quiet == UNCHANGED <<scope, job, rooms, messages, sweep, kept, replaced, unheard>>
LEMMA QuietStep ==
  ASSUME ChatIInv, NEW u \in Calls, NEW d \in CallDoc, call' = [call EXCEPT ![u] = d], Quiet,
         joined' \subseteq Talkers, ~OnHazard => MeantFor(u, d),
         CallSound(u, d), u = Server => ServerSound(d), Lets
  PROVE  ChatIInv'
<1>1. Elsewhere /\ Shapes /\ RoomsGain(u) /\ Says(u)
  BY DEF Quiet, Elsewhere, Shapes, RoomsGain, Says, ChatIInv, ChatTypeOK
<1>2. CallSound(u, d)' /\ NoGhosts' /\ MeantAreTold'
  BY DEF Quiet, CallSound, OnHazard, NoGhosts, MeantAreTold, ChatIInv
<1> QED
  BY <1>1, <1>2, CallStep

LEMMA SameLets ==
  ASSUME ChatIInv, UNCHANGED <<rooms, joined, replaced>>
  PROVE  Lets
  BY DEF ChatIInv, HazardInv, Lets

\* What the records of the calls say.
LEMMA CallReads ==
  ASSUME ChatIInv, NEW u \in Calls
  PROVE  /\ call[u] \in CallDoc /\ call[u].version \in Versions /\ call[u].with \subseteq Talkers
         /\ CallSound(u, call[u]) /\ job \in JobDoc /\ job.version \in Versions
         /\ Parties \subseteq Talkers /\ rooms[call[u].version] \in RoomDoc
  BY Roles DEF ChatIInv, ChatTypeOK, CallDoc, JobDoc, Parties, Talkers

LEMMA IdleIsSound ==
  ASSUME ChatIInv, NEW u \in Calls
  PROVE  NoCall \in CallDoc /\ MeantFor(u, NoCall) /\ CallSound(u, NoCall) /\ ServerSound(NoCall)
  BY EmptyRecords DEF MeantFor, CallSound, ServerSound

LEMMA EnterStep ==
  ASSUME ChatIInv, NEW u \in Talkers, Enter(u)
  PROVE  ChatIInv'
<1>1. PICK with, d : /\ with = (IF OnHazard THEN {u} ELSE Parties)
                     /\ d = [NoCall EXCEPT !.pc = "find", !.version = job.version, !.with = with]
  OBVIOUS
<1>2. with \subseteq Talkers
  BY <1>1, Roles, CallReads
<1>3. d \in CallDoc /\ d.pc = "find" /\ d.version = job.version /\ d.with = with
  BY <1>1, <1>2, Roles, EmptyRecords, CallReads DEF CallDoc, Stages
<1>4. call' = [call EXCEPT ![u] = d] /\ Quiet /\ joined' = joined
  BY <1>1 DEF Enter, Go, InChat, Quiet
<1>5. ~OnHazard => MeantFor(u, d)
  BY <1>1, <1>3 DEF MeantFor
<1>6. CallSound(u, d)
  BY <1>1, <1>3 DEF CallSound, ChatIInv, HazardInv
<1>7. joined' \subseteq Talkers /\ Lets
  BY <1>4, SameLets DEF ChatIInv, ChatTypeOK, Quiet
<1> QED
  BY <1>3, <1>4, <1>5, <1>6, <1>7, Roles, QuietStep

\* Where a call goes on with its room.
LEMMA InsideDoc ==
  ASSUME ChatIInv, NEW u \in Talkers, NEW closed \in BOOLEAN, NEW d, d = Inside(u, closed)
  PROVE  /\ d \in CallDoc /\ d.pc = (IF OnHazard THEN "write" ELSE "check")
         /\ d.version = call[u].version /\ d.with = call[u].with
<1>1. PICK pc \in Stages : pc = IF OnHazard THEN "write" ELSE "check"
  BY DEF Stages
<1>2. d = [call[u] EXCEPT !.pc = pc, !.closed = closed] /\ call[u] \in CallDoc
  BY <1>1, Roles, CallReads DEF Inside
<1>3. d \in CallDoc /\ d.pc = pc /\ d.version = call[u].version /\ d.with = call[u].with
  BY <1>2 DEF CallDoc
<1> QED
  BY <1>1, <1>3

LEMMA StepDoc ==
  ASSUME ChatIInv, NEW u \in Calls, NEW pc \in Stages, NEW d, d = Step(u, pc)
  PROVE  /\ d \in CallDoc /\ d.pc = pc /\ d.op = call[u].op
         /\ d.version = call[u].version /\ d.with = call[u].with
  BY CallReads DEF Step, CallDoc

\* Those who are let in with the room they found, or made.
LEMMA JoinsLets ==
  ASSUME ChatIInv, NEW u \in Talkers, Joins(u), RoomsGain(u), call[u].pc # "idle",
         rooms' \in [Versions -> RoomDoc],
         call[u].with \subseteq rooms'[call[u].version].members
  PROVE  Lets /\ joined' \subseteq Talkers
<1>1. joined' \subseteq Talkers
  BY DEF ChatIInv, ChatTypeOK, Joins
<1>2. OnHazard => call[u].with = {u} /\ call[u].version = 0
  BY CallReads, Roles DEF CallSound
<1>3. ASSUME OnHazard, Live, ~replaced'
      PROVE  joined' \subseteq rooms'[0].members
  <2>1. ~replaced /\ rooms[0].members \subseteq rooms'[0].members
    BY <1>3, Roles DEF RoomsGain
  <2>2. joined \subseteq rooms[0].members
    BY <1>3, <2>1 DEF ChatIInv, HazardInv
  <2>3. joined' = joined \cup {u} /\ u \in rooms'[0].members
    BY <1>2, <1>3 DEF Joins
  <2> QED
    BY <2>1, <2>2, <2>3
<1> QED
  BY <1>1, <1>3 DEF Lets

LEMMA FindRoomStep ==
  ASSUME ChatIInv, NEW u \in Talkers, FindRoom(u)
  PROVE  ChatIInv'
<1>1. PICK room, v : v = call[u].version /\ room = rooms[v]
  OBVIOUS
<1>2. /\ room \in RoomDoc /\ room.closed \in BOOLEAN /\ call[u].pc = "find" /\ u # Server
      /\ Quiet /\ u \in Calls
  BY <1>1, CallReads, Roles DEF FindRoom, InChat, Quiet, RoomDoc
<1>3. CASE room.exists /\ call[u].with \subseteq room.members /\ Go(u, Inside(u, room.closed)) /\ Joins(u)
  <2>1. PICK d : d = Inside(u, room.closed)
    OBVIOUS
  <2>2. /\ d \in CallDoc /\ d.pc = (IF OnHazard THEN "write" ELSE "check")
        /\ d.version = v /\ d.with = call[u].with
    BY <1>1, <1>2, <2>1, InsideDoc
  <2>3. CallSound(u, d) /\ MeantFor(u, d)
    BY <1>1, <1>2, <1>3, <2>2, CallReads DEF CallSound, MeantFor
  <2>4. RoomsGain(u) /\ rooms' \in [Versions -> RoomDoc] /\ rooms' = rooms
    BY <1>2 DEF Quiet, RoomsGain, ChatIInv, ChatTypeOK
  <2>5. Lets /\ joined' \subseteq Talkers
    BY <1>1, <1>2, <1>3, <2>4, JoinsLets
  <2> QED
    BY <1>2, <1>3, <2>1, <2>2, <2>3, <2>5, QuietStep DEF Go
<1>4. CASE Go(u, [Step(u, "join") EXCEPT !.closed = room.closed]) /\ UNCHANGED joined
  <2>1. PICK e, d : e = Step(u, "join") /\ d = [e EXCEPT !.closed = room.closed]
    OBVIOUS
  <2>2. e \in CallDoc /\ e.pc = "join" /\ e.version = v /\ e.with = call[u].with
    BY <1>1, <1>2, <2>1, StepDoc DEF Stages
  <2>3. d \in CallDoc /\ d.pc = "join" /\ d.version = v /\ d.with = call[u].with
    BY <1>2, <2>1, <2>2 DEF CallDoc
  <2>4. CallSound(u, d) /\ MeantFor(u, d)
    BY <1>1, <1>2, <2>3, CallReads DEF CallSound, MeantFor
  <2>5. Lets /\ joined' \subseteq Talkers
    BY <1>2, <1>4, SameLets DEF Quiet, ChatIInv, ChatTypeOK
  <2> QED
    BY <1>2, <1>4, <2>1, <2>3, <2>4, <2>5, QuietStep DEF Go
<1>5. CASE Go(u, Step(u, "create")) /\ UNCHANGED joined
  <2>1. PICK d : d = Step(u, "create")
    OBVIOUS
  <2>2. d \in CallDoc /\ d.pc = "create" /\ d.version = v /\ d.with = call[u].with
    BY <1>1, <1>2, <2>1, StepDoc DEF Stages
  <2>3. CallSound(u, d) /\ MeantFor(u, d)
    BY <1>1, <1>2, <2>2, CallReads DEF CallSound, MeantFor
  <2>4. Lets /\ joined' \subseteq Talkers
    BY <1>2, <1>5, SameLets DEF Quiet, ChatIInv, ChatTypeOK
  <2> QED
    BY <1>2, <1>5, <2>1, <2>2, <2>3, <2>4, QuietStep DEF Go
<1> QED
  BY <1>1, <1>3, <1>4, <1>5 DEF FindRoom

\* Rooms that only gain, with nobody let in now.
LEMMA GainLets ==
  ASSUME ChatIInv, NEW u \in Calls, RoomsGain(u), UNCHANGED joined
  PROVE  Lets
  BY Roles DEF ChatIInv, HazardInv, Lets, RoomsGain

LEMMA JoinRoomStep ==
  ASSUME ChatIInv, NEW u \in Talkers, JoinRoom(u)
  PROVE  ChatIInv'
<1>1. PICK room, v : v = call[u].version /\ room = rooms[v]
  OBVIOUS
<1>2. /\ room \in RoomDoc /\ call[u].pc = "join" /\ u # Server /\ u \in Calls /\ v \in Versions
      /\ call[u].with \subseteq Talkers /\ CallSound(u, call[u]) /\ call[u] \in CallDoc
      /\ Elsewhere /\ UNCHANGED <<messages, replaced, unheard>>
  BY <1>1, CallReads, Roles DEF JoinRoom, InChat, Elsewhere
<1>3. CASE ~room.exists
  <2>1. call' = [call EXCEPT ![u] = NoCall] /\ Quiet /\ UNCHANGED <<rooms, joined>>
    BY <1>1, <1>2, <1>3 DEF JoinRoom, Go, Quiet, Elsewhere
  <2>2. Lets /\ joined' \subseteq Talkers
    BY <2>1, SameLets DEF Quiet, ChatIInv, ChatTypeOK
  <2> QED
    BY <1>2, <2>1, <2>2, IdleIsSound, QuietStep
<1>4. CASE room.exists
  <2>1. PICK x \in call[u].with \ room.members :
          /\ rooms' = [rooms EXCEPT ![v].members = rooms[v].members \cup {x}]
          /\ IF call[u].with \subseteq room.members \cup {x}
             THEN Go(u, Inside(u, call[u].closed)) /\ Joins(u) ELSE UNCHANGED <<call, joined>>
    BY <1>1, <1>4 DEF JoinRoom
  <2>2. PICK after : after = [room EXCEPT !.members = room.members \cup {x}]
    OBVIOUS
  <2>3. after \in RoomDoc /\ after.members = room.members \cup {x} /\ after.exists
    BY <1>2, <1>4, <2>2 DEF RoomDoc
  <2>4. rooms' = [rooms EXCEPT ![v] = after] /\ rooms \in [Versions -> RoomDoc]
    BY <1>1, <2>1, <2>2 DEF ChatIInv, ChatTypeOK
  <2>5. rooms' \in [Versions -> RoomDoc] /\ RoomsGain(u) /\ NoGhosts'
    <3>1. /\ rooms' \in [Versions -> RoomDoc] /\ rooms'[v] = after
          /\ \A w \in Versions : w # v => rooms'[w] = rooms[w]
      BY <1>2, <2>3, <2>4
    <3> QED
      BY <1>1, <1>2, <2>3, <3>1 DEF RoomsGain, NoGhosts, ChatIInv
  <2>6. Says(u) /\ MeantAreTold'
    BY <1>2 DEF Says, MeantAreTold, ChatIInv
  <2>7. CASE call[u].with \subseteq room.members \cup {x}
    <3>1. PICK d : d = Inside(u, call[u].closed)
      OBVIOUS
    <3>2. call[u].closed \in BOOLEAN
      BY <1>2 DEF CallDoc
    <3>3. /\ d \in CallDoc /\ d.pc = (IF OnHazard THEN "write" ELSE "check")
          /\ d.version = v /\ d.with = call[u].with
      BY <1>1, <3>1, <3>2, InsideDoc
    <3>4. rooms'[v] = after /\ call[u].with \subseteq rooms'[v].members
      BY <1>2, <2>3, <2>4, <2>7
    <3>5. CallSound(u, d)' /\ MeantFor(u, d)
      BY <1>1, <1>2, <2>3, <3>3, <3>4 DEF CallSound, MeantFor, Elsewhere, OnHazard
    <3>6. Lets /\ joined' \subseteq Talkers
      BY <1>1, <1>2, <2>1, <2>5, <2>7, <3>4, JoinsLets
    <3>7. Shapes
      BY <1>2, <2>5, <3>6 DEF Shapes, ChatIInv, ChatTypeOK
    <3> QED
      BY <1>2, <2>1, <2>5, <2>6, <2>7, <3>1, <3>3, <3>5, <3>6, <3>7, CallStep DEF Go
  <2>8. CASE ~(call[u].with \subseteq room.members \cup {x})
    <3>1. call' = call /\ call' = [call EXCEPT ![u] = call[u]] /\ joined' = joined
      BY <1>2, <2>1, <2>8 DEF ChatIInv, ChatTypeOK
    <3>2. CallSound(u, call[u])' /\ MeantFor(u, call[u])
      BY <1>2, <3>1 DEF CallSound, MeantFor, Elsewhere, OnHazard
    <3>3. Shapes /\ Lets
      BY <1>2, <2>5, <3>1, GainLets DEF Shapes, ChatIInv, ChatTypeOK
    <3>4. PICK d : d = call[u]
      OBVIOUS
    <3>5. CallSound(u, d)'
      BY <1>2, <3>4 DEF CallSound, Elsewhere, OnHazard
    <3> QED
      BY <1>2, <2>5, <2>6, <3>1, <3>2, <3>3, <3>4, <3>5, CallStep
  <2> QED
    BY <2>7, <2>8
<1> QED
  BY <1>3, <1>4

\* The room's document is set: what was there before is gone.
LEMMA PutGains ==
  ASSUME ChatIInv, NEW u \in Calls, NEW v, v = call[u].version, Put(v, call[u].with)
  PROVE  /\ rooms' \in [Versions -> RoomDoc] /\ replaced' \in BOOLEAN /\ RoomsGain(u) /\ NoGhosts'
         /\ rooms'[v].exists /\ rooms'[v].members = call[u].with
<1>1. PICK room : room = [exists |-> TRUE, members |-> call[u].with, closed |-> FALSE]
  OBVIOUS
<1>2. room \in RoomDoc /\ room.exists /\ room.members = call[u].with /\ v \in Versions
  BY <1>1, CallReads DEF RoomDoc
<1>3. rooms' = [rooms EXCEPT ![v] = room] /\ replaced' = (replaced \/ rooms[v].exists)
  BY <1>1 DEF Put
<1>4. rooms \in [Versions -> RoomDoc] /\ NoGhosts /\ replaced \in BOOLEAN
  BY DEF ChatIInv, ChatTypeOK
<1>5. /\ rooms' \in [Versions -> RoomDoc] /\ rooms'[v] = room
      /\ \A w \in Versions : w # v => rooms'[w] = rooms[w]
  BY <1>2, <1>3, <1>4
<1>6. replaced' \in BOOLEAN
  BY <1>2, <1>3, <1>4 DEF RoomDoc
<1>7. RoomsGain(u)
  BY <1>2, <1>3, <1>4, <1>5 DEF RoomsGain, NoGhosts
<1>8. NoGhosts'
  BY <1>2, <1>4, <1>5 DEF NoGhosts
<1> QED
  BY <1>2, <1>5, <1>6, <1>7, <1>8

LEMMA CreateRoomStep ==
  ASSUME ChatIInv, NEW u \in Talkers, CreateRoom(u)
  PROVE  ChatIInv'
<1>1. PICK v, d : v = call[u].version /\ d = Inside(u, FALSE)
  OBVIOUS
<1>2. /\ call[u].pc = "create" /\ u # Server /\ u \in Calls /\ CallSound(u, call[u])
      /\ Elsewhere /\ UNCHANGED <<messages, unheard>> /\ call' = [call EXCEPT ![u] = d]
      /\ Put(v, call[u].with) /\ Joins(u)
  BY <1>1, CallReads, Roles DEF CreateRoom, InChat, Elsewhere, Go
<1>3. /\ d \in CallDoc /\ d.pc = (IF OnHazard THEN "write" ELSE "check")
      /\ d.version = v /\ d.with = call[u].with
  BY <1>1, InsideDoc
<1>4. /\ rooms' \in [Versions -> RoomDoc] /\ replaced' \in BOOLEAN /\ RoomsGain(u) /\ NoGhosts'
      /\ rooms'[v].exists /\ rooms'[v].members = call[u].with
  BY <1>1, <1>2, PutGains
<1>5. CallSound(u, d)' /\ MeantFor(u, d)
  BY <1>1, <1>2, <1>3, <1>4 DEF CallSound, MeantFor, Elsewhere, OnHazard
<1>6. Lets /\ joined' \subseteq Talkers
  BY <1>1, <1>2, <1>4, JoinsLets
<1>7. Shapes /\ Says(u)
  BY <1>2, <1>4, <1>6 DEF Shapes, Says, ChatIInv, ChatTypeOK
<1>8. MeantAreTold'
  BY <1>2, <1>4 DEF MeantAreTold, ChatIInv, RoomsGain
<1> QED
  BY <1>2, <1>3, <1>4, <1>5, <1>6, <1>7, <1>8, CallStep

\* The call ends, or goes on, and leaves everything else.
LEMMA EndCall ==
  ASSUME ChatIInv, NEW u \in Calls, call' = [call EXCEPT ![u] = NoCall], Quiet, UNCHANGED joined
  PROVE  ChatIInv'
<1>1. Lets /\ joined' \subseteq Talkers
  BY SameLets DEF Quiet, ChatIInv, ChatTypeOK
<1> QED
  BY <1>1, IdleIsSound, QuietStep

LEMMA LeaveRoomStep ==
  ASSUME ChatIInv, NEW u \in Talkers, LeaveRoom(u)
  PROVE  ChatIInv'
  BY Roles, EndCall DEF LeaveRoom, Go, InChat, Quiet

LEMMA CheckTicketStep ==
  ASSUME ChatIInv, NEW u \in Talkers, CheckTicket(u)
  PROVE  ChatIInv'
<1>1. u \in Calls /\ u # Server /\ call[u].pc = "check" /\ Quiet /\ joined' = joined
  BY Roles DEF CheckTicket, InChat, Quiet
<1>2. CASE call[u].closed \/ ~Live
  BY <1>1, <1>2, EndCall DEF CheckTicket, Go
<1>3. CASE ~(call[u].closed \/ ~Live)
  <2>1. PICK e, d : e = Step(u, "write") /\ d = [e EXCEPT !.closed = FALSE]
    OBVIOUS
  <2>2. e \in CallDoc /\ e.pc = "write" /\ e.version = call[u].version /\ e.with = call[u].with
    BY <1>1, <2>1, StepDoc DEF Stages
  <2>3. d \in CallDoc /\ d.pc = "write" /\ d.version = call[u].version /\ d.with = call[u].with
    BY <2>1, <2>2 DEF CallDoc
  <2>4. CallSound(u, d) /\ MeantFor(u, d)
    BY <1>1, <2>3, CallReads DEF CallSound, MeantFor
  <2>5. Lets /\ joined' \subseteq Talkers
    BY <1>1, SameLets DEF Quiet, ChatIInv, ChatTypeOK
  <2>6. call' = [call EXCEPT ![u] = d]
    BY <1>3, <2>1 DEF CheckTicket, Go
  <2> QED
    BY <1>1, <2>3, <2>4, <2>5, <2>6, QuietStep
<1> QED
  BY <1>2, <1>3

\* A message stored under a version, by a user or by the server.
Stores(u) ==
  messages' = [messages EXCEPT ![call[u].version] = messages[call[u].version] \cup {call[u].with \ {Rider}}]
LEMMA StoresSays ==
  ASSUME ChatIInv, NEW u \in Calls, Stores(u)
  PROVE  messages' \in [Versions -> SUBSET SUBSET Helpers] /\ Says(u)
<1>1. PICK v, after : /\ v = call[u].version
                      /\ after = messages[v] \cup {call[u].with \ {Rider}}
  OBVIOUS
<1>2. v \in Versions /\ messages \in [Versions -> SUBSET SUBSET Helpers]
  BY <1>1, CallReads DEF ChatIInv, ChatTypeOK
<1>3. call[u].with \ {Rider} \subseteq Helpers
  BY CallReads DEF Talkers
<1>4. after \in SUBSET SUBSET Helpers
  BY <1>1, <1>2, <1>3
<1>5. messages' = [messages EXCEPT ![v] = after]
  BY <1>1 DEF Stores
<1> QED
  BY <1>1, <1>2, <1>4, <1>5 DEF Says

LEMMA SendMessageStep ==
  ASSUME ChatIInv, NEW u \in Talkers, SendMessage(u)
  PROVE  ChatIInv'
<1>1. /\ u # Server /\ u \in Calls /\ call[u].pc = "write" /\ Elsewhere /\ Stores(u)
      /\ UNCHANGED <<rooms, joined, replaced, unheard>>
  BY Roles DEF SendMessage, InChat, Elsewhere, Stores
<1>2. messages' \in [Versions -> SUBSET SUBSET Helpers] /\ Says(u)
  BY <1>1, StoresSays
<1>3. Shapes /\ RoomsGain(u) /\ Lets /\ NoGhosts' /\ MeantAreTold'
  BY <1>1, <1>2, SameLets DEF Shapes, RoomsGain, NoGhosts, MeantAreTold, ChatIInv, ChatTypeOK
<1>4. PICK d \in CallDoc :
        /\ call' = [call EXCEPT ![u] = d]
        /\ \/ d = NoCall
           \/ d.pc = "push" /\ d.version = call[u].version /\ d.with = call[u].with
  <2>1. CASE rooms[call[u].version].exists
    <3>1. PICK d : d = Step(u, "push")
      OBVIOUS
    <3>2. d \in CallDoc /\ d.pc = "push" /\ d.version = call[u].version /\ d.with = call[u].with
      BY <1>1, <3>1, StepDoc DEF Stages
    <3>3. call' = [call EXCEPT ![u] = d]
      BY <2>1, <3>1 DEF SendMessage, Go
    <3> QED
      BY <3>2, <3>3
  <2>2. CASE ~rooms[call[u].version].exists
    BY <1>1, <2>2, EmptyRecords DEF SendMessage, Go
  <2> QED
    BY <2>1, <2>2
<1>5. CallSound(u, d) /\ MeantFor(u, d)
  BY <1>1, <1>4, CallReads, EmptyRecords DEF CallSound, MeantFor
<1>6. CallSound(u, d)'
  BY <1>1, <1>5 DEF CallSound, Elsewhere, OnHazard
<1> QED
  BY <1>1, <1>2, <1>3, <1>4, <1>5, <1>6, CallStep

\* Everyone the message is meant for is in the room by now.
LEMMA PushMessageStep ==
  ASSUME ChatIInv, NEW u \in Talkers, PushMessage(u)
  PROVE  ChatIInv'
<1>1. /\ call[u].pc = "push" /\ u \in Calls /\ u # Server /\ call' = [call EXCEPT ![u] = NoCall]
      /\ Elsewhere /\ UNCHANGED <<rooms, messages, joined, replaced>>
  BY Roles DEF PushMessage, Go, InChat, Elsewhere
<1>2. PICK room, meant : /\ room = rooms[call[u].version]
                         /\ meant = (IF OnHazard THEN joined ELSE call[u].with) \ {u}
  OBVIOUS
<1>3. unheard' = (unheard \/ (room.exists /\ (OnHazard => Live) /\ ~ meant \subseteq room.members))
  BY <1>2 DEF PushMessage
<1>4. unheard' \in BOOLEAN
  BY <1>2, <1>3, CallReads, <1>1 DEF RoomDoc, ChatIInv, ChatTypeOK
<1>5. MeantAreTold'
  <2> SUFFICES ASSUME ~replaced PROVE ~unheard'
    BY <1>1 DEF MeantAreTold
  <2>1. ~unheard
    BY DEF ChatIInv, MeantAreTold
  <2>2. CASE OnHazard /\ Live
    <3>1. joined \subseteq rooms[0].members /\ call[u].version = 0
      BY <1>1, <2>2, CallReads DEF ChatIInv, HazardInv, CallSound
    <3> QED
      BY <1>2, <1>3, <2>1, <2>2, <3>1
  <2>3. CASE ~OnHazard
    <3>1. call[u].with \subseteq room.members
      BY <1>1, <1>2, <2>3, CallReads DEF CallSound
    <3> QED
      BY <1>2, <1>3, <2>1, <2>3, <3>1
  <2> QED
    BY <1>3, <2>1, <2>2, <2>3
<1>6. Shapes /\ RoomsGain(u) /\ Says(u) /\ Lets /\ NoGhosts'
  BY <1>1, <1>4, SameLets DEF Shapes, RoomsGain, Says, NoGhosts, ChatIInv, ChatTypeOK
<1>7. CallSound(u, NoCall)' /\ MeantFor(u, NoCall) /\ NoCall \in CallDoc
  BY <1>1, EmptyRecords DEF CallSound, MeantFor
<1> QED
  BY <1>1, <1>5, <1>6, <1>7, CallStep

LEMMA UserSteps ==
  ASSUME ChatIInv, NEW u \in Talkers, Enter(u) \/ Talk(u)
  PROVE  ChatIInv'
  BY EnterStep, FindRoomStep, JoinRoomStep, CreateRoomStep, LeaveRoomStep, CheckTicketStep,
     SendMessageStep, PushMessageStep DEF Talk

\* The server's own steps on its event and its archiving.
LEMMA ServerReads ==
  ASSUME ChatIInv
  PROVE  ServerSound(call[Server]) /\ call[Server] \in CallDoc /\ Server \in Calls
  BY Roles, CallReads DEF ChatIInv

\* Of the server's calls nothing is promised about the room.
LEMMA ServerCall ==
  ASSUME NEW d, ~OnHazard
  PROVE  CallSound(Server, d)
  BY DEF CallSound

LEMMA ServerQuiet ==
  ASSUME ChatIInv, ~OnHazard, NEW d \in CallDoc, call' = [call EXCEPT ![Server] = d], Quiet,
         UNCHANGED joined, MeantFor(Server, d), ServerSound(d)
  PROVE  ChatIInv'
<1>1. Lets /\ joined' \subseteq Talkers
  BY SameLets DEF Quiet, ChatIInv, ChatTypeOK
<1> QED
  BY <1>1, ServerReads, ServerCall, QuietStep

LEMMA HandleDoc ==
  ASSUME ChatIInv, NEW op \in {"accept", "cancel", "decline"}, NEW pc \in {"event", "look"}, NEW d,
         d = [NoCall EXCEPT !.op = op, !.pc = pc, !.version = job.version]
  PROVE  /\ d \in CallDoc /\ d.op = op /\ d.pc = pc /\ d.version = job.version /\ d.with = {}
  BY EmptyRecords, CallReads, Roles DEF CallDoc, Stages

LEMMA GiveBackStep ==
  ASSUME ChatIInv, GiveBack
  PROVE  ChatIInv'
<1>1. PICK op \in {"cancel", "decline"}, pc \in {"event", "look"} :
        call' = [call EXCEPT ![Server] = [NoCall EXCEPT !.op = op, !.pc = pc, !.version = job.version]]
  BY DEF GiveBack, Handle, Go
<1>2. PICK d : d = [NoCall EXCEPT !.op = op, !.pc = pc, !.version = job.version]
  OBVIOUS
<1>3. d \in CallDoc /\ d.op = op /\ d.pc = pc /\ d.version = job.version /\ d.with = {}
  BY ZenonT(40), <1>2, HandleDoc
<1>4. ~OnHazard /\ Quiet /\ UNCHANGED joined /\ job.version < LastVersion
  BY DEF GiveBack, OutOfRoom, Quiet
<1>5. ServerSound(d) /\ MeantFor(Server, d)
  BY <1>3, <1>4 DEF ServerSound, MeantFor
<1> QED
  BY <1>1, <1>2, <1>3, <1>4, <1>5, ServerQuiet

\* The event over, an acceptance ends and a giving back goes on to the room.
LEMMA AfterEventDoc ==
  ASSUME ChatIInv, call[Server].pc \in {"event", "create", "write"}, NEW d, d = AfterEvent
  PROVE  ~OnHazard /\ d \in CallDoc /\ ServerSound(d) /\ MeantFor(Server, d)
<1>1. /\ ServerSound(call[Server]) /\ ~OnHazard /\ call[Server] \in CallDoc
      /\ call[Server].op \in {"accept", "cancel", "decline"}
  BY ServerReads DEF ServerSound
<1>2. CASE call[Server].op = "accept"
  BY <1>1, <1>2, IdleIsSound, ServerReads DEF AfterEvent
<1>3. CASE call[Server].op # "accept"
  <2>1. d = Step(Server, "look")
    BY <1>3 DEF AfterEvent
  <2>2. /\ d \in CallDoc /\ d.pc = "look" /\ d.op = call[Server].op
        /\ d.version = call[Server].version /\ d.with = call[Server].with
    BY <2>1, StepDoc, ServerReads DEF Stages
  <2> QED
    BY <1>1, <1>3, <2>2 DEF ServerSound, MeantFor
<1> QED
  BY <1>2, <1>3

LEMMA EventReadStep ==
  ASSUME ChatIInv, EventRead
  PROVE  ChatIInv'
<1>1. PICK e, pc, d : /\ e = [call[Server] EXCEPT !.version = job.version, !.with = Parties]
                      /\ pc = (IF rooms[e.version].exists THEN "write" ELSE "create")
                      /\ d = [e EXCEPT !.pc = pc]
  OBVIOUS
<1>2. /\ call[Server].pc = "event" /\ ServerSound(call[Server]) /\ ~OnHazard
      /\ call[Server] \in CallDoc /\ Parties \subseteq Talkers /\ job.version \in Versions
      /\ Quiet /\ UNCHANGED joined
  BY ServerReads, CallReads DEF EventRead, InChat, Quiet, ServerSound
<1>3. e \in CallDoc /\ e.version = job.version /\ e.with = Parties /\ e.op = call[Server].op
  BY <1>1, <1>2 DEF CallDoc
<1>4. /\ d \in CallDoc /\ d.version = job.version /\ d.with = Parties /\ d.op = call[Server].op
      /\ d.pc = pc /\ pc \in {"write", "create"}
  BY <1>1, <1>3 DEF CallDoc, Stages
<1>5. call' = [call EXCEPT ![Server] = d]
  BY <1>1 DEF EventRead, Go
<1>6. ServerSound(d) /\ MeantFor(Server, d)
  BY <1>2, <1>4 DEF ServerSound, MeantFor
<1> QED
  BY <1>2, <1>4, <1>5, <1>6, ServerQuiet

LEMMA EventRoomStep ==
  ASSUME ChatIInv, EventRoom
  PROVE  ChatIInv'
<1>1. PICK v, d : v = call[Server].version /\ d = Step(Server, "write")
  OBVIOUS
<1>2. /\ call[Server].pc = "create" /\ ServerSound(call[Server]) /\ ~OnHazard /\ Elsewhere
      /\ UNCHANGED <<messages, joined, unheard>> /\ call' = [call EXCEPT ![Server] = d]
      /\ Put(v, call[Server].with) /\ Server \in Calls
  BY <1>1, ServerReads DEF EventRoom, InChat, Elsewhere, Go, ServerSound
<1>3. /\ d \in CallDoc /\ d.pc = "write" /\ d.op = call[Server].op
      /\ d.version = v /\ d.with = call[Server].with
  BY <1>1, <1>2, StepDoc DEF Stages
<1>4. rooms' \in [Versions -> RoomDoc] /\ replaced' \in BOOLEAN /\ RoomsGain(Server) /\ NoGhosts'
  BY <1>1, <1>2, PutGains
<1>5. CallSound(Server, d)' /\ MeantFor(Server, d) /\ ServerSound(d)
  BY <1>1, <1>2, <1>3 DEF CallSound, MeantFor, Elsewhere, OnHazard, ServerSound
<1>6. Lets
  BY <1>2, <1>4, GainLets
<1>7. Shapes /\ Says(Server)
  BY <1>2, <1>4 DEF Shapes, Says, ChatIInv, ChatTypeOK
<1>8. MeantAreTold'
  BY <1>2, <1>4 DEF MeantAreTold, ChatIInv, RoomsGain
<1> QED
  BY <1>2, <1>3, <1>4, <1>5, <1>6, <1>7, <1>8, CallStep

LEMMA EventWriteStep ==
  ASSUME ChatIInv, EventWrite
  PROVE  ChatIInv'
<1>1. PICK d : d = AfterEvent
  OBVIOUS
<1>2. /\ call[Server].pc = "write" /\ Elsewhere /\ Stores(Server) /\ Server \in Calls
      /\ UNCHANGED <<rooms, joined, replaced, unheard>> /\ call' = [call EXCEPT ![Server] = d]
  BY <1>1, ServerReads DEF EventWrite, InChat, Elsewhere, Go, Stores
<1>3. ~OnHazard /\ d \in CallDoc /\ ServerSound(d) /\ MeantFor(Server, d)
  BY <1>1, <1>2, AfterEventDoc
<1>4. messages' \in [Versions -> SUBSET SUBSET Helpers] /\ Says(Server)
  BY <1>2, StoresSays
<1>5. Shapes /\ RoomsGain(Server) /\ Lets /\ NoGhosts' /\ MeantAreTold'
  BY <1>2, <1>4, SameLets DEF Shapes, RoomsGain, NoGhosts, MeantAreTold, ChatIInv, ChatTypeOK
<1>6. CallSound(Server, d)'
  BY <1>2, <1>3 DEF CallSound, Elsewhere, OnHazard
<1> QED
  BY <1>2, <1>3, <1>4, <1>5, <1>6, CallStep

LEMMA EventFailsStep ==
  ASSUME ChatIInv, EventFails
  PROVE  ChatIInv'
<1>1. PICK d : d = AfterEvent
  OBVIOUS
<1>2. /\ call[Server].pc \in {"event", "create", "write"} /\ Quiet /\ UNCHANGED joined
      /\ call' = [call EXCEPT ![Server] = d]
  BY <1>1 DEF EventFails, Quiet, Go
<1> QED
  BY <1>1, <1>2, AfterEventDoc, ServerQuiet

LEMMA ArchiveQuiet ==
  ASSUME ChatIInv, call[Server].pc \in {"look", "archive"}, NEW pc \in {"archive", "clear"}, NEW d,
         d = Step(Server, pc), call' = [call EXCEPT ![Server] = d], Quiet, UNCHANGED joined
  PROVE  ChatIInv'
<1>1. /\ ServerSound(call[Server]) /\ ~OnHazard /\ call[Server].op \in {"cancel", "decline"}
  BY ServerReads DEF ServerSound
<1>2. /\ d \in CallDoc /\ d.pc = pc /\ d.op = call[Server].op
      /\ d.version = call[Server].version /\ d.with = call[Server].with
  BY StepDoc, ServerReads DEF Stages
<1>3. ServerSound(d) /\ MeantFor(Server, d)
  BY <1>1, <1>2 DEF ServerSound, MeantFor
<1> QED
  BY <1>1, <1>2, <1>3, ServerQuiet

LEMMA ArchiveLookStep ==
  ASSUME ChatIInv, ArchiveLook
  PROVE  ChatIInv'
<1>1. PICK pc, d : /\ pc = (IF rooms[call[Server].version].exists THEN "archive" ELSE "clear")
                   /\ d = Step(Server, pc)
  OBVIOUS
<1>2. /\ call[Server].pc = "look" /\ Quiet /\ UNCHANGED joined /\ call' = [call EXCEPT ![Server] = d]
      /\ pc \in {"archive", "clear"}
  BY <1>1 DEF ArchiveLook, Quiet, Go, InChat
<1> QED
  BY <1>1, <1>2, ArchiveQuiet

LEMMA ArchiveFailsStep ==
  ASSUME ChatIInv, ArchiveFails
  PROVE  ChatIInv'
<1>1. PICK d : d = Step(Server, "clear")
  OBVIOUS
<1>2. /\ call[Server].pc \in {"look", "archive"} /\ Quiet /\ UNCHANGED joined
      /\ call' = [call EXCEPT ![Server] = d]
  BY <1>1 DEF ArchiveFails, Quiet, Go
<1> QED
  BY <1>1, <1>2, ArchiveQuiet

LEMMA ArchiveRoomStep ==
  ASSUME ChatIInv, ArchiveRoom
  PROVE  ChatIInv'
<1>1. PICK v, room, e, d : /\ v = call[Server].version /\ room = [rooms[v] EXCEPT !.closed = TRUE]
                           /\ e = Step(Server, "clear") /\ d = [e EXCEPT !.closed = TRUE]
  OBVIOUS
<1>2. /\ call[Server].pc = "archive" /\ ServerSound(call[Server]) /\ ~OnHazard /\ Elsewhere
      /\ UNCHANGED <<messages, joined, replaced, unheard>> /\ call' = [call EXCEPT ![Server] = d]
      /\ rooms' = [rooms EXCEPT ![v].closed = TRUE] /\ call[Server].op \in {"cancel", "decline"}
  BY <1>1, ServerReads DEF ArchiveRoom, InChat, Elsewhere, Go, ServerSound
<1>3. /\ e \in CallDoc /\ e.pc = "clear" /\ e.op = call[Server].op
      /\ e.version = v /\ e.with = call[Server].with
  BY <1>1, ServerReads, StepDoc DEF Stages
<1>4. /\ d \in CallDoc /\ d.pc = "clear" /\ d.op = call[Server].op
      /\ d.version = v /\ d.with = call[Server].with
  BY <1>1, <1>3 DEF CallDoc
<1>5. rooms \in [Versions -> RoomDoc] /\ v \in Versions /\ rooms[v] \in RoomDoc
  BY <1>1, ServerReads, CallReads DEF ChatIInv, ChatTypeOK
<1>6. room \in RoomDoc /\ room.exists = rooms[v].exists /\ room.members = rooms[v].members
  BY <1>1, <1>5 DEF RoomDoc
<1>7. rooms' = [rooms EXCEPT ![v] = room]
  BY <1>1, <1>2
<1>8. /\ rooms' \in [Versions -> RoomDoc] /\ rooms'[v] = room
      /\ \A w \in Versions : w # v => rooms'[w] = rooms[w]
  BY <1>5, <1>6, <1>7
<1>9. RoomsGain(Server) /\ NoGhosts'
  BY <1>2, <1>6, <1>8 DEF RoomsGain, NoGhosts, ChatIInv
<1>10. CallSound(Server, d)' /\ MeantFor(Server, d) /\ ServerSound(d)
  BY <1>1, <1>2, <1>4 DEF CallSound, MeantFor, Elsewhere, OnHazard, ServerSound
<1>11. Lets /\ Says(Server) /\ Shapes /\ MeantAreTold'
  BY <1>2, <1>8, <1>9, GainLets, ServerReads
     DEF Shapes, Says, MeantAreTold, ChatIInv, ChatTypeOK
<1> QED
  BY <1>2, <1>4, <1>9, <1>10, <1>11, ServerReads, CallStep

\* What does not change when the ticket does.
JobOnly == UNCHANGED <<scope, rooms, messages, sweep, joined, replaced, unheard>>
LEMMA JobStep ==
  ASSUME ChatIInv, JobOnly, ~OnHazard, job' \in JobDoc, kept' \in BOOLEAN, NEW d \in CallDoc,
         call' = [call EXCEPT ![Server] = d], ServerSound(d)', PrivateInv'
  PROVE  ChatIInv'
<1>1. ChatTypeOK' /\ NoGhosts' /\ MeantAreTold'
  BY DEF ChatIInv, ChatTypeOK, JobOnly, NoGhosts, MeantAreTold
<1>2. call'[Server] = d /\ \A c \in Calls : c # Server => call'[c] = call[c]
  BY ServerReads DEF ChatIInv, ChatTypeOK
<1>3. ServerSound(call[Server])'
  BY <1>2 DEF ServerSound
<1>4. ASSUME NEW c \in Calls PROVE CallSound(c, call[c])'
  <2>1. CASE c = Server
    BY <2>1 DEF CallSound, JobOnly, OnHazard
  <2>2. CASE c # Server
    <3>1. call'[c] = call[c] /\ CallSound(c, call[c])
      BY <1>2, <2>2 DEF ChatIInv
    <3> QED
      BY <3>1 DEF CallSound, JobOnly, OnHazard
  <2> QED
    BY <2>1, <2>2
<1>5. HazardInv'
  BY DEF ChatIInv, HazardInv, JobOnly, OnHazard
<1> QED
  BY <1>1, <1>3, <1>4, <1>5 DEF ChatIInv

LEMMA AssignHelperStep ==
  ASSUME ChatIInv, NEW p \in Helpers, AssignHelper(p)
  PROVE  ChatIInv'
<1>1. PICK d : d = [NoCall EXCEPT !.op = "accept", !.pc = "event", !.version = job.version]
  OBVIOUS
<1>2. d \in CallDoc /\ d.op = "accept" /\ d.pc = "event" /\ d.version = job.version /\ d.with = {}
  BY ZenonT(40), <1>1, HandleDoc
<1>3. /\ ~OnHazard /\ job.status = "PENDING" /\ JobOnly /\ kept' = kept
      /\ job' = [job EXCEPT !.status = "MATCHED", !.assigned = p]
      /\ call' = [call EXCEPT ![Server] = d] /\ job \in JobDoc /\ Server \in Calls
  BY <1>1, ServerReads, CallReads DEF AssignHelper, Handle, Go, OutOfRoom, JobOnly
<1>4. job' \in JobDoc /\ job'.status = "MATCHED" /\ job'.assigned = p /\ job'.version = job.version
  BY <1>3 DEF JobDoc
<1>5. ServerSound(d)'
  BY <1>2, <1>3 DEF ServerSound, JobOnly, OnHazard
<1>6. PrivateInv'
  <2> SUFFICES ASSUME ~kept PROVE \E who \in Tenants : Private(who)'
    BY <1>3 DEF PrivateInv
  <2>1. PICK who \in Tenants : Private(who)
    BY <1>3 DEF ChatIInv, PrivateInv
  <2>2. PICK after : after = [who EXCEPT ![job.version] = p]
    OBVIOUS
  <2>3. /\ after \in Tenants /\ after[job.version] = p /\ job.version \in Versions
        /\ \A v \in Versions : v # job.version => after[v] = who[v]
    BY <1>3, <2>2 DEF Tenants, JobDoc
  <2>4. \A v \in Versions : Fit(who[v]) \subseteq Fit(after[v])
    BY <1>3, <2>1, <2>3, Roles DEF Private, Fit
  <2>5. /\ \A v \in Versions : rooms'[v].members \subseteq Fit(after[v])
        /\ \A v \in Versions : \A m \in messages'[v] : m \subseteq Fit(after[v]) \ {Rider}
    BY <1>3, <2>1, <2>4 DEF Private, JobOnly
  <2>6. ASSUME NEW c \in Calls PROVE call'[c].with \subseteq Fit(after[call'[c].version])
    <3>1. call'[Server] = d /\ (c # Server => call'[c] = call[c]) /\ call[c].version \in Versions
      BY <1>3, CallReads DEF ChatIInv, ChatTypeOK
    <3> QED
      BY <1>2, <2>1, <2>4, <3>1 DEF Private
  <2>7. \A v \in Versions : v > job'.version => after[v] = Nobody
    BY <1>4, <2>1, <2>3, Roles DEF Private
  <2>8. Private(after)'
    BY <1>4, <2>3, <2>5, <2>6, <2>7 DEF Private
  <2> QED
    BY <2>3, <2>8
<1> QED
  BY <1>2, <1>3, <1>4, <1>5, <1>6, JobStep DEF ChatIInv, ChatTypeOK

LEMMA CloseTicketStep ==
  ASSUME ChatIInv, CloseTicket
  PROVE  ChatIInv'
<1>1. PICK d : d = call[Server]
  OBVIOUS
<1>2. /\ ~OnHazard /\ JobOnly /\ kept' = kept /\ job \in JobDoc /\ d \in CallDoc
      /\ job' = [job EXCEPT !.status = "CLOSED"] /\ d.pc = "idle" /\ ServerSound(d)
  BY <1>1, ServerReads, CallReads DEF CloseTicket, OutOfRoom, JobOnly
<1>3. call' = call /\ call' = [call EXCEPT ![Server] = d]
  BY <1>1 DEF CloseTicket, ChatIInv, ChatTypeOK
<1>4. job' \in JobDoc /\ job'.status = "CLOSED" /\ job'.assigned = job.assigned /\ job'.version = job.version
  BY <1>2 DEF JobDoc
<1>5. ServerSound(d)'
  BY <1>2 DEF ServerSound, JobOnly, OnHazard
<1>6. PrivateInv'
  <2> SUFFICES ASSUME ~kept PROVE \E who \in Tenants : Private(who)'
    BY <1>2 DEF PrivateInv
  <2>1. PICK who \in Tenants : Private(who)
    BY <1>2 DEF ChatIInv, PrivateInv
  <2>2. Private(who)'
    BY <1>2, <1>3, <1>4, <2>1 DEF Private, JobOnly
  <2> QED
    BY <2>2
<1> QED
  BY <1>2, <1>3, <1>4, <1>5, <1>6, JobStep DEF ChatIInv, ChatTypeOK

LEMMA RematchTowStep ==
  ASSUME ChatIInv, RematchTow
  PROVE  ChatIInv'
<1>1. PICK d : d = call[Server]
  OBVIOUS
<1>2. /\ scope = "TOW" /\ ~OnHazard /\ JobOnly /\ kept' = TRUE /\ job \in JobDoc /\ d \in CallDoc
      /\ job' = [job EXCEPT !.status = "PENDING", !.assigned = Nobody] /\ d.pc = "idle"
      /\ ServerSound(d)
  BY <1>1, ServerReads, CallReads DEF RematchTow, ServerIdle, JobOnly, OnHazard
<1>3. call' = [call EXCEPT ![Server] = d]
  BY <1>1 DEF RematchTow, ChatIInv, ChatTypeOK
<1>4. job' \in JobDoc
  BY <1>2 DEF JobDoc
<1>5. ServerSound(d)' /\ PrivateInv'
  BY <1>2 DEF ServerSound, JobOnly, OnHazard, PrivateInv
<1> QED
  BY <1>2, <1>3, <1>4, <1>5, JobStep

\* Unless the room was kept, the ticket given back is of a version nobody had.
LEMMA ClearAssignmentStep ==
  ASSUME ChatIInv, ClearAssignment
  PROVE  ChatIInv'
<1>1. PICK n, was : n = NextVersion(Server) /\ was = call[Server]
  OBVIOUS
<1>2. /\ was.pc = "clear" /\ ServerSound(was) /\ ~OnHazard /\ was \in CallDoc /\ JobOnly
      /\ was.op \in {"cancel", "decline"} /\ was.version = job.version /\ job.version < LastVersion
      /\ job.version \in Versions /\ job \in JobDoc
  BY <1>1, ServerReads, CallReads DEF ClearAssignment, JobOnly, ServerSound
<1>3. /\ job' = [status |-> "PENDING", assigned |-> Nobody, version |-> n]
      /\ kept' = (kept \/ (was.op = "decline" /\ ~was.closed))
      /\ call' = [call EXCEPT ![Server] = NoCall]
  BY <1>1 DEF ClearAssignment, Go
<1>4. n = job.version + (IF was.op = "cancel" \/ was.closed THEN 1 ELSE 0)
  BY <1>1, <1>2 DEF NextVersion
<1>5. n \in Versions
  BY <1>2, <1>4, ChatAssumption DEF Versions
<1>6. job' \in JobDoc /\ job'.version = n /\ job'.assigned = Nobody
  BY <1>3, <1>5 DEF JobDoc
<1>7. kept' \in BOOLEAN
  BY <1>2, <1>3 DEF CallDoc, ChatIInv, ChatTypeOK
<1>8. ServerSound(NoCall)'
  BY EmptyRecords DEF ServerSound
<1>9. PrivateInv'
  <2> SUFFICES ASSUME ~kept' PROVE \E who \in Tenants : Private(who)'
    BY DEF PrivateInv
  <2>1. ~kept /\ n = job.version + 1
    BY <1>2, <1>3, <1>4
  <2>2. PICK who \in Tenants : Private(who)
    BY <1>2, <2>1 DEF ChatIInv, PrivateInv
  <2>3. who[n] = Nobody /\ \A v \in Versions : v > n => who[v] = Nobody
    <3>1. \A v \in Versions : v > job.version => who[v] = Nobody
      BY <2>2 DEF Private
    <3>2. job.version \in Nat /\ Versions \subseteq Nat
      BY <1>2 DEF Versions
    <3>3. n > job.version /\ \A v \in Versions : v > n => v > job.version
      BY <2>1, <3>2
    <3> QED
      BY <1>5, <3>1, <3>3
  <2>4. ASSUME NEW c \in Calls PROVE call'[c].with \subseteq Fit(who[call'[c].version])
    <3>1. call'[Server] = NoCall /\ (c # Server => call'[c] = call[c])
      BY <1>3, ServerReads DEF ChatIInv, ChatTypeOK
    <3> QED
      BY <2>2, <3>1, EmptyRecords DEF Private
  <2>5. Private(who)'
    BY <1>2, <1>6, <2>2, <2>3, <2>4 DEF Private, JobOnly
  <2> QED
    BY <2>5
<1> QED
  BY <1>2, <1>3, <1>6, <1>7, <1>8, <1>9, EmptyRecords, JobStep

\* The hazard ends, and its room with it.
LEMMA HazardStep ==
  ASSUME ChatIInv, OnHazard, job' \in JobDoc, UNCHANGED <<scope, call, joined, kept, replaced, unheard>>,
         job'.version = job.version, job'.status = "CLOSED",
         rooms' \in [Versions -> RoomDoc], NoGhosts', messages' \in [Versions -> SUBSET SUBSET Helpers],
         sweep'.on \in BOOLEAN
  PROVE  ChatIInv'
<1>1. ChatTypeOK' /\ MeantAreTold'
  BY DEF ChatIInv, ChatTypeOK, MeantAreTold
<1>2. OnHazard' /\ PrivateInv' /\ ServerSound(call[Server])'
  BY DEF OnHazard, PrivateInv, ServerSound, ChatIInv
<1>3. ASSUME NEW c \in Calls PROVE CallSound(c, call[c])'
  BY <1>2 DEF CallSound, OnHazard, ChatIInv
<1>4. HazardInv'
  BY <1>2 DEF HazardInv, Live, ChatIInv
<1> QED
  BY <1>1, <1>2, <1>3, <1>4 DEF ChatIInv

LEMMA HazardSteps ==
  ASSUME ChatIInv, HazardEnds \/ SweepRoom \/ DeleteRoom
  PROVE  ChatIInv'
<1>1. /\ job \in JobDoc /\ rooms \in [Versions -> RoomDoc] /\ NoGhosts /\ 0 \in Versions
      /\ messages \in [Versions -> SUBSET SUBSET Helpers] /\ sweep.on \in BOOLEAN
      /\ (sweep.on => OnHazard /\ ~Live)
  BY Roles DEF ChatIInv, ChatTypeOK, HazardInv
<1>2. CASE HazardEnds
  <2>1. /\ OnHazard /\ job' = [job EXCEPT !.status = "CLOSED"]
        /\ UNCHANGED <<scope, rooms, messages, call, sweep, joined, kept, replaced, unheard>>
    BY <1>2 DEF HazardEnds
  <2>2. job' \in JobDoc /\ job'.version = job.version /\ job'.status = "CLOSED"
    BY <1>1, <2>1 DEF JobDoc
  <2>3. NoGhosts'
    BY <1>1, <2>1 DEF NoGhosts
  <2> QED
    BY <1>1, <2>1, <2>2, <2>3, HazardStep
<1>3. CASE SweepRoom
  <2>1. /\ OnHazard /\ job' = job /\ job.status = "CLOSED" /\ sweep'.on
        /\ UNCHANGED <<scope, rooms, messages, call, joined, kept, replaced, unheard>>
    BY <1>3 DEF SweepRoom, Live
  <2>2. NoGhosts'
    BY <1>1, <2>1 DEF NoGhosts
  <2> QED
    BY <1>1, <2>1, <2>2, HazardStep
<1>4. CASE DeleteRoom
  <2>1. PICK left : left = messages[0] \ sweep.seen
    OBVIOUS
  <2>2. /\ OnHazard /\ job' = job /\ job.status = "CLOSED"
        /\ UNCHANGED <<scope, call, joined, kept, replaced, unheard>>
        /\ rooms' = [rooms EXCEPT ![0] = NoRoom] /\ messages' = [messages EXCEPT ![0] = left]
        /\ sweep' = NoSweep
    BY <1>1, <1>4, <2>1 DEF DeleteRoom, Live
  <2>3. left \in SUBSET SUBSET Helpers
    BY <1>1, <2>1
  <2>4. messages' \in [Versions -> SUBSET SUBSET Helpers] /\ sweep'.on \in BOOLEAN
    BY <1>1, <2>2, <2>3 DEF NoSweep
  <2>5. rooms' \in [Versions -> RoomDoc] /\ NoGhosts'
    BY <1>1, <2>2, EmptyRecords DEF NoGhosts
  <2> QED
    BY <1>1, <2>2, <2>4, <2>5, HazardStep
<1> QED
  BY <1>2, <1>3, <1>4

LEMMA NextChatIInv == ChatIInv /\ [ChatNext]_chatVars => ChatIInv'
<1> SUFFICES ASSUME ChatIInv, [ChatNext]_chatVars PROVE ChatIInv'
  OBVIOUS
<1>1. CASE UNCHANGED chatVars
  BY <1>1 DEF chatVars, ChatIInv, ChatTypeOK, PrivateInv, Private, OnHazard, ServerSound, CallSound,
              HazardInv, Live, NoGhosts, MeantAreTold
<1>2. ASSUME NEW u \in Talkers, Enter(u) \/ Talk(u) PROVE ChatIInv'
  BY <1>2, UserSteps
<1>3. ASSUME NEW p \in Helpers, AssignHelper(p) PROVE ChatIInv'
  BY <1>3, AssignHelperStep
<1>4. CASE CloseTicket \/ GiveBack \/ RematchTow
  BY <1>4, CloseTicketStep, GiveBackStep, RematchTowStep
<1>5. CASE ServerStep
  BY <1>5, EventReadStep, EventRoomStep, EventWriteStep, EventFailsStep, ArchiveLookStep,
     ArchiveRoomStep, ArchiveFailsStep, ClearAssignmentStep DEF ServerStep
<1>6. CASE HazardEnds \/ SweepRoom \/ DeleteRoom
  BY <1>6, HazardSteps
<1> QED
  BY <1>1, <1>2, <1>3, <1>4, <1>5, <1>6 DEF ChatNext

LEMMA TenantsKeepOut == ChatIInv => StrangersKeptOut
<1> SUFFICES ASSUME ChatIInv, ~kept, ~OnHazard, NEW v \in Versions, NEW p \in Helpers, Reads(p, v)
             PROVE  /\ \A m \in messages[v] : m \subseteq {p}
                    /\ rooms[v].members \subseteq {Rider, p}
  BY DEF StrangersKeptOut
<1>1. PICK who \in Tenants : Private(who)
  BY DEF ChatIInv, PrivateInv
<1>2. who[v] = p
  <2>1. CASE p \in rooms[v].members
    BY <1>1, <2>1, Roles DEF Private, Fit
  <2>2. CASE v = job.version /\ p \in Parties
    BY <1>1, <2>2, Roles DEF Private, Parties
  <2> QED
    BY <2>1, <2>2 DEF Reads
<1> QED
  BY <1>1, <1>2 DEF Private, Fit

\* A ticket's chat is between its rider and one provider at a time, for any
\* helpers, calls in flight, givings back and swallowed errors: unless a room
\* was kept, a helper who may read a version finds nothing of another's there;
\* and unless a document was created over another, nobody in a room is skipped
\* by a push (chatService.open, send and pushChat; the archiving and the count
\* of chatVersion in updateDispatchStatus and declineMobileFix).
THEOREM ChatStaysPrivate == ChatSpec => []RoomsFitTheJob
<1>1. ChatIInv => RoomsFitTheJob
  BY TenantsKeepOut DEF RoomsFitTheJob, ChatIInv
<1> QED
  BY <1>1, InitChatIInv, NextChatIInv, PTL DEF ChatSpec

------------------------------------------------------------------------------
(* The drop-off *)

Destinations == Drops \cup {Absent}
Errands == {Absent, "send", "approve", "decline", "refuse", "pick", "deliver", "hand over"}
DropDoc == [over : BOOLEAN, dest : Destinations, declined : SUBSET Garages, needs : BOOLEAN]
EstimateDoc == [amount : Nat \cup {Absent}, by : Garages \cup {Absent},
                ends : {Absent, "live", "past"}, approved : BOOLEAN]
AskDoc == [op : Errands, dest : Destinations, declined : SUBSET Garages,
           amount : Nat \cup Destinations]

DropTypeOK ==
  /\ drop \in DropDoc /\ estimate \in EstimateDoc /\ asked \in [Actors -> AskDoc]
  /\ duty \in [Garages -> {"open", "off", "gone"}] /\ walkIn \in Garages \cup {Absent}
  /\ sent \in Nat /\ refused \in SUBSET Garages /\ misled \in BOOLEAN /\ crossed \in BOOLEAN

\* What the rider's handler read before it writes.
Meant(d) ==
  /\ d.op = "approve" => d.amount # Absent
  /\ d.op = "pick" => d.dest \notin d.declined

\* Every refusal is in the list that a pick is checked against, as long as no
\* handler wrote over what it had not seen.
DropIInv ==
  /\ DropTypeOK /\ Meant(asked[Driver])
  /\ ~crossed => refused \subseteq drop.declined
  /\ DropOffIsAgreed

LEMMA DropNames ==
  /\ Absent \notin Garages /\ Absent # "approve" /\ Absent # "pick"
  /\ Garages \subseteq Drops /\ Drops \subseteq Destinations /\ Absent \in Destinations
  /\ Driver \in Actors /\ Tower \in Actors /\ Garages \subseteq Actors /\ Place \in Drops
  BY DropOffAssumption DEF Drops, Destinations, Actors

LEMMA EmptyDocs ==
  /\ NotAsked \in AskDoc /\ NotAsked.op = Absent /\ NoEstimate \in EstimateDoc
  /\ NoEstimate.amount = Absent /\ NoEstimate.approved = FALSE /\ Meant(NotAsked)
  BY DropNames DEF NotAsked, AskDoc, Errands, NoEstimate, EstimateDoc, Meant

LEMMA InitDropIInv == DropInit => DropIInv
<1> SUFFICES ASSUME DropInit PROVE DropIInv
  OBVIOUS
<1>1. DropTypeOK
  <2>1. PICK d \in Drops : drop = [over |-> FALSE, dest |-> d, declined |-> {}, needs |-> FALSE]
    BY DEF DropInit
  <2>2. drop \in DropDoc
    BY <2>1, DropNames DEF DropDoc
  <2>3. asked \in [Actors -> AskDoc] /\ estimate \in EstimateDoc
    BY EmptyDocs DEF DropInit
  <2>4. duty \in [Garages -> {"open", "off", "gone"}]
    BY DEF DropInit
  <2>5. /\ walkIn \in Garages \cup {Absent} /\ sent \in Nat /\ refused \in SUBSET Garages
        /\ misled \in BOOLEAN /\ crossed \in BOOLEAN
    BY DEF DropInit
  <2> QED
    BY <2>2, <2>3, <2>4, <2>5 DEF DropTypeOK
<1>2. Meant(asked[Driver])
  BY DropNames, EmptyDocs DEF DropInit
<1>3. refused = {} /\ misled = FALSE /\ estimate = NoEstimate
  BY DEF DropInit
<1> QED
  BY <1>1, <1>2, <1>3, EmptyDocs DEF DropIInv, DropOffIsAgreed

\* A read: only what the handler remembers changes.
LEMMA ReadingKeeps ==
  ASSUME DropIInv, NEW a \in Actors, NEW op \in Errands, NEW dest \in Destinations,
         NEW amount \in Nat \cup Destinations, Reading(a, op, dest, amount),
         op = "approve" => amount # Absent, op = "pick" => dest \notin drop.declined
  PROVE  DropIInv'
<1>1. PICK d : d = [op |-> op, dest |-> dest, declined |-> drop.declined, amount |-> amount]
  OBVIOUS
<1>2. d \in AskDoc /\ Meant(d)
  BY <1>1 DEF AskDoc, Meant, DropIInv, DropTypeOK, DropDoc
<1>3. /\ asked' = [asked EXCEPT ![a] = d] /\ asked \in [Actors -> AskDoc]
      /\ UNCHANGED <<drop, estimate, duty, walkIn, sent, refused, misled, crossed>>
  BY <1>1 DEF Reading, DropIInv, DropTypeOK
<1>4. asked' \in [Actors -> AskDoc] /\ (asked'[Driver] = d \/ asked'[Driver] = asked[Driver])
  BY <1>2, <1>3, DropNames
<1>5. DropTypeOK'
  BY <1>3, <1>4 DEF DropIInv, DropTypeOK
<1>6. Meant(asked[Driver])'
  BY <1>2, <1>4 DEF DropIInv, Meant
<1> QED
  BY <1>3, <1>5, <1>6 DEF DropIInv, DropOffIsAgreed

\* A write that ends the handler of a.
LEMMA WritesEnds ==
  ASSUME DropIInv, NEW a \in Actors, NEW op, Writes(a, op)
  PROVE  asked' \in [Actors -> AskDoc] /\ Meant(asked[Driver])' /\ asked[a] \in AskDoc
<1>1. asked \in [Actors -> AskDoc] /\ asked' = [asked EXCEPT ![a] = NotAsked] /\ Meant(asked[Driver])
  BY DEF DropIInv, DropTypeOK, Writes
<1>2. asked' \in [Actors -> AskDoc] /\ (asked'[Driver] = NotAsked \/ asked'[Driver] = asked[Driver])
  BY <1>1, EmptyDocs, DropNames
<1> QED
  BY <1>1, <1>2, EmptyDocs DEF Meant

\* The four fields of an estimate that is cleared.
LEMMA ClearedEstimate ==
  ASSUME DropIInv
  PROVE  Cleared \in EstimateDoc /\ Cleared.amount = Absent /\ Cleared.approved = FALSE
  BY DEF Cleared, EstimateDoc, DropIInv, DropTypeOK

LEMMA EstimateSteps ==
  ASSUME DropIInv,
         \/ \E g \in Garages : SendRead(g) \/ SendWrite(g)
         \/ Lapse \/ ApproveRead \/ ApproveWrite
  PROVE  DropIInv'
<1>1. ASSUME NEW g \in Garages, SendRead(g) PROVE DropIInv'
  BY <1>1, DropNames, ReadingKeeps DEF SendRead, Errands
<1>2. ASSUME NEW g \in Garages, SendWrite(g) PROVE DropIInv'
  <2>1. /\ Writes(g, "send") /\ sent' = sent + 1 /\ crossed' = (crossed \/ drop.dest # g)
        /\ estimate' = [amount |-> sent, by |-> g, ends |-> "live", approved |-> FALSE]
        /\ UNCHANGED <<drop, duty, walkIn, refused, misled>>
    BY <1>2 DEF SendWrite, Crossing
  <2>2. asked' \in [Actors -> AskDoc] /\ Meant(asked[Driver])'
    BY <2>1, WritesEnds, DropNames
  <2>3. sent \in Nat /\ crossed \in BOOLEAN
    BY DEF DropIInv, DropTypeOK
  <2>4. estimate' \in EstimateDoc /\ estimate'.by = g /\ estimate'.approved = FALSE
    BY <2>1, <2>3 DEF EstimateDoc
  <2>5. sent' \in Nat
    BY <2>1, <2>3
  <2>6. DropTypeOK'
    BY <2>1, <2>2, <2>3, <2>4, <2>5 DEF DropIInv, DropTypeOK
  <2> QED
    BY <2>1, <2>2, <2>4, <2>6 DEF DropIInv, DropOffIsAgreed
<1>3. CASE Lapse
  <2>1. /\ estimate' = [estimate EXCEPT !.ends = "past"] /\ estimate \in EstimateDoc
        /\ UNCHANGED <<drop, duty, asked, walkIn, sent, refused, misled, crossed>>
    BY <1>3 DEF Lapse, DropIInv, DropTypeOK
  <2>2. /\ estimate' \in EstimateDoc /\ estimate'.amount = estimate.amount
        /\ estimate'.by = estimate.by /\ estimate'.approved = estimate.approved
    BY <2>1 DEF EstimateDoc
  <2>3. DropTypeOK'
    BY <2>1, <2>2 DEF DropIInv, DropTypeOK
  <2> QED
    BY <2>1, <2>2, <2>3 DEF DropIInv, DropOffIsAgreed, Meant
<1>4. CASE ApproveRead
  <2>1. /\ estimate.amount # Absent /\ Reading(Driver, "approve", drop.dest, estimate.amount)
        /\ drop.dest \in Destinations /\ estimate.amount \in Nat \cup Destinations
    BY <1>4, DropNames DEF ApproveRead, DropIInv, DropTypeOK, DropDoc, EstimateDoc
  <2> QED
    BY <2>1, DropNames, ReadingKeeps DEF Errands
<1>5. CASE ApproveWrite
  <2>1. /\ Writes(Driver, "approve") /\ estimate' = [estimate EXCEPT !.approved = TRUE]
        /\ crossed' = (crossed \/ estimate.amount # asked[Driver].amount)
        /\ UNCHANGED <<drop, duty, walkIn, sent, refused, misled>>
        /\ estimate \in EstimateDoc /\ crossed \in BOOLEAN
    BY <1>5 DEF ApproveWrite, Crossing, DropIInv, DropTypeOK
  <2>2. asked' \in [Actors -> AskDoc] /\ Meant(asked[Driver])'
    BY <2>1, WritesEnds, DropNames
  <2>3. asked[Driver].amount # Absent
    BY <2>1 DEF Writes, DropIInv, Meant
  <2>4. /\ estimate' \in EstimateDoc /\ estimate'.amount = estimate.amount
        /\ estimate'.by = estimate.by
    BY <2>1 DEF EstimateDoc
  <2>5. DropTypeOK'
    BY <2>1, <2>2, <2>4 DEF DropIInv, DropTypeOK
  <2> QED
    BY <2>1, <2>2, <2>3, <2>4, <2>5 DEF DropIInv, DropOffIsAgreed
<1> QED
  BY <1>1, <1>2, <1>3, <1>4, <1>5

LEMMA DeclineWriteStep ==
  ASSUME DropIInv, DeclineWrite
  PROVE  DropIInv'
<1>1. PICK was, shop : was = asked[Driver] /\ shop = was.amount
  OBVIOUS
<1>2. /\ Writes(Driver, "decline") /\ estimate' = Cleared
      /\ refused' = refused \cup ({shop} \cap Garages)
      /\ crossed' = (crossed \/ (drop.declined # was.declined \/ drop.dest # was.dest))
      /\ UNCHANGED <<duty, walkIn, sent, misled>>
  BY <1>1 DEF DeclineWrite, Crossing
<1>3. asked' \in [Actors -> AskDoc] /\ Meant(asked[Driver])' /\ was \in AskDoc
  BY <1>1, <1>2, WritesEnds, DropNames
<1>4. drop \in DropDoc /\ crossed \in BOOLEAN /\ was.declined \in SUBSET Garages /\ refused \in SUBSET Garages
  BY <1>3 DEF DropIInv, DropTypeOK, AskDoc
<1>5. PICK out, dest, needs :
        /\ out = (IF shop \in Garages THEN was.declined \cup {shop} ELSE drop.declined)
        /\ dest = (IF shop = was.dest /\ shop \in Garages THEN Absent ELSE drop.dest)
        /\ needs = (drop.needs \/ (shop = was.dest /\ shop \in Garages))
  OBVIOUS
<1>6. out \in SUBSET Garages /\ dest \in Destinations /\ needs \in BOOLEAN
  BY <1>4, <1>5, DropNames DEF DropDoc
<1>7. drop' = [drop EXCEPT !.declined = out, !.dest = dest, !.needs = needs]
  BY <1>1, <1>5 DEF DeclineWrite
<1>8. drop' \in DropDoc /\ drop'.declined = out /\ drop'.dest = dest
  BY <1>4, <1>6, <1>7 DEF DropDoc
<1>9. refused' \in SUBSET Garages /\ crossed' \in BOOLEAN
  BY <1>2, <1>4
<1>10. DropTypeOK'
  BY <1>2, <1>3, <1>8, <1>9, ClearedEstimate DEF DropIInv, DropTypeOK
<1>11. ASSUME ~crossed' PROVE refused' \subseteq drop'.declined /\ drop'.dest \notin refused' /\ ~misled'
  <2>1. /\ ~crossed /\ drop.declined = was.declined /\ drop.dest = was.dest
        /\ refused \subseteq drop.declined /\ drop.dest \notin refused /\ ~misled
    BY <1>2, <1>11 DEF DropIInv, DropOffIsAgreed
  <2>2. CASE shop \in Garages
    <3>1. refused' = refused \cup {shop} /\ out = drop.declined \cup {shop}
      BY <1>2, <1>5, <2>1, <2>2
    <3>2. dest \notin refused'
      BY <1>4, <1>5, <2>1, <2>2, <3>1, DropNames
    <3> QED
      BY <1>2, <1>8, <2>1, <3>1, <3>2
  <2>3. CASE shop \notin Garages
    BY <1>2, <1>5, <1>8, <2>1, <2>3
  <2> QED
    BY <2>2, <2>3
<1> QED
  BY <1>2, <1>3, <1>10, <1>11, ClearedEstimate DEF DropIInv, DropOffIsAgreed

LEMMA ShopDeclineWriteStep ==
  ASSUME DropIInv, NEW g \in Garages, ShopDeclineWrite(g)
  PROVE  DropIInv'
<1>1. PICK was, out : was = asked[g].declined /\ out = was \cup {g}
  OBVIOUS
<1>2. /\ Writes(g, "refuse") /\ estimate' = Cleared /\ refused' = refused \cup {g}
      /\ crossed' = (crossed \/ (drop.declined # was \/ drop.over))
      /\ drop' = [drop EXCEPT !.dest = Absent, !.needs = TRUE, !.declined = out]
      /\ UNCHANGED <<duty, walkIn, sent, misled>>
  BY <1>1 DEF ShopDeclineWrite, Crossing
<1>3. asked' \in [Actors -> AskDoc] /\ Meant(asked[Driver])' /\ was \in SUBSET Garages
  BY <1>1, <1>2, WritesEnds, DropNames DEF AskDoc
<1>4. /\ drop \in DropDoc /\ drop.over \in BOOLEAN /\ crossed \in BOOLEAN
      /\ refused \in SUBSET Garages /\ out \in SUBSET Garages
  BY <1>1, <1>3 DEF DropIInv, DropTypeOK, DropDoc
<1>5. drop' \in DropDoc /\ drop'.dest = Absent /\ drop'.declined = out
  BY <1>2, <1>4, DropNames DEF DropDoc
<1>6. refused' \in SUBSET Garages /\ crossed' \in BOOLEAN
  BY <1>2, <1>4
<1>7. DropTypeOK'
  BY <1>2, <1>3, <1>5, <1>6, ClearedEstimate DEF DropIInv, DropTypeOK
<1>8. ASSUME ~crossed' PROVE refused' \subseteq drop'.declined /\ drop'.dest \notin refused' /\ ~misled'
  <2>1. ~crossed /\ drop.declined = was /\ refused \subseteq drop.declined /\ ~misled
    BY <1>2, <1>8 DEF DropIInv, DropOffIsAgreed
  <2> QED
    BY <1>1, <1>2, <1>5, <1>6, <2>1, DropNames
<1> QED
  BY <1>2, <1>3, <1>7, <1>8, ClearedEstimate DEF DropIInv, DropOffIsAgreed

LEMMA PickWriteStep ==
  ASSUME DropIInv, PickWrite
  PROVE  DropIInv'
<1>1. PICK was, d : was = asked[Driver] /\ d = was.dest
  OBVIOUS
<1>2. /\ Writes(Driver, "pick") /\ estimate' = Cleared
      /\ crossed' = (crossed \/ d \in drop.declined \ was.declined)
      /\ drop' = [drop EXCEPT !.dest = d, !.needs = FALSE]
      /\ UNCHANGED <<duty, walkIn, sent, refused, misled>>
  BY <1>1 DEF PickWrite, Crossing
<1>3. asked' \in [Actors -> AskDoc] /\ Meant(asked[Driver])' /\ was \in AskDoc /\ d \in Destinations
  BY <1>1, <1>2, WritesEnds, DropNames DEF AskDoc
<1>4. drop \in DropDoc /\ crossed \in BOOLEAN /\ d \notin was.declined
  BY <1>1, <1>2 DEF DropIInv, DropTypeOK, Writes, Meant
<1>5. drop' \in DropDoc /\ drop'.dest = d /\ drop'.declined = drop.declined /\ crossed' \in BOOLEAN
  BY <1>2, <1>3, <1>4 DEF DropDoc
<1>6. DropTypeOK'
  BY <1>2, <1>3, <1>5, ClearedEstimate DEF DropIInv, DropTypeOK
<1>7. ASSUME ~crossed' PROVE refused' \subseteq drop'.declined /\ drop'.dest \notin refused' /\ ~misled'
  BY <1>2, <1>4, <1>5, <1>7 DEF DropIInv, DropOffIsAgreed
<1> QED
  BY <1>2, <1>3, <1>6, <1>7, ClearedEstimate DEF DropIInv, DropOffIsAgreed

LEMMA DropReads ==
  ASSUME DropIInv,
         \/ DeclineRead \/ (\E d \in Drops : PickRead(d)) \/ DeliverRead
         \/ \E g \in Garages : ShopDeclineRead(g)
  PROVE  DropIInv'
<1>1. drop.dest \in Destinations
  BY DEF DropIInv, DropTypeOK, DropDoc
<1>2. CASE DeclineRead
  <2>1. PICK g \in Garages \cup {drop.dest} : Reading(Driver, "decline", drop.dest, g)
    BY <1>2 DEF DeclineRead
  <2> QED
    BY <1>1, <2>1, DropNames, ReadingKeeps DEF Errands
<1>3. ASSUME NEW d \in Drops, PickRead(d) PROVE DropIInv'
  BY <1>3, DropNames, ReadingKeeps DEF PickRead, Errands
<1>4. CASE DeliverRead
  BY <1>1, <1>4, DropNames, ReadingKeeps DEF DeliverRead, Errands
<1>5. ASSUME NEW g \in Garages, ShopDeclineRead(g) PROVE DropIInv'
  BY <1>5, DropNames, ReadingKeeps DEF ShopDeclineRead, Errands
<1> QED
  BY <1>2, <1>3, <1>4, <1>5

LEMMA DeliverySteps ==
  ASSUME DropIInv, DeliverWrite \/ HandOver \/ CancelTow
  PROVE  DropIInv'
<1>1. /\ drop \in DropDoc /\ asked \in [Actors -> AskDoc] /\ asked[Tower] \in AskDoc
      /\ Meant(asked[Driver]) /\ misled \in BOOLEAN /\ crossed \in BOOLEAN
  BY DropNames DEF DropIInv, DropTypeOK
<1>2. CASE DeliverWrite
  <2>1. PICK d : d = [asked[Tower] EXCEPT !.op = "hand over"]
    OBVIOUS
  <2>2. d \in AskDoc /\ d.op = "hand over"
    BY <1>1, <2>1 DEF AskDoc, Errands
  <2>3. /\ asked' = [asked EXCEPT ![Tower] = d] /\ drop' = [drop EXCEPT !.over = TRUE]
        /\ UNCHANGED <<estimate, duty, walkIn, sent, refused, misled, crossed>>
    BY <1>2, <2>1 DEF DeliverWrite
  <2>4. drop' \in DropDoc /\ drop'.dest = drop.dest /\ drop'.declined = drop.declined
    BY <1>1, <2>3 DEF DropDoc
  <2>5. asked' \in [Actors -> AskDoc] /\ (asked'[Driver] = d \/ asked'[Driver] = asked[Driver])
    BY <1>1, <2>2, <2>3, DropNames
  <2>6. DropTypeOK' /\ Meant(asked[Driver])'
    BY <1>1, <2>2, <2>3, <2>4, <2>5 DEF DropIInv, DropTypeOK, Meant
  <2> QED
    BY <2>3, <2>4, <2>6 DEF DropIInv, DropOffIsAgreed
<1>3. CASE HandOver
  <2>1. PICK d : d = asked[Tower].dest
    OBVIOUS
  <2>2. /\ Writes(Tower, "hand over") /\ crossed' = (crossed \/ drop.dest # d)
        /\ walkIn' = (IF d \in Garages /\ duty[d] # "gone" THEN d ELSE Absent)
        /\ misled' = (misled \/ (d \in Garages /\ duty[d] # "gone" /\ d \in refused))
        /\ UNCHANGED <<drop, estimate, duty, sent, refused>>
    BY <1>3, <2>1 DEF HandOver, Crossing
  <2>3. asked' \in [Actors -> AskDoc] /\ Meant(asked[Driver])'
    BY <2>2, WritesEnds, DropNames
  <2>4. walkIn' \in Garages \cup {Absent} /\ misled' \in BOOLEAN /\ crossed' \in BOOLEAN
    BY <1>1, <2>2
  <2>5. DropTypeOK'
    BY <2>2, <2>3, <2>4 DEF DropIInv, DropTypeOK
  <2>6. ASSUME ~crossed' PROVE ~misled'
    BY <1>1, <2>2, <2>6 DEF DropIInv, DropOffIsAgreed
  <2> QED
    BY <2>2, <2>3, <2>5, <2>6 DEF DropIInv, DropOffIsAgreed
<1>4. CASE CancelTow
  <2>1. /\ drop' = [drop EXCEPT !.over = TRUE]
        /\ UNCHANGED <<estimate, duty, asked, walkIn, sent, refused, misled, crossed>>
    BY <1>4 DEF CancelTow
  <2>2. drop' \in DropDoc /\ drop'.dest = drop.dest /\ drop'.declined = drop.declined
    BY <1>1, <2>1 DEF DropDoc
  <2>3. DropTypeOK' /\ Meant(asked[Driver])'
    BY <1>1, <2>1, <2>2 DEF DropIInv, DropTypeOK, Meant
  <2> QED
    BY <2>1, <2>2, <2>3 DEF DropIInv, DropOffIsAgreed
<1> QED
  BY <1>2, <1>3, <1>4

LEMMA NextDropIInv == DropIInv /\ [DropNext]_dropVars => DropIInv'
<1> SUFFICES ASSUME DropIInv, [DropNext]_dropVars PROVE DropIInv'
  OBVIOUS
<1>1. CASE UNCHANGED dropVars
  BY <1>1 DEF dropVars, DropIInv, DropTypeOK, Meant, DropOffIsAgreed
<1>2. ASSUME NEW g \in Garages,
             SendRead(g) \/ SendWrite(g) \/ ShopDeclineRead(g) \/ ShopDeclineWrite(g)
      PROVE  DropIInv'
  BY <1>2, EstimateSteps, DropReads, ShopDeclineWriteStep
<1>3. ASSUME NEW g \in Garages, DutyChange(g) PROVE DropIInv'
  <2>1. PICK to \in {"open", "off", "gone"} :
          /\ duty' = [duty EXCEPT ![g] = to]
          /\ UNCHANGED <<drop, estimate, asked, walkIn, sent, refused, misled, crossed>>
    BY <1>3 DEF DutyChange
  <2>2. DropTypeOK' /\ Meant(asked[Driver])'
    BY <2>1 DEF DropIInv, DropTypeOK, Meant
  <2> QED
    BY <2>1, <2>2 DEF DropIInv, DropOffIsAgreed
<1>4. CASE Lapse \/ ApproveRead \/ ApproveWrite \/ DeclineRead \/ DeclineWrite
  BY <1>4, EstimateSteps, DropReads, DeclineWriteStep
<1>5. CASE (\E d \in Drops : PickRead(d)) \/ PickWrite
  BY <1>5, DropReads, PickWriteStep
<1>6. CASE DeliverRead \/ DeliverWrite \/ HandOver \/ CancelTow
  BY <1>6, DropReads, DeliverySteps
<1> QED
  BY <1>1, <1>2, <1>3, <1>4, <1>5, <1>6 DEF DropNext

\* For any shops, estimates and handlers in flight, each writing on what it read
\* before: until one has written over what it had not seen, the estimate is the
\* drop-off's own, only an estimate is approved, and no shop that refused is the
\* drop-off or is handed the vehicle (sendEstimate, approveEstimate,
\* declineEstimate, declineDestination, updateDispatchDestination, and the
\* delivery in updateDispatchStatus).
THEOREM DropOffStaysAgreed == DropSpec => []DropOffIsAgreed
<1>1. DropIInv => DropOffIsAgreed
  BY DEF DropIInv
<1> QED
  BY <1>1, InitDropIInv, NextDropIInv, PTL DEF DropSpec

------------------------------------------------------------------------------
(* The directory: what it keeps in order *)

\* What a call may be about to write.
Fresh == [accepting : BOOLEAN] \cup [suspended : BOOLEAN, accepting : BOOLEAN] \cup [type : Types]
Linking == [vehicle : Nat] \cup [plate : Plates, vehicle : Nat] \cup [plate : Plates]
Creates == [to : {"create"}, i : Ids, fields : ProviderDoc]
Patches == [to : {"provider"}, i : Ids, fields : Fresh \cup Linking \cup {Denied}]
Decides == [to : {"decide"}, i : Ids, fields : [status : {"ACTIVE", "DENIED"}]]
OfVehicles == [to : {"vehicle"}, i : Nat, fields : VehicleDoc]
              \cup [to : {"retype"}, i : Nat, fields : [type : Types]] \cup [to : {"scrap"}, i : Nat]
OfUsers == [to : {"chosen"}, i : Users, v : Nat \cup {Nothing}]
OfRows == [to : {"row"}, i : Ids, at : {"none", "fresh"}]
OfReports == [to : {"reported"}, i : Nat, fields : ReportDoc]
             \cup [to : {"report"}, i : Nat, fields : [status : {"DISMISSED", "RESOLVED"}]]
DirWrites == Creates \cup Patches \cup Decides \cup OfVehicles \cup OfUsers \cup OfRows \cup OfReports

DirTypeOK ==
  /\ DOMAIN prov \subseteq Ids /\ IsFiniteSet(DOMAIN prov)
  /\ \A i \in DOMAIN prov : prov[i] \in ProviderDoc
  /\ DOMAIN vehicle \subseteq 0..calls /\ \A v \in DOMAIN vehicle : vehicle[v] \in VehicleDoc
  /\ DOMAIN report \subseteq 0..calls /\ \A k \in DOMAIN report : report[k] \in ReportDoc
  /\ chosen \in [Users -> Nat \cup {Nothing}]
  /\ DOMAIN row \subseteq Ids /\ IsFiniteSet(DOMAIN row)
  /\ jobs \subseteq (DOMAIN prov) \X {"assigned", "pending", "named"}
  /\ req \in [Slots -> Seq(DirWrites)] /\ calls \in Nat

\* The writes s of a call are about what is there, or what the call creates first, and
\* about vehicles and reports that nobody else numbers.
Reaches(s, n) ==
  /\ s[n].to = "create" => n = 1
  /\ s[n].to \in {"provider", "decide"} =>
       s[n].i \in DOMAIN prov \/ (n > 1 /\ s[1].to = "create" /\ s[1].i = s[n].i)
  /\ s[n].to = "report" => s[n].i \in DOMAIN report
Numbers(s, n, c) ==
  /\ s[n].to = "vehicle" => s[n].i <= c
  /\ s[n].to = "reported" => s[n].i <= c /\ s[n].i \notin DOMAIN report /\ Len(s) = 1
Proper(s, c) == \A n \in DOMAIN s : Reaches(s, n) /\ Numbers(s, n, c)
NoSharedNumber ==
  \A q, r \in Slots : q # r =>
    \A m \in DOMAIN req[q], n \in DOMAIN req[r] :
      req[q][m].to = "reported" /\ req[r][n].to = "reported" => req[q][m].i # req[r][n].i
OnlyRows == \A n \in DOMAIN req[Cron] : req[Cron][n].to = "row"

DirKept ==
  DirTypeOK /\ (\A r \in Slots : Proper(req[r], calls)) /\ NoSharedNumber /\ OnlyRows

\* The call s, at its n-th write, has these before it.
Before(s, n) == {s[m] : m \in 1..(n - 1)}
Has(s, n, i, u) ==
  (i \in DOMAIN prov /\ prov[i].op = u)
  \/ \E w \in Before(s, n) : w.to = "create" /\ w.i = i /\ w.fields.op = u
Owned(s, n, v, u) ==
  (v \in DOMAIN vehicle /\ vehicle[v].owner = u)
  \/ \E w \in Before(s, n) : w.to = "vehicle" /\ w.i = v /\ w.fields.owner = u
Changes(w, field) == w.to = "provider" /\ field \in DOMAIN w.fields

\* What keeps the records in agreement when nobody comes between.
Registers(w) ==
  w.to = "create" =>
    /\ \A k \in DOMAIN prov :
         prov[k].op = w.fields.op /\ prov[k].kind = w.fields.kind => prov[k].status = "DENIED"
    /\ w.fields.plate # Nothing => \A k \in OnPlate(prov, w.fields.plate) : prov[k].op = w.fields.op
    /\ w.i \in Plates => w.i = w.fields.plate
    /\ w.fields.vehicle # Nothing =>
         w.fields.vehicle \in DOMAIN vehicle /\ vehicle[w.fields.vehicle].owner = w.fields.op
Brings(s, n) ==
  s[n].to = "vehicle" => s[n].i \notin DOMAIN vehicle /\ \A w \in Before(s, n) : w.to # "vehicle"
Links(s, n) ==
  Changes(s[n], "vehicle") /\ s[n].fields.vehicle # Nothing =>
    /\ \E u \in Users : Has(s, n, s[n].i, u) /\ Owned(s, n, s[n].fields.vehicle, u)
    /\ \A w \in Before(s, n) : w.to # "scrap"
Replates(s, n) ==
  Changes(s[n], "plate") =>
    /\ s[n].i \in DOMAIN prov
    /\ \A k \in OnPlate(prov, s[n].fields.plate) : prov[k].op = prov[s[n].i].op
    /\ \A w \in Before(s, n) : w.to = "provider" /\ ~Changes(w, "plate")
Denies(w) == Changes(w, "status") => <<w.i, "assigned">> \notin jobs
Scraps(s, n) ==
  s[n].to = "scrap" =>
    /\ \A k \in Linked(s[n].i) : Patch(k, Denied) \in Before(s, n)
    /\ \A w \in Before(s, n) : w.to = "row" \/ (w.to = "provider" /\ w.fields = Denied)
InOrder(s) ==
  \A n \in DOMAIN s :
    Registers(s[n]) /\ Brings(s, n) /\ Links(s, n) /\ Replates(s, n) /\ Denies(s[n]) /\ Scraps(s, n)

Agreeing ==
  /\ OneAccountPerPlate(prov) /\ OneRecordPerKind(prov)
  /\ VehicleIsOwn(prov, vehicle) /\ JobIsLicensed
AloneOnDesk == \A q, r \in Slots : req[q] # <<>> /\ req[r] # <<>> => q = r

\* While nothing is tangled, the records agree and only one call is under way, which
\* keeps them in agreement.
Untangled == ~tangled => Agreeing /\ AloneOnDesk /\ \A r \in Slots : InOrder(req[r])

------------------------------------------------------------------------------
(* Records and lists *)

LEMMA NoneApart == Nothing \notin Ids /\ Nothing \notin Users /\ Nothing \notin Nat
BY ProvidersAssumption DEF Ids

PatchFits(f) ==
  /\ DOMAIN f \subseteq {"plate", "type", "vehicle", "status", "suspended", "accepting"}
  /\ "plate" \in DOMAIN f => f.plate \in Plates
  /\ "type" \in DOMAIN f => f.type \in Types
  /\ "vehicle" \in DOMAIN f => f.vehicle \in Nat \cup {Nothing}
  /\ "status" \in DOMAIN f => f.status \in {"ACTIVE", "DENIED"}
  /\ "suspended" \in DOMAIN f => f.suspended \in BOOLEAN
  /\ "accepting" \in DOMAIN f => f.accepting \in BOOLEAN

LEMMA WithDoc ==
  ASSUME NEW d \in ProviderDoc, NEW f, PatchFits(f)
  PROVE  /\ With(d, f) \in ProviderDoc
         /\ With(d, f).op = d.op /\ With(d, f).kind = d.kind
         /\ With(d, f).plate = IF "plate" \in DOMAIN f THEN f.plate ELSE d.plate
         /\ With(d, f).vehicle = IF "vehicle" \in DOMAIN f THEN f.vehicle ELSE d.vehicle
         /\ With(d, f).status = IF "status" \in DOMAIN f THEN f.status ELSE d.status
<1>1. DOMAIN d = {"kind", "op", "plate", "type", "vehicle", "status", "suspended", "accepting"}
  BY DEF ProviderDoc
<1>2. DOMAIN With(d, f) = DOMAIN d
  BY DEF With
<1>3. \A k \in DOMAIN d : With(d, f)[k] = IF k \in DOMAIN f THEN f[k] ELSE d[k]
  BY DEF With
<1>4. /\ With(d, f).op = d.op /\ With(d, f).kind = d.kind
  BY <1>1, <1>3 DEF PatchFits
<1>5. /\ With(d, f).plate = IF "plate" \in DOMAIN f THEN f.plate ELSE d.plate
      /\ With(d, f).vehicle = IF "vehicle" \in DOMAIN f THEN f.vehicle ELSE d.vehicle
      /\ With(d, f).status = IF "status" \in DOMAIN f THEN f.status ELSE d.status
      /\ With(d, f).type = IF "type" \in DOMAIN f THEN f.type ELSE d.type
      /\ With(d, f).suspended = IF "suspended" \in DOMAIN f THEN f.suspended ELSE d.suspended
      /\ With(d, f).accepting = IF "accepting" \in DOMAIN f THEN f.accepting ELSE d.accepting
  BY <1>1, <1>3
<1>6. With(d, f) \in ProviderDoc
  <2>1. /\ d.kind \in Kinds /\ d.op \in Users /\ d.plate \in Plates \cup {Nothing}
        /\ d.type \in Types \cup {Nothing} /\ d.vehicle \in Nat \cup {Nothing}
        /\ d.status \in {"PENDING", "ACTIVE", "DENIED"} /\ d.suspended \in BOOLEAN
        /\ d.accepting \in BOOLEAN
    BY DEF ProviderDoc
  <2> DEFINE w == [k \in DOMAIN d |-> With(d, f)[k]]
  <2>2. With(d, f) = w
    BY DEF With
  <2>3. /\ With(d, f).kind \in Kinds /\ With(d, f).op \in Users /\ With(d, f).plate \in Plates \cup {Nothing}
        /\ With(d, f).type \in Types \cup {Nothing} /\ With(d, f).vehicle \in Nat \cup {Nothing}
        /\ With(d, f).status \in {"PENDING", "ACTIVE", "DENIED"} /\ With(d, f).suspended \in BOOLEAN
        /\ With(d, f).accepting \in BOOLEAN
    BY <2>1, <1>4, <1>5 DEF PatchFits
  <2>4. QED
    BY <1>1, <1>2, <2>2, <2>3 DEF ProviderDoc
<1>7. QED
  BY <1>4, <1>5, <1>6

LEMMA Denying == PatchFits(Denied) /\ DOMAIN Denied = {"status", "accepting", "vehicle"}
                 /\ Denied.vehicle = Nothing /\ Denied.status = "DENIED"
BY DEF PatchFits, Denied

LEMMA PatchesFit ==
  ASSUME NEW f \in Fresh \cup Linking \cup {Denied}
  PROVE  PatchFits(f) /\ ("status" \in DOMAIN f => f = Denied)
<1>1. CASE f \in Fresh
  BY <1>1 DEF Fresh, PatchFits
<1>2. CASE f \in Linking
  BY <1>2 DEF Linking, PatchFits
<1>3. QED
  BY <1>1, <1>2, Denying

LEMMA WriteForms ==
  ASSUME NEW w \in DirWrites
  PROVE  /\ w.to = "create" => w \in Creates
         /\ w.to = "provider" => w \in Patches
         /\ w.to = "decide" => w \in Decides
         /\ w.to = "vehicle" => w \in [to : {"vehicle"}, i : Nat, fields : VehicleDoc]
         /\ w.to = "retype" => w \in [to : {"retype"}, i : Nat, fields : [type : Types]]
         /\ w.to = "scrap" => w \in [to : {"scrap"}, i : Nat]
         /\ w.to = "chosen" => w \in OfUsers
         /\ w.to = "row" => w \in OfRows
         /\ w.to = "reported" => w \in [to : {"reported"}, i : Nat, fields : ReportDoc]
         /\ w.to = "report" => w \in [to : {"report"}, i : Nat, fields : [status : {"DISMISSED", "RESOLVED"}]]
         /\ w.to \in {"create", "provider", "decide", "vehicle", "retype", "scrap", "chosen", "row", "reported", "report"}
BY DEF DirWrites, Creates, Patches, Decides, OfVehicles, OfUsers, OfRows, OfReports

LEMMA ListOf ==
  ASSUME NEW S, IsFiniteSet(S)
  PROVE  /\ SetToSeq(S) \in Seq(S) /\ Len(SetToSeq(S)) = Cardinality(S) /\ Cardinality(S) \in Nat
         /\ \A n \in 1..Cardinality(S) : SetToSeq(S)[n] \in S
         /\ \A x \in S : \E n \in 1..Cardinality(S) : SetToSeq(S)[n] = x
<1> DEFINE D == 1..Cardinality(S)
<1>1. Cardinality(S) \in Nat /\ ExistsBijection(D, S)
  BY FS_CardinalityType
<1>2. IsFiniteSet(D) /\ Cardinality(D) = Cardinality(S)
  BY <1>1, FS_Interval
<1>3. \E f \in [D -> S] : IsInjective(f)
  BY <1>1 DEF ExistsBijection, Bijection, Injection
<1>4. SetToSeq(S) \in [D -> S] /\ IsInjective(SetToSeq(S))
  BY <1>3 DEF SetToSeq
<1>5. SetToSeq(S) \in Injection(D, S)
  BY <1>4 DEF Injection
<1>6. SetToSeq(S) \in Surjection(D, S)
  BY <1>2, <1>5, FS_Injection
<1>7. \A x \in S : \E n \in D : SetToSeq(S)[n] = x
  BY <1>6 DEF Surjection
<1>8. QED
  BY <1>1, <1>4, <1>7

LEMMA FiniteOver ==
  ASSUME NEW f, NEW i, NEW x, IsFiniteSet(DOMAIN f)
  PROVE  DOMAIN Over(f, i, x) = DOMAIN f \cup {i} /\ IsFiniteSet(DOMAIN Over(f, i, x))
<1>1. DOMAIN Over(f, i, x) = DOMAIN f \cup {i}
  BY DEF Over
<1>2. IsFiniteSet(DOMAIN f \cup {i})
  BY FS_AddElement
<1>3. QED
  BY <1>1, <1>2

LEMMA FiniteDrop ==
  ASSUME NEW f, NEW i, IsFiniteSet(DOMAIN f)
  PROVE  DOMAIN Drop(f, i) = DOMAIN f \ {i} /\ IsFiniteSet(DOMAIN Drop(f, i))
<1>1. DOMAIN Drop(f, i) = DOMAIN f \ {i}
  BY DEF Drop
<1>2. IsFiniteSet(DOMAIN f \ {i})
  BY FS_RemoveElement
<1>3. QED
  BY <1>1, <1>2

(* What one write does to the records *)

LEMMA ApplyProv ==
  ASSUME DirTypeOK, NEW w \in DirWrites, w.to \in {"provider", "decide"} => w.i \in DOMAIN prov, Apply(w)
  PROVE  /\ DOMAIN prov' \subseteq Ids /\ IsFiniteSet(DOMAIN prov')
         /\ \A i \in DOMAIN prov' : prov'[i] \in ProviderDoc
         /\ w.to \notin {"create", "provider", "decide"} => prov' = prov
         /\ w.to = "create" => /\ DOMAIN prov' = DOMAIN prov \cup {w.i} /\ prov'[w.i] = w.fields
                               /\ \A i \in DOMAIN prov \ {w.i} : prov'[i] = prov[i]
         /\ w.to \in {"provider", "decide"} =>
              /\ DOMAIN prov' = DOMAIN prov /\ prov'[w.i] = With(prov[w.i], w.fields)
              /\ \A i \in DOMAIN prov \ {w.i} : prov'[i] = prov[i]
<1>1. DOMAIN prov \subseteq Ids /\ IsFiniteSet(DOMAIN prov) /\ \A i \in DOMAIN prov : prov[i] \in ProviderDoc
  BY DEF DirTypeOK
<1>2. CASE w.to = "create"
  <2>1. prov' = Over(prov, w.i, w.fields) /\ w.i \in Ids /\ w.fields \in ProviderDoc
    BY <1>2, WriteForms DEF Apply, Creates
  <2>2. DOMAIN prov' = DOMAIN prov \cup {w.i} /\ IsFiniteSet(DOMAIN prov')
    BY <1>1, <2>1, FiniteOver
  <2>3. prov'[w.i] = w.fields /\ \A i \in DOMAIN prov \ {w.i} : prov'[i] = prov[i]
    BY <2>1 DEF Over
  <2>4. QED
    BY <1>1, <1>2, <2>1, <2>2, <2>3
<1>3. CASE w.to \in {"provider", "decide"}
  <2>1. prov' = Over(prov, w.i, With(prov[w.i], w.fields))
    BY <1>3 DEF Apply
  <2>2. DOMAIN prov' = DOMAIN prov
    BY <1>3, <2>1 DEF Over
  <2>3. prov'[w.i] = With(prov[w.i], w.fields) /\ \A i \in DOMAIN prov \ {w.i} : prov'[i] = prov[i]
    BY <2>1 DEF Over
  <2>4. PatchFits(w.fields)
    <3>1. CASE w.to = "provider"
      BY <3>1, WriteForms, PatchesFit DEF Patches
    <3>2. CASE w.to = "decide"
      BY <3>2, WriteForms DEF Decides, PatchFits
    <3>3. QED
      BY <1>3, <3>1, <3>2
  <2>5. With(prov[w.i], w.fields) \in ProviderDoc
    BY <1>1, <1>3, <2>4, WithDoc
  <2>6. IsFiniteSet(DOMAIN prov')
    BY <1>1, <2>2
  <2>7. QED
    BY <1>1, <1>3, <2>2, <2>3, <2>5, <2>6
<1>4. CASE w.to \notin {"create", "provider", "decide"}
  <2>1. prov' = prov
    BY <1>4 DEF Apply
  <2>2. QED
    BY <1>1, <1>4, <2>1
<1>5. QED
  BY <1>2, <1>3, <1>4

LEMMA ApplyVehicle ==
  ASSUME DirTypeOK, NEW w \in DirWrites, w.to = "vehicle" => w.i <= calls, ~Fails(w), Apply(w)
  PROVE  /\ DOMAIN vehicle' \subseteq 0..calls
         /\ \A v \in DOMAIN vehicle' : vehicle'[v] \in VehicleDoc
         /\ w.to \notin {"vehicle", "retype", "scrap"} => vehicle' = vehicle
         /\ w.to = "vehicle" => /\ DOMAIN vehicle' = DOMAIN vehicle \cup {w.i} /\ vehicle'[w.i] = w.fields
                                /\ \A v \in DOMAIN vehicle \ {w.i} : vehicle'[v] = vehicle[v]
         /\ w.to = "retype" => /\ DOMAIN vehicle' = DOMAIN vehicle
                               /\ \A v \in DOMAIN vehicle : vehicle'[v].owner = vehicle[v].owner
         /\ w.to = "scrap" => /\ DOMAIN vehicle' = DOMAIN vehicle \ {w.i}
                              /\ \A v \in DOMAIN vehicle' : vehicle'[v] = vehicle[v]
<1>1. DOMAIN vehicle \subseteq 0..calls /\ calls \in Nat /\ \A v \in DOMAIN vehicle : vehicle[v] \in VehicleDoc
  BY DEF DirTypeOK
<1>2. CASE w.to = "vehicle"
  <2>1. vehicle' = Over(vehicle, w.i, w.fields) /\ w.i \in Nat /\ w.fields \in VehicleDoc
    BY <1>2, WriteForms DEF Apply
  <2>2. QED
    BY <1>1, <1>2, <2>1 DEF Over
<1>3. CASE w.to = "retype"
  <2>1. vehicle' = Over(vehicle, w.i, With(vehicle[w.i], w.fields)) /\ w.fields \in [type : Types]
        /\ w.i \in DOMAIN vehicle
    BY <1>3, WriteForms DEF Apply, Fails
  <2> DEFINE d == vehicle[w.i]
  <2>2. d \in VehicleDoc
    BY <1>1, <2>1
  <2>3. DOMAIN d = {"owner", "type"} /\ DOMAIN w.fields = {"type"} /\ d.owner \in Users
        /\ w.fields.type \in Types
    BY <2>1, <2>2 DEF VehicleDoc
  <2>4. DOMAIN With(d, w.fields) = {"owner", "type"} /\ With(d, w.fields).owner = d.owner
        /\ With(d, w.fields).type = w.fields.type
    BY <2>3 DEF With
  <2>5. With(d, w.fields) = [k \in {"owner", "type"} |-> With(d, w.fields)[k]]
    BY <2>3 DEF With
  <2>6. With(d, w.fields) \in VehicleDoc
    BY <2>3, <2>4, <2>5 DEF VehicleDoc
  <2>7. DOMAIN vehicle' = DOMAIN vehicle /\ vehicle'[w.i] = With(d, w.fields)
        /\ \A v \in DOMAIN vehicle \ {w.i} : vehicle'[v] = vehicle[v]
    BY <2>1 DEF Over
  <2>8. QED
    BY <1>1, <1>3, <2>4, <2>6, <2>7
<1>4. CASE w.to = "scrap"
  <2>1. vehicle' = Drop(vehicle, w.i)
    BY <1>4 DEF Apply
  <2>2. QED
    BY <1>1, <1>4, <2>1 DEF Drop
<1>5. CASE w.to \notin {"vehicle", "retype", "scrap"}
  <2>1. vehicle' = vehicle
    BY <1>5 DEF Apply
  <2>2. QED
    BY <1>1, <1>5, <2>1
<1>6. QED
  BY <1>2, <1>3, <1>4, <1>5

LEMMA ApplyReport ==
  ASSUME DirTypeOK, NEW w \in DirWrites, w.to = "reported" => w.i <= calls,
         w.to = "report" => w.i \in DOMAIN report, Apply(w)
  PROVE  /\ DOMAIN report' \subseteq 0..calls
         /\ \A k \in DOMAIN report' : report'[k] \in ReportDoc
         /\ w.to # "reported" => DOMAIN report' = DOMAIN report
         /\ w.to = "reported" => /\ DOMAIN report' = DOMAIN report \cup {w.i}
                                 /\ \A k \in DOMAIN report \ {w.i} : report'[k] = report[k]
         /\ w.to = "report" => \A k \in DOMAIN report \ {w.i} : report'[k] = report[k]
         /\ w.to \notin {"reported", "report"} => report' = report
<1>1. DOMAIN report \subseteq 0..calls /\ calls \in Nat /\ \A k \in DOMAIN report : report[k] \in ReportDoc
  BY DEF DirTypeOK
<1>2. CASE w.to = "reported"
  <2>1. report' = Over(report, w.i, w.fields) /\ w.i \in Nat /\ w.fields \in ReportDoc
    BY <1>2, WriteForms DEF Apply
  <2>2. QED
    BY <1>1, <1>2, <2>1 DEF Over
<1>3. CASE w.to = "report"
  <2>1. report' = Over(report, w.i, With(report[w.i], w.fields))
        /\ w.fields \in [status : {"DISMISSED", "RESOLVED"}]
    BY <1>3, WriteForms DEF Apply
  <2> DEFINE d == report[w.i]
  <2>2. d \in ReportDoc
    BY <1>1, <1>3
  <2>3. DOMAIN d = {"i", "by", "status"} /\ DOMAIN w.fields = {"status"} /\ d.i \in Ids /\ d.by \in Users
        /\ w.fields.status \in {"OPEN", "DISMISSED", "RESOLVED"}
    BY <2>1, <2>2 DEF ReportDoc
  <2>4. DOMAIN With(d, w.fields) = {"i", "by", "status"} /\ With(d, w.fields).i = d.i
        /\ With(d, w.fields).by = d.by /\ With(d, w.fields).status = w.fields.status
    BY <2>3 DEF With
  <2>5. With(d, w.fields) = [k \in {"i", "by", "status"} |-> With(d, w.fields)[k]]
    BY <2>3 DEF With
  <2>6. With(d, w.fields) \in ReportDoc
    BY <2>3, <2>4, <2>5 DEF ReportDoc
  <2>7. DOMAIN report' = DOMAIN report /\ report'[w.i] = With(d, w.fields)
        /\ \A k \in DOMAIN report \ {w.i} : report'[k] = report[k]
    BY <1>3, <2>1 DEF Over
  <2>8. QED
    BY <1>1, <1>3, <2>6, <2>7
<1>4. CASE w.to \notin {"reported", "report"}
  <2>1. report' = report
    BY <1>4 DEF Apply
  <2>2. QED
    BY <1>1, <1>4, <2>1
<1>5. QED
  BY <1>2, <1>3, <1>4

LEMMA ApplyTypes ==
  ASSUME DirTypeOK, NEW w \in DirWrites, w.to \in {"provider", "decide"} => w.i \in DOMAIN prov,
         w.to \in {"vehicle", "reported"} => w.i <= calls, w.to = "report" => w.i \in DOMAIN report,
         ~Fails(w), Apply(w), UNCHANGED <<jobs, calls>>, req' \in [Slots -> Seq(DirWrites)]
  PROVE  DirTypeOK'
<1>1. /\ DOMAIN prov' \subseteq Ids /\ IsFiniteSet(DOMAIN prov')
      /\ \A i \in DOMAIN prov' : prov'[i] \in ProviderDoc
      /\ DOMAIN prov \subseteq DOMAIN prov'
  BY ApplyProv
<1>2. DOMAIN vehicle' \subseteq 0..calls /\ \A v \in DOMAIN vehicle' : vehicle'[v] \in VehicleDoc
  BY ApplyVehicle
<1>3. DOMAIN report' \subseteq 0..calls /\ \A k \in DOMAIN report' : report'[k] \in ReportDoc
  BY ApplyReport
<1>4. chosen' \in [Users -> Nat \cup {Nothing}]
  <2>1. chosen \in [Users -> Nat \cup {Nothing}]
    BY DEF DirTypeOK
  <2>2. w.to = "chosen" => w.i \in Users /\ w.v \in Nat \cup {Nothing}
    BY WriteForms DEF OfUsers
  <2>3. QED
    BY <2>1, <2>2 DEF Apply
<1>5. DOMAIN row' \subseteq Ids /\ IsFiniteSet(DOMAIN row')
  <2>1. DOMAIN row \subseteq Ids /\ IsFiniteSet(DOMAIN row)
    BY DEF DirTypeOK
  <2>2. w.to = "row" => w.i \in Ids
    BY WriteForms DEF OfRows
  <2>3. row' = row \/ (w.to = "row" /\ (row' = Drop(row, w.i) \/ row' = Over(row, w.i, w.at)))
    BY DEF Apply
  <2>4. CASE row' = Drop(row, w.i)
    <3>1. DOMAIN row' = DOMAIN row \ {w.i} /\ IsFiniteSet(DOMAIN row')
      BY <2>1, <2>4, FiniteDrop
    <3>2. QED
      BY <2>1, <3>1
  <2>5. CASE w.to = "row" /\ row' = Over(row, w.i, w.at)
    <3>1. DOMAIN row' = DOMAIN row \cup {w.i} /\ IsFiniteSet(DOMAIN row')
      BY <2>1, <2>5, FiniteOver
    <3>2. QED
      BY <2>1, <2>2, <2>5, <3>1
  <2>6. QED
    BY <2>1, <2>3, <2>4, <2>5
<1>6. jobs' \subseteq (DOMAIN prov') \X {"assigned", "pending", "named"}
  <2>1. jobs \subseteq (DOMAIN prov) \X {"assigned", "pending", "named"}
    BY DEF DirTypeOK
  <2>2. QED
    BY <1>1, <2>1
<1>7. calls' = calls /\ calls \in Nat
  BY DEF DirTypeOK
<1>8. QED
  BY <1>1, <1>2, <1>3, <1>4, <1>5, <1>6, <1>7 DEF DirTypeOK

------------------------------------------------------------------------------
(* A write keeps the documents and the calls in order *)

LEMMA Heads ==
  ASSUME NEW S, NEW s \in Seq(S), s # <<>>
  PROVE  /\ Head(s) = s[1] /\ s[1] \in S /\ Len(s) \in Nat /\ Len(s) >= 1
         /\ DOMAIN s = 1..Len(s) /\ 1 \in DOMAIN s
         /\ Tail(s) \in Seq(S) /\ Len(Tail(s)) = Len(s) - 1 /\ DOMAIN Tail(s) = 1..(Len(s) - 1)
         /\ \A n \in DOMAIN Tail(s) : n \in Nat /\ n >= 1 /\ Tail(s)[n] = s[n + 1] /\ n + 1 \in DOMAIN s
<1>1. Len(s) \in Nat /\ Len(s) >= 1 /\ DOMAIN s = 1..Len(s)
  OBVIOUS
<1>2. Head(s) = s[1] /\ s[1] \in S /\ 1 \in DOMAIN s
  BY <1>1
<1>3. Tail(s) \in Seq(S) /\ Len(Tail(s)) = Len(s) - 1
  BY <1>1
<1>4. DOMAIN Tail(s) = 1..(Len(s) - 1)
  BY <1>1, <1>3
<1>5. \A n \in 1..(Len(s) - 1) : Tail(s)[n] = s[n + 1] /\ n + 1 \in 1..Len(s)
  BY <1>1
<1>6. QED
  BY <1>1, <1>2, <1>3, <1>4, <1>5

LEMMA Lists ==
  ASSUME DirTypeOK, NEW r \in Slots
  PROVE  req[r] \in Seq(DirWrites) /\ DOMAIN req[r] = 1..Len(req[r]) /\ Len(req[r]) \in Nat
         /\ \A n \in DOMAIN req[r] : req[r][n] \in DirWrites
<1>1. req[r] \in Seq(DirWrites)
  BY DEF DirTypeOK
<1>2. QED
  BY <1>1

\* The documents only gain records and reports, and a call goes on.
LEMMA ProperTail ==
  ASSUME DirKept, NEW r \in Slots, req[r] # <<>>, req'[r] = Tail(req[r]),
         DOMAIN prov \subseteq DOMAIN prov', req[r][1].to = "create" => req[r][1].i \in DOMAIN prov',
         DOMAIN report \subseteq DOMAIN report', calls' = calls
  PROVE  Proper(req[r], calls)'
<1> DEFINE s == req[r]
           t == req'[r]
<1>1. \A n \in DOMAIN s : Reaches(s, n) /\ Numbers(s, n, calls)
  BY DEF DirKept, Proper
<1>2. s \in Seq(DirWrites)
  BY Lists DEF DirKept
<1>3. /\ Len(s) \in Nat /\ DOMAIN s = 1..Len(s) /\ 1 \in DOMAIN s
      /\ \A n \in DOMAIN t : n \in Nat /\ n >= 1 /\ t[n] = s[n + 1] /\ n + 1 \in DOMAIN s
  BY <1>2, Heads
<1>4. ASSUME NEW n \in DOMAIN t
      PROVE  Reaches(req[r], n)' /\ Numbers(req[r], n, calls)'
  <2>1. n \in Nat /\ n >= 1 /\ t[n] = s[n + 1] /\ n + 1 \in DOMAIN s /\ n + 1 # 1
    BY <1>3
  <2>2. Reaches(s, n + 1) /\ Numbers(s, n + 1, calls)
    BY <1>1, <2>1
  <2>3. t[n].to # "create" /\ (t[n].to \in {"provider", "decide"} => t[n].i \in DOMAIN prov')
    BY <2>1, <2>2 DEF Reaches
  <2>4. t[n].to = "report" => t[n].i \in DOMAIN report'
    BY <2>1, <2>2 DEF Reaches
  <2>5. t[n].to # "reported" /\ (t[n].to = "vehicle" => t[n].i <= calls)
    BY <1>3, <2>1, <2>2 DEF Numbers
  <2>6. Reaches(req[r], n)'
    BY <2>3, <2>4 DEF Reaches
  <2>7. Numbers(req[r], n, calls)'
    BY <2>5 DEF Numbers
  <2>8. QED
    BY <2>6, <2>7
<1>5. QED
  BY <1>4 DEF Proper

\* The other calls mind that write only if it takes the number of their report.
LEMMA ProperOther ==
  ASSUME DirKept, NEW q \in Slots, req'[q] = req[q], DOMAIN prov \subseteq DOMAIN prov',
         DOMAIN report \subseteq DOMAIN report', calls \in Nat, calls' \in Nat, calls <= calls',
         \A n \in DOMAIN req[q] : req[q][n].to = "reported" => req[q][n].i \notin DOMAIN report'
  PROVE  Proper(req[q], calls)'
<1> DEFINE s == req[q]
<1>1. \A n \in DOMAIN s : Reaches(s, n) /\ Numbers(s, n, calls)
  BY DEF DirKept, Proper
<1>2. \A n \in DOMAIN s : s[n] \in DirWrites
  BY Lists DEF DirKept
<1>3. ASSUME NEW n \in DOMAIN s
      PROVE  Reaches(s, n)' /\ Numbers(s, n, calls)'
  <2>1. Reaches(s, n) /\ Numbers(s, n, calls)
    BY <1>1
  <2>2. Reaches(req[q], n)'
    BY <2>1 DEF Reaches
  <2>3. s[n].to \in {"vehicle", "reported"} => s[n].i \in Nat
    BY <1>2, WriteForms
  <2>4. Numbers(req[q], n, calls)'
    BY <2>1, <2>3 DEF Numbers
  <2>5. QED
    BY <2>2, <2>4
<1>4. QED
  BY <1>3 DEF Proper

\* Only the call in slot r changes, to what was left of it or to nothing.
LEMMA SharedNumbers ==
  ASSUME DirKept, NEW r \in Slots, \A q \in Slots \ {r} : req'[q] = req[q],
         req'[r] = <<>> \/ (req[r] # <<>> /\ req'[r] = Tail(req[r]))
  PROVE  NoSharedNumber' /\ OnlyRows'
<1>1. \A q \in Slots : \A n \in DOMAIN req'[q] : \E m \in DOMAIN req[q] : req'[q][n] = req[q][m]
  <2>1. CASE req'[r] = <<>>
    BY <2>1
  <2>2. CASE req[r] # <<>> /\ req'[r] = Tail(req[r])
    <3>1. \A n \in DOMAIN req'[r] : \E m \in DOMAIN req[r] : req'[r][n] = req[r][m]
      BY <2>2, Heads, Lists DEF DirKept
    <3>2. QED
      BY <3>1
  <2>3. QED
    BY <2>1, <2>2
<1>2. NoSharedNumber'
  BY <1>1 DEF DirKept, NoSharedNumber
<1>3. Cron \in Slots
  BY DEF Slots
<1>4. OnlyRows'
  BY <1>1, <1>3 DEF DirKept, OnlyRows
<1>5. QED
  BY <1>2, <1>4

LEMMA EndsKeep ==
  ASSUME DirKept, NEW r \in Slots, req' = [req EXCEPT ![r] = <<>>],
         UNCHANGED <<prov, vehicle, chosen, row, report, jobs, calls>>
  PROVE  DirKept'
<1>1. req' \in [Slots -> Seq(DirWrites)] /\ req'[r] = <<>> /\ \A q \in Slots \ {r} : req'[q] = req[q]
  BY DEF DirKept, DirTypeOK
<1>2. DirTypeOK'
  BY <1>1 DEF DirKept, DirTypeOK
<1>3. ASSUME NEW q \in Slots
      PROVE  Proper(req[q], calls)'
  <2>1. CASE q = r
    BY <1>1, <2>1 DEF Proper
  <2>2. CASE q # r
    <3>1. \A n \in DOMAIN req[q] : req[q][n].to = "reported" => req[q][n].i \notin DOMAIN report'
      BY DEF DirKept, Proper, Numbers
    <3>2. calls \in Nat /\ calls' \in Nat /\ calls <= calls'
      BY DEF DirKept, DirTypeOK
    <3>3. QED
      BY <1>1, <2>2, <3>1, <3>2, ProperOther
  <2>3. QED
    BY <2>1, <2>2
<1>4. NoSharedNumber' /\ OnlyRows'
  BY <1>1, SharedNumbers
<1>5. QED
  BY <1>2, <1>3, <1>4 DEF DirKept

\* What is known of the write that a call is about to make.
LEMMA HeadFacts ==
  ASSUME DirKept, NEW r \in Slots, req[r] # <<>>
  PROVE  /\ Head(req[r]) = req[r][1] /\ req[r][1] \in DirWrites /\ 1 \in DOMAIN req[r]
         /\ req[r][1].to \in {"provider", "decide"} => req[r][1].i \in DOMAIN prov
         /\ req[r][1].to \in {"vehicle", "reported"} => req[r][1].i <= calls
         /\ req[r][1].to = "report" => req[r][1].i \in DOMAIN report
         /\ req[r][1].to = "reported" => req[r][1].i \notin DOMAIN report
<1>1. Head(req[r]) = req[r][1] /\ req[r][1] \in DirWrites /\ 1 \in DOMAIN req[r]
  BY Lists, Heads DEF DirKept
<1>2. Reaches(req[r], 1) /\ Numbers(req[r], 1, calls)
  BY <1>1 DEF DirKept, Proper
<1>3. QED
  BY <1>1, <1>2 DEF Reaches, Numbers

LEMMA AppliesKeep ==
  ASSUME DirKept, NEW r \in Slots, req[r] # <<>>, req' = [req EXCEPT ![r] = Tail(@)],
         ~Fails(req[r][1]), Apply(req[r][1]), UNCHANGED <<jobs, calls>>
  PROVE  DirKept'
<1> DEFINE w == req[r][1]
<1>1. req' \in [Slots -> Seq(DirWrites)] /\ req'[r] = Tail(req[r]) /\ \A q \in Slots \ {r} : req'[q] = req[q]
  BY Lists, Heads DEF DirKept, DirTypeOK
<1>2. /\ w \in DirWrites /\ 1 \in DOMAIN req[r] /\ DirTypeOK
      /\ w.to \in {"provider", "decide"} => w.i \in DOMAIN prov
      /\ w.to \in {"vehicle", "reported"} => w.i <= calls
      /\ w.to = "report" => w.i \in DOMAIN report
  BY HeadFacts DEF DirKept
<1>3. DirTypeOK'
  BY <1>1, <1>2, ApplyTypes
<1>4. DOMAIN prov \subseteq DOMAIN prov' /\ (w.to = "create" => w.i \in DOMAIN prov')
  BY <1>2, ApplyProv
<1>5. /\ w.to # "reported" => DOMAIN report' = DOMAIN report
      /\ w.to = "reported" => DOMAIN report' = DOMAIN report \cup {w.i}
  BY <1>2, ApplyReport
<1>6. DOMAIN report \subseteq DOMAIN report'
  BY <1>5
<1>7. calls \in Nat /\ calls' \in Nat /\ calls <= calls'
  BY DEF DirKept, DirTypeOK
<1>8. ASSUME NEW q \in Slots
      PROVE  Proper(req[q], calls)'
  <2>1. CASE q = r
    BY <1>1, <1>4, <1>6, <2>1, ProperTail
  <2>2. CASE q # r
    <3>1. \A n \in DOMAIN req[q] : req[q][n].to = "reported" => req[q][n].i \notin DOMAIN report
      BY DEF DirKept, Proper, Numbers
    <3>2. \A n \in DOMAIN req[q] : req[q][n].to = "reported" /\ w.to = "reported" => req[q][n].i # w.i
      BY <1>2, <2>2 DEF DirKept, NoSharedNumber
    <3>3. \A n \in DOMAIN req[q] : req[q][n].to = "reported" => req[q][n].i \notin DOMAIN report'
      BY <1>5, <3>1, <3>2
    <3>4. QED
      BY <1>1, <1>4, <1>6, <1>7, <2>2, <3>3, ProperOther
  <2>3. QED
    BY <2>1, <2>2
<1>9. NoSharedNumber' /\ OnlyRows'
  BY <1>1, SharedNumbers
<1>10. QED
  BY <1>3, <1>8, <1>9 DEF DirKept

LEMMA WriteKeeps ==
  ASSUME DirKept, NEW r \in Slots, Write(r)
  PROVE  DirKept'
<1>1. req[r] # <<>> /\ UNCHANGED <<jobs, calls>> /\ Head(req[r]) = req[r][1]
  BY HeadFacts DEF Write
<1>2. CASE Fails(req[r][1])
  <2>1. req' = [req EXCEPT ![r] = <<>>] /\ UNCHANGED <<prov, vehicle, chosen, row, report, jobs, calls>>
    BY <1>1, <1>2 DEF Write
  <2>2. QED
    BY <2>1, EndsKeep
<1>3. CASE ~Fails(req[r][1])
  <2>1. req' = [req EXCEPT ![r] = Tail(@)] /\ Apply(req[r][1])
    BY <1>1, <1>3 DEF Write
  <2>2. QED
    BY <1>1, <1>3, <2>1, AppliesKeep
<1>4. QED
  BY <1>2, <1>3

------------------------------------------------------------------------------
(* A look leaves its call in order *)

Opens(s) ==
  /\ s \in Seq(DirWrites)
  /\ \A n \in DOMAIN s :
       /\ Reaches(s, n) /\ (s[n].to \in {"vehicle", "reported"} => s[n].i = Call)
       /\ s[n].to = "reported" => Len(s) = 1

LEMMA LooksKeep ==
  ASSUME DirKept, NEW r \in Slots, NEW s, Opens(s), Looks(r, s), calls' = calls \/ calls' = Call,
         (\E n \in DOMAIN s : s[n].to \in {"vehicle", "reported"}) => calls' = Call,
         r = Cron => \A n \in DOMAIN s : s[n].to = "row"
  PROVE  DirKept'
<1>1. /\ s \in Seq(DirWrites) /\ req[r] = <<>> /\ req' = [req EXCEPT ![r] = s]
      /\ UNCHANGED <<prov, vehicle, chosen, row, report, jobs>>
  BY DEF Opens, Looks
<1>2. req' \in [Slots -> Seq(DirWrites)] /\ req'[r] = s /\ \A q \in Slots \ {r} : req'[q] = req[q]
  BY <1>1 DEF DirKept, DirTypeOK
<1>3. calls \in Nat /\ calls' \in Nat /\ calls <= calls'
  BY DEF DirKept, DirTypeOK, Call
<1>4. DirTypeOK'
  BY <1>1, <1>2, <1>3 DEF DirKept, DirTypeOK
<1>5. ASSUME NEW n \in DOMAIN s
      PROVE  Reaches(req[r], n)' /\ Numbers(req[r], n, calls)'
  <2>1. /\ Reaches(s, n) /\ (s[n].to \in {"vehicle", "reported"} => s[n].i = Call /\ calls' = Call)
        /\ s[n].to = "reported" => Len(s) = 1
    BY DEF Opens
  <2>2. Reaches(req[r], n)'
    BY <1>1, <1>2, <2>1 DEF Reaches
  <2>3. Call \notin DOMAIN report /\ Call \in Nat
    BY DEF DirKept, DirTypeOK, Call
  <2>4. Numbers(req[r], n, calls)'
    BY <1>1, <1>2, <2>1, <2>3 DEF Numbers
  <2>5. QED
    BY <2>2, <2>4
<1>6. ASSUME NEW q \in Slots
      PROVE  Proper(req[q], calls)'
  <2>1. CASE q = r
    BY <1>2, <1>5, <2>1 DEF Proper
  <2>2. CASE q # r
    <3>1. \A n \in DOMAIN req[q] : req[q][n].to = "reported" => req[q][n].i \notin DOMAIN report'
      BY <1>1 DEF DirKept, Proper, Numbers
    <3>2. QED
      BY <1>1, <1>2, <1>3, <2>2, <3>1, ProperOther
  <2>3. QED
    BY <2>1, <2>2
<1>7. ASSUME NEW q \in Slots \ {r}, NEW m \in DOMAIN req[q], NEW n \in DOMAIN s,
             req[q][m].to = "reported", s[n].to = "reported"
      PROVE  req[q][m].i # s[n].i
  <2>1. req[q][m] \in DirWrites
    BY Lists DEF DirKept
  <2>2. req[q][m].i \in Nat /\ req[q][m].i <= calls
    BY <1>7, <2>1, WriteForms DEF DirKept, Proper, Numbers
  <2>3. s[n].i = calls + 1 /\ calls \in Nat
    BY <1>3, <1>7 DEF Opens, Call
  <2>4. QED
    BY <2>2, <2>3
<1>8. NoSharedNumber'
  BY <1>2, <1>7 DEF DirKept, NoSharedNumber
<1>9. OnlyRows'
  BY <1>2 DEF DirKept, OnlyRows, Slots
<1>10. QED
  BY <1>4, <1>6, <1>8, <1>9 DEF DirKept

\* The writes of most calls leave the records' operators, plates and vehicles alone.
Milds ==
  {w \in DirWrites :
     /\ w.to \in {"provider", "decide", "row", "retype", "chosen", "report"}
     /\ w.to = "provider" => w.fields \in Fresh
     /\ w.to \in {"provider", "decide"} => w.i \in DOMAIN prov
     /\ w.to = "report" => w.i \in DOMAIN report}

LEMMA MildLists ==
  ASSUME NEW s \in Seq(Milds)
  PROVE  Opens(s) /\ InOrder(s)
<1>1. \A n \in DOMAIN s : s[n] \in Milds
  OBVIOUS
<1>2. s \in Seq(DirWrites)
  <2>1. Milds \subseteq DirWrites
    BY DEF Milds
  <2>2. QED
    BY <2>1
<1>3. Opens(s)
  BY <1>1, <1>2 DEF Opens, Milds, Reaches
<1>4. \A f \in Fresh : DOMAIN f \cap {"vehicle", "plate", "status"} = {}
  BY DEF Fresh
<1>5. ASSUME NEW n \in DOMAIN s
      PROVE  Registers(s[n]) /\ Brings(s, n) /\ Links(s, n) /\ Replates(s, n) /\ Denies(s[n]) /\ Scraps(s, n)
  <2>1. s[n].to \notin {"create", "vehicle", "scrap"} /\ (s[n].to = "provider" => s[n].fields \in Fresh)
    BY <1>1 DEF Milds
  <2>2. ~Changes(s[n], "vehicle") /\ ~Changes(s[n], "plate") /\ ~Changes(s[n], "status")
    BY <1>4, <2>1 DEF Changes
  <2>3. QED
    BY <2>1, <2>2 DEF Registers, Brings, Links, Replates, Denies, Scraps
<1>6. QED
  BY <1>3, <1>5 DEF InOrder

LEMMA Tuples ==
  ASSUME NEW S
  PROVE  /\ <<>> \in Seq(S) /\ \A a \in S : <<a>> \in Seq(S) /\ \A b \in S : <<a, b>> \in Seq(S)
         /\ \A s, t \in Seq(S) : s \o t \in Seq(S)
OBVIOUS

LEMMA MildPatch ==
  ASSUME DirTypeOK, NEW i \in DOMAIN prov, NEW f \in Fresh
  PROVE  Patch(i, f) \in Milds
BY DEF Milds, DirWrites, Patches, Patch, DirTypeOK

LEMMA MildRow ==
  ASSUME NEW i \in Ids
  PROVE  OffMap(i) \in Milds /\ OnMap(i) \in Milds
BY DEF Milds, DirWrites, OfRows, OffMap, OnMap

LEMMA MildDecision ==
  ASSUME DirTypeOK, NEW k \in DOMAIN report, NEW st \in {"DISMISSED", "RESOLVED"}
  PROVE  Decision(k, st) \in Milds
BY DEF Milds, DirWrites, OfReports, Decision, DirTypeOK

\* A call that looks: what it may write keeps the records in agreement.
Begins(r) == \E s : Look(r, s) /\ Opens(s) /\ (Agreeing => InOrder(s))

LEMMA DutyBegins ==
  ASSUME DirKept, NEW r \in Requests, NEW i \in DOMAIN prov, NEW b \in BOOLEAN, UpdateDuty(r, i, b)
  PROVE  Begins(r)
<1> DEFINE f == [accepting |-> b]
           p == Patch(i, f)
           s == <<p>> \o IF b THEN <<>> ELSE <<OffMap(i)>>
<1>1. Look(r, s)
  BY DEF UpdateDuty
<1>2. f \in Fresh /\ i \in Ids /\ DirTypeOK
  BY DEF Fresh, DirKept, DirTypeOK
<1> HIDE DEF f
<1>3. p \in Milds /\ OffMap(i) \in Milds
  BY <1>2, MildPatch, MildRow
<1>4. <<p>> \in Seq(Milds) /\ (IF b THEN <<>> ELSE <<OffMap(i)>>) \in Seq(Milds)
  BY <1>3, Tuples
<1>5. s \in Seq(Milds)
  BY <1>4, Tuples
<1>6. QED
  BY <1>1, <1>5, MildLists DEF Begins

LEMMA TypeBegins ==
  ASSUME DirKept, NEW r \in Requests, NEW i \in DOMAIN prov, NEW t \in Types, UpdateType(r, i, t)
  PROVE  Begins(r)
<1> DEFINE w == [to |-> "retype", i |-> prov[i].vehicle, fields |-> [type |-> t]]
           f == [type |-> t]
           p == Patch(i, f)
           s == <<p>> \o IF prov[i].vehicle = Nothing THEN <<>> ELSE <<w>>
<1>1. Look(r, s)
  BY DEF UpdateType
<1>2. f \in Fresh /\ DirTypeOK
  BY DEF Fresh, DirKept
<1> HIDE DEF f
<1>3. p \in Milds
  BY <1>2, MildPatch
<1>4. prov[i].vehicle # Nothing => w \in Milds
  <2>1. prov[i].vehicle \in Nat \cup {Nothing}
    BY DEF DirKept, DirTypeOK, ProviderDoc
  <2>2. QED
    BY <2>1 DEF Milds, DirWrites, OfVehicles
<1>5. <<p>> \in Seq(Milds) /\ (IF prov[i].vehicle = Nothing THEN <<>> ELSE <<w>>) \in Seq(Milds)
  BY <1>3, <1>4, Tuples
<1>6. s \in Seq(Milds)
  BY <1>5, Tuples
<1>7. QED
  BY <1>1, <1>6, MildLists DEF Begins

LEMMA ReviewBegins ==
  ASSUME DirKept, NEW r \in Requests, NEW i \in DOMAIN prov, NEW b \in BOOLEAN, ReviewProvider(r, i, b)
  PROVE  Begins(r)
<1> DEFINE d == [to |-> "decide", i |-> i, fields |-> [status |-> IF b THEN "ACTIVE" ELSE "DENIED"]]
           f == [accepting |-> b]
           p == Patch(i, f)
           s == <<d, p>> \o IF b THEN <<>> ELSE <<OffMap(i)>>
<1>1. Look(r, s)
  BY DEF ReviewProvider
<1>2. f \in Fresh /\ i \in Ids /\ DirTypeOK
  BY DEF Fresh, DirKept, DirTypeOK
<1> HIDE DEF f
<1>3. p \in Milds /\ OffMap(i) \in Milds /\ i \in Ids
  BY <1>2, MildPatch, MildRow
<1>4. d \in Milds
  BY <1>3 DEF Milds, DirWrites, Decides
<1>5. <<d, p>> \in Seq(Milds) /\ (IF b THEN <<>> ELSE <<OffMap(i)>>) \in Seq(Milds)
  BY <1>3, <1>4, Tuples
<1>6. s \in Seq(Milds)
  BY <1>5, Tuples
<1>7. QED
  BY <1>1, <1>6, MildLists DEF Begins

LEMMA SuspendBegins ==
  ASSUME DirKept, NEW r \in Requests, NEW i \in DOMAIN prov, NEW k \in DOMAIN report \cup {Nothing},
         SuspendProvider(r, i, k)
  PROVE  Begins(r)
<1> DEFINE f == [suspended |-> TRUE, accepting |-> FALSE]
           p == Patch(i, f)
           s == <<p, OffMap(i)>> \o IF k = Nothing THEN <<>> ELSE <<Decision(k, "RESOLVED")>>
<1>1. Look(r, s)
  BY DEF SuspendProvider
<1>2. f \in Fresh /\ i \in Ids /\ DirTypeOK
  BY DEF Fresh, DirKept, DirTypeOK
<1> HIDE DEF f
<1>3. p \in Milds /\ OffMap(i) \in Milds /\ (k # Nothing => Decision(k, "RESOLVED") \in Milds)
  BY <1>2, MildPatch, MildRow, MildDecision
<1>4. <<p, OffMap(i)>> \in Seq(Milds) /\ (IF k = Nothing THEN <<>> ELSE <<Decision(k, "RESOLVED")>>) \in Seq(Milds)
  BY <1>3, Tuples
<1>5. s \in Seq(Milds)
  BY <1>4, Tuples
<1>6. QED
  BY <1>1, <1>5, MildLists DEF Begins

LEMMA RestoreBegins ==
  ASSUME DirKept, NEW r \in Requests, NEW i \in DOMAIN prov, RestoreProvider(r, i)
  PROVE  Begins(r)
<1> DEFINE f == [suspended |-> FALSE, accepting |-> FALSE]
           p == Patch(i, f)
<1>1. Look(r, <<p>>)
  BY DEF RestoreProvider
<1>2. f \in Fresh /\ DirTypeOK
  BY DEF Fresh, DirKept
<1> HIDE DEF f
<1>3. p \in Milds
  BY <1>2, MildPatch
<1>4. <<p>> \in Seq(Milds)
  BY <1>3, Tuples
<1>5. QED
  BY <1>1, <1>4, MildLists DEF Begins

LEMMA DismissBegins ==
  ASSUME DirKept, NEW r \in Requests, NEW k \in DOMAIN report, DismissReport(r, k)
  PROVE  Begins(r)
<1>1. Look(r, <<Decision(k, "DISMISSED")>>)
  BY DEF DismissReport
<1>2. Decision(k, "DISMISSED") \in Milds
  BY MildDecision DEF DirKept
<1>3. <<Decision(k, "DISMISSED")>> \in Seq(Milds)
  BY <1>2, Tuples
<1>4. QED
  BY <1>1, <1>3, MildLists DEF Begins

LEMMA ChosenBegins ==
  ASSUME DirKept, NEW r \in Requests, NEW u \in Users, NEW v \in DOMAIN vehicle \cup {Nothing},
         SetActiveVehicle(r, u, v)
  PROVE  Begins(r)
<1> DEFINE w == [to |-> "chosen", i |-> u, v |-> v]
<1>1. Look(r, <<w>>)
  BY DEF SetActiveVehicle
<1>2. v \in Nat \cup {Nothing}
  BY DEF DirKept, DirTypeOK
<1>3. w \in Milds
  BY <1>2 DEF Milds, DirWrites, OfUsers
<1>4. <<w>> \in Seq(Milds)
  BY <1>3, Tuples
<1>5. QED
  BY <1>1, <1>4, MildLists DEF Begins

\* One write for each member of a set.
LEMMA RowsOf ==
  ASSUME NEW S, IsFiniteSet(S), S \subseteq Ids
  PROVE  /\ [n \in 1..Cardinality(S) |-> OffMap(SetToSeq(S)[n])] \in Seq(Milds)
         /\ [n \in 1..Cardinality(S) |-> OnMap(SetToSeq(S)[n])] \in Seq(Milds)
<1>1. Cardinality(S) \in Nat /\ \A n \in 1..Cardinality(S) : SetToSeq(S)[n] \in S
  BY ListOf
<1>2. \A n \in 1..Cardinality(S) : OffMap(SetToSeq(S)[n]) \in Milds /\ OnMap(SetToSeq(S)[n]) \in Milds
  BY <1>1, MildRow
<1>3. QED
  BY <1>1, <1>2

LEMMA LocationBegins ==
  ASSUME DirKept, NEW r \in Requests, NEW u \in Users, UpdateProviderLocation(r, u)
  PROVE  Begins(r)
<1> DEFINE S == {i \in FindByOperator(u) : MayShare(i)}
           s == [n \in 1..Cardinality(S) |-> OnMap(SetToSeq(S)[n])]
<1>1. Look(r, s)
  BY DEF UpdateProviderLocation
<1>2. S \subseteq DOMAIN prov /\ IsFiniteSet(DOMAIN prov) /\ DOMAIN prov \subseteq Ids
  BY DEF FindByOperator, DirKept, DirTypeOK
<1>3. IsFiniteSet(S) /\ S \subseteq Ids
  BY <1>2, FS_Subset
<1>4. s \in Seq(Milds)
  BY <1>3, RowsOf
<1>5. QED
  BY <1>1, <1>4, MildLists DEF Begins

------------------------------------------------------------------------------
(* Registration *)

LEMMA CallIsNew ==
  ASSUME DirTypeOK
  PROVE  Call \in Nat /\ Call \in Ids /\ Call \notin Plates /\ Call \notin DOMAIN vehicle /\ Call # Nothing
BY ProvidersAssumption DEF DirTypeOK, Call, Ids

LEMMA Docs ==
  ASSUME NEW kind \in Kinds, NEW u \in Users, NEW plate \in Plates, NEW type \in Types,
         NEW v \in Nat \cup {Nothing}
  PROVE  /\ Blank(kind, u) \in ProviderDoc /\ Vehicled(kind, u, plate, type, v) \in ProviderDoc
         /\ Blank(kind, u).kind = kind /\ Blank(kind, u).op = u /\ Blank(kind, u).plate = Nothing
         /\ Blank(kind, u).vehicle = Nothing
         /\ Vehicled(kind, u, plate, type, v).kind = kind /\ Vehicled(kind, u, plate, type, v).op = u
         /\ Vehicled(kind, u, plate, type, v).plate = plate
         /\ Vehicled(kind, u, plate, type, v).vehicle = v
BY DEF Blank, Vehicled, ProviderDoc

LEMMA CreateIs ==
  ASSUME NEW i \in Ids, NEW doc \in ProviderDoc
  PROVE  Create(i, doc) \in DirWrites /\ Create(i, doc).to = "create" /\ Create(i, doc).i = i
         /\ Create(i, doc).fields = doc
BY DEF Create, DirWrites, Creates

LEMMA NothingBefore == ASSUME NEW s PROVE Before(s, 1) = {}
BY DEF Before

LEMMA CreateShopBegins ==
  ASSUME DirKept, NEW r \in Requests, NEW u \in Users, CreateShopProvider(r, u)
  PROVE  Begins(r)
<1> DEFINE doc == Blank("SHOP", u)
           c == Create(Call, doc)
           s == <<c>>
<1>1. Look(r, s) /\ ~Operates(u, "SHOP")
  BY DEF CreateShopProvider
<1>2. PICK p \in Plates \cup {Nothing} : TRUE
  OBVIOUS
<1>3. doc \in ProviderDoc /\ doc.kind = "SHOP" /\ doc.op = u /\ doc.plate = Nothing /\ doc.vehicle = Nothing
  BY DEF Blank, ProviderDoc, Kinds
<1>4. Call \in Ids /\ Call \notin Plates
  BY CallIsNew DEF DirKept
<1> HIDE DEF doc
<1>5. c \in DirWrites /\ c.to = "create" /\ c.i = Call /\ c.fields = doc
  BY <1>3, <1>4, CreateIs
<1> HIDE DEF c
<1>6. s \in Seq(DirWrites) /\ DOMAIN s = {1} /\ s[1] = c
  BY <1>5
<1>7. Opens(s)
  BY <1>5, <1>6 DEF Opens, Reaches
<1>8. Registers(c)
  BY <1>1, <1>3, <1>4, <1>5 DEF Registers, Operates, FindByOperator
<1>9. InOrder(s)
  BY <1>5, <1>6, <1>8 DEF InOrder, Brings, Links, Replates, Denies, Scraps, Changes
<1>10. QED
  BY <1>1, <1>7, <1>9 DEF Begins

LEMMA FoundByPlate ==
  ASSUME DirTypeOK, NEW plate \in Plates, NEW e \in FindByPlate(plate)
  PROVE  /\ e # Nothing => e \in OnPlate(prov, plate)
         /\ e = Nothing => OnPlate(prov, plate) = {}
<1>1. Nothing \notin DOMAIN prov
  BY NoneApart DEF DirTypeOK
<1>2. QED
  BY <1>1 DEF FindByPlate, OnPlate

LinkNew(i) == Patch(i, [vehicle |-> Call])
NewVehicle(u, type) == [to |-> "vehicle", i |-> Call, fields |-> [owner |-> u, type |-> type]]

LEMMA VehicleWrites ==
  ASSUME DirTypeOK, NEW u \in Users, NEW type \in Types, NEW i \in Ids
  PROVE  /\ NewVehicle(u, type) \in DirWrites /\ NewVehicle(u, type).to = "vehicle"
         /\ NewVehicle(u, type).i = Call /\ NewVehicle(u, type).fields.owner = u
         /\ LinkNew(i) \in DirWrites /\ LinkNew(i).to = "provider" /\ LinkNew(i).i = i
         /\ DOMAIN LinkNew(i).fields = {"vehicle"} /\ LinkNew(i).fields.vehicle = Call
<1>1. Call \in Nat
  BY CallIsNew
<1>2. NewVehicle(u, type) \in DirWrites
  BY <1>1 DEF NewVehicle, DirWrites, OfVehicles, VehicleDoc
<1>3. LinkNew(i) \in DirWrites
  BY <1>1 DEF LinkNew, Patch, DirWrites, Patches, Linking
<1>4. QED
  BY <1>2, <1>3 DEF NewVehicle, LinkNew, Patch

\* A record, then its vehicle, then their link, and perhaps another record's.
LEMMA OpensLicence ==
  ASSUME DirTypeOK, NEW i \in Ids, NEW doc \in ProviderDoc, NEW type \in Types, NEW k, NEW s,
         \/ s \in {<<Create(i, doc)>>, <<Create(i, doc), NewVehicle(doc.op, type), LinkNew(i)>>}
         \/ s = <<Create(i, doc), NewVehicle(doc.op, type), LinkNew(i), LinkNew(k)>> /\ k \in DOMAIN prov
  PROVE  Opens(s)
<1> DEFINE c == Create(i, doc)
           v == NewVehicle(doc.op, type)
           p == LinkNew(i)
           q == LinkNew(k)
<1>1. c \in DirWrites /\ c.to = "create" /\ c.i = i
  BY CreateIs
<1>2. doc.op \in Users /\ (k \in DOMAIN prov => k \in Ids)
  BY DEF ProviderDoc, DirTypeOK
<1>3. v \in DirWrites /\ v.to = "vehicle" /\ v.i = Call
  BY <1>2, VehicleWrites
<1>4. /\ p \in DirWrites /\ p.to = "provider" /\ p.i = i
      /\ k \in DOMAIN prov => q \in DirWrites /\ q.to = "provider" /\ q.i = k
  BY <1>2, VehicleWrites
<1> HIDE DEF c, v, p, q
<1>5. CASE s = <<c>>
  BY <1>1, <1>5 DEF Opens, Reaches
<1>6. CASE s = <<c, v, p>>
  <2>1. s \in Seq(DirWrites) /\ DOMAIN s = 1..3 /\ s[1] = c /\ s[2] = v /\ s[3] = p
    BY <1>1, <1>3, <1>4, <1>6
  <2>2. \A n \in 1..3 : n = 1 \/ n = 2 \/ n = 3
    OBVIOUS
  <2>3. QED
    BY <1>1, <1>3, <1>4, <2>1, <2>2 DEF Opens, Reaches
<1>7. CASE s = <<c, v, p, q>> /\ k \in DOMAIN prov
  <2>1. s \in Seq(DirWrites) /\ DOMAIN s = 1..4 /\ s[1] = c /\ s[2] = v /\ s[3] = p /\ s[4] = q
    BY <1>1, <1>3, <1>4, <1>7
  <2>2. \A n \in 1..4 : n = 1 \/ n = 2 \/ n = 3 \/ n = 4
    OBVIOUS
  <2>3. QED
    BY <1>1, <1>3, <1>4, <2>1, <2>2 DEF Opens, Reaches
<1>8. QED
  BY <1>5, <1>6, <1>7 DEF c, v, p, q

LEMMA LicenceInOrder ==
  ASSUME DirTypeOK, NEW i \in Ids, NEW doc \in ProviderDoc, NEW type \in Types, NEW k, NEW s,
         Registers(Create(i, doc)),
         \/ s \in {<<Create(i, doc)>>, <<Create(i, doc), NewVehicle(doc.op, type), LinkNew(i)>>}
         \/ /\ s = <<Create(i, doc), NewVehicle(doc.op, type), LinkNew(i), LinkNew(k)>>
            /\ k \in DOMAIN prov /\ prov[k].op = doc.op
  PROVE  InOrder(s)
<1> DEFINE u == doc.op
           c == Create(i, doc)
           v == NewVehicle(u, type)
           p == LinkNew(i)
           q == LinkNew(k)
<1>1. c \in DirWrites /\ c.to = "create" /\ c.i = i /\ c.fields.op = u
  BY CreateIs
<1>2. u \in Users /\ Call \notin DOMAIN vehicle
  BY CallIsNew DEF ProviderDoc, DirTypeOK
<1>3. v \in DirWrites /\ v.to = "vehicle" /\ v.i = Call /\ v.fields.owner = u
  BY <1>2, VehicleWrites
<1>4. /\ p.to = "provider" /\ p.i = i /\ DOMAIN p.fields = {"vehicle"} /\ p.fields.vehicle = Call
      /\ q.to = "provider" /\ q.i = k /\ DOMAIN q.fields = {"vehicle"} /\ q.fields.vehicle = Call
  BY DEF LinkNew, Patch
<1>5. Registers(c)
  OBVIOUS
<1> HIDE DEF c, v, p, q, u
<1>7. ASSUME NEW n \in DOMAIN s, s[n] \in {c, v, p, q}, s[n] = c => n = 1,
             s[n] = v => Before(s, n) = {c},
             s[n] \in {p, q} => {c, v} \subseteq Before(s, n) /\ Before(s, n) \subseteq {c, v, p},
             s[n] = q => q = p \/ (k \in DOMAIN prov /\ prov[k].op = u)
      PROVE  Registers(s[n]) /\ Brings(s, n) /\ Links(s, n) /\ Replates(s, n) /\ Denies(s[n]) /\ Scraps(s, n)
  <2>1. CASE s[n] = c
    BY <1>1, <1>5, <2>1 DEF Brings, Links, Replates, Denies, Scraps, Changes
  <2>2. CASE s[n] = v
    BY <1>1, <1>2, <1>3, <1>7, <2>2 DEF Registers, Brings, Links, Replates, Denies, Scraps, Changes
  <2>3. CASE s[n] \in {p, q}
    <3>1. Owned(s, n, Call, u) /\ (\A w \in Before(s, n) : w.to # "scrap")
      BY <1>1, <1>3, <1>4, <1>7, <2>3 DEF Owned
    <3>2. Has(s, n, s[n].i, u)
      BY <1>1, <1>4, <1>7, <2>3 DEF Has
    <3>3. Links(s, n)
      BY <1>2, <1>4, <2>3, <3>1, <3>2 DEF Links
    <3>4. QED
      BY <1>4, <2>3, <3>3 DEF Registers, Brings, Replates, Denies, Scraps, Changes
  <2>4. QED
    BY <1>7, <2>1, <2>2, <2>3
<1>8. CASE s = <<c>>
  BY <1>1, <1>5, <1>8 DEF InOrder, Brings, Links, Replates, Denies, Scraps, Changes
<1>9. CASE s = <<c, v, p>>
  <2>1. DOMAIN s = 1..3 /\ s[1] = c /\ s[2] = v /\ s[3] = p
    BY <1>9
  <2>2. \A n \in 1..3 : n = 1 \/ n = 2 \/ n = 3
    OBVIOUS
  <2>3. Before(s, 1) = {} /\ Before(s, 2) = {c} /\ Before(s, 3) = {c, v}
    BY <2>1 DEF Before
  <2>4. QED
    BY <1>1, <1>3, <1>4, <1>7, <2>1, <2>2, <2>3 DEF InOrder
<1>10. CASE s = <<c, v, p, q>> /\ k \in DOMAIN prov /\ prov[k].op = u
  <2>1. DOMAIN s = 1..4 /\ s[1] = c /\ s[2] = v /\ s[3] = p /\ s[4] = q
    BY <1>10
  <2>2. \A n \in 1..4 : n = 1 \/ n = 2 \/ n = 3 \/ n = 4
    OBVIOUS
  <2>3. Before(s, 1) = {} /\ Before(s, 2) = {c} /\ Before(s, 3) = {c, v} /\ Before(s, 4) = {c, v, p}
    BY <2>1 DEF Before
  <2>4. v # c /\ p # c /\ q # c /\ v # p /\ v # q
    BY <1>1, <1>3, <1>4
  <2> DEFINE Fine(n) == /\ Registers(s[n]) /\ Brings(s, n) /\ Links(s, n)
                        /\ Replates(s, n) /\ Denies(s[n]) /\ Scraps(s, n)
  <2>5. Fine(1)
    BY <1>7, <2>1, <2>3, <2>4
  <2>6. Fine(2)
    BY <1>7, <2>1, <2>3, <2>4
  <2>7. Fine(3)
    BY <1>7, <1>10, <2>1, <2>3, <2>4
  <2>8. Fine(4)
    BY <1>7, <1>10, <2>1, <2>3, <2>4
  <2>9. QED
    BY <2>1, <2>2, <2>5, <2>6, <2>7, <2>8 DEF InOrder
<1>11. QED
  BY <1>8, <1>9, <1>10 DEF c, v, p, q, u

LEMMA SameSeq ==
  ASSUME NEW S, NEW s \in Seq(S), NEW t \in Seq(S), Len(s) = Len(t), \A n \in 1..Len(s) : s[n] = t[n]
  PROVE  s = t
OBVIOUS

LEMMA Concatenations ==
  ASSUME NEW a, NEW b, NEW c, NEW d
  PROVE  /\ <<a>> \o <<>> = <<a>> /\ <<a>> \o (<<b, c>> \o <<>>) = <<a, b, c>>
         /\ <<a>> \o (<<b, c>> \o <<d>>) = <<a, b, c, d>>
<1> DEFINE S == {a, b, c, d}
<1>1. <<a>> \in Seq(S) /\ <<b, c>> \in Seq(S) /\ <<d>> \in Seq(S) /\ <<>> \in Seq(S)
  OBVIOUS
<1>2. <<a>> \o <<>> = <<a>> /\ <<b, c>> \o <<>> = <<b, c>>
  BY <1>1
<1>3. <<b, c>> \o <<d>> = <<b, c, d>>
  <2> DEFINE s == <<b, c>> \o <<d>>
             t == <<b, c, d>>
  <2>1. s \in Seq(S) /\ t \in Seq(S) /\ Len(s) = 3 /\ Len(t) = 3
    BY <1>1
  <2>2. s[1] = t[1] /\ s[2] = t[2] /\ s[3] = t[3]
    BY <1>1
  <2>3. \A n \in 1..3 : n = 1 \/ n = 2 \/ n = 3
    OBVIOUS
  <2> HIDE DEF s, t
  <2>4. s = t
    BY <2>1, <2>2, <2>3, SameSeq
  <2>5. QED
    BY <2>4 DEF s, t
<1>4. <<a>> \o <<b, c>> = <<a, b, c>>
  <2> DEFINE s == <<a>> \o <<b, c>>
             t == <<a, b, c>>
  <2>1. s \in Seq(S) /\ t \in Seq(S) /\ Len(s) = 3 /\ Len(t) = 3
    BY <1>1
  <2>2. s[1] = t[1] /\ s[2] = t[2] /\ s[3] = t[3]
    BY <1>1
  <2>3. \A n \in 1..3 : n = 1 \/ n = 2 \/ n = 3
    OBVIOUS
  <2> HIDE DEF s, t
  <2>4. s = t
    BY <2>1, <2>2, <2>3, SameSeq
  <2>5. QED
    BY <2>4 DEF s, t
<1>5. <<a>> \o <<b, c, d>> = <<a, b, c, d>>
  <2> DEFINE s == <<a>> \o <<b, c, d>>
             t == <<a, b, c, d>>
  <2>1. s \in Seq(S) /\ t \in Seq(S) /\ Len(s) = 4 /\ Len(t) = 4
    BY <1>1
  <2>2. s[1] = t[1] /\ s[2] = t[2] /\ s[3] = t[3] /\ s[4] = t[4]
    BY <1>1
  <2>3. \A n \in 1..4 : n = 1 \/ n = 2 \/ n = 3 \/ n = 4
    OBVIOUS
  <2> HIDE DEF s, t
  <2>4. s = t
    BY <2>1, <2>2, <2>3, SameSeq
  <2>5. QED
    BY <2>4 DEF s, t
<1>6. QED
  BY <1>2, <1>3, <1>4, <1>5

LEMMA LicenceBegins ==
  ASSUME DirKept, NEW r \in Requests, NEW u \in Users, NEW plate \in Plates, NEW type \in Types,
         NEW kind \in Kinds, NEW e \in FindByPlate(plate), MayRegister(u, kind, e),
         NEW i \in Ids, i \in Plates => i = plate, Look(r, Licensed(kind, i, u, plate, type, e))
  PROVE  Begins(r)
<1> DEFINE other == IF e # Nothing /\ prov[e].type = type THEN e ELSE Nothing
           v == IF other # Nothing THEN prov[other].vehicle ELSE Nothing
           doc == Vehicled(kind, u, plate, type, v)
           s == Licensed(kind, i, u, plate, type, e)
<1>1. DirTypeOK
  BY DEF DirKept
<1>2. /\ e # Nothing => e \in DOMAIN prov /\ e \in OnPlate(prov, plate) /\ prov[e].op = u
      /\ e = Nothing => OnPlate(prov, plate) = {}
  BY <1>1, FoundByPlate DEF MayRegister, OnPlate
<1>3. /\ other # Nothing => other \in DOMAIN prov /\ prov[other].op = u /\ prov[other] \in ProviderDoc
      /\ Nothing \notin DOMAIN prov
  BY <1>1, <1>2, NoneApart DEF DirTypeOK
<1>4. v \in Nat \cup {Nothing}
  BY <1>3 DEF ProviderDoc
<1>5. /\ doc \in ProviderDoc /\ doc.kind = kind /\ doc.op = u /\ doc.plate = plate /\ doc.vehicle = v
  <2> HIDE DEF v
  <2>1. QED
    BY <1>4, Docs
<1>6. s = <<Create(i, doc)>> \o IF v # Nothing THEN <<>> ELSE LinkVehicle(i, u, type, other)
  BY DEF Licensed
<1>7. LinkVehicle(i, u, type, other) =
        <<NewVehicle(u, type), LinkNew(i)>> \o IF other \in {Nothing, i} THEN <<>> ELSE <<LinkNew(other)>>
  BY DEF LinkVehicle, NewVehicle, LinkNew
<1>8. ASSUME Agreeing
      PROVE  Registers(Create(i, doc))
  <2>1. \A k \in OnPlate(prov, plate) : prov[k].op = u
    BY <1>2, <1>8 DEF Agreeing, OneAccountPerPlate
  <2>2. \A k \in DOMAIN prov : prov[k].op = u /\ prov[k].kind = kind => prov[k].status = "DENIED"
    BY DEF MayRegister, Operates, FindByOperator
  <2>3. v # Nothing => v \in DOMAIN vehicle /\ vehicle[v].owner = u
    BY <1>3, <1>8 DEF Agreeing, VehicleIsOwn
  <2> HIDE DEF doc, v
  <2>4. Create(i, doc).fields = doc /\ Create(i, doc).i = i
    BY <1>5, CreateIs
  <2>5. QED
    BY <1>5, <2>1, <2>2, <2>3, <2>4 DEF Registers
<1> HIDE DEF s, doc, v, other
<1>9. CASE v # Nothing \/ other \in {Nothing, i}
  <2>1. s \in {<<Create(i, doc)>>, <<Create(i, doc), NewVehicle(doc.op, type), LinkNew(i)>>}
    BY <1>5, <1>6, <1>7, <1>9, Concatenations
  <2>2. Opens(s) /\ (Agreeing => InOrder(s))
    BY <1>1, <1>5, <1>8, <2>1, OpensLicence, LicenceInOrder
  <2>3. QED
    BY <2>2 DEF Begins, s
<1>10. CASE v = Nothing /\ other \notin {Nothing, i}
  <2>1. s = <<Create(i, doc), NewVehicle(doc.op, type), LinkNew(i), LinkNew(other)>>
    BY <1>5, <1>6, <1>7, <1>10, Concatenations
  <2>2. Opens(s) /\ (Agreeing => InOrder(s))
    BY <1>1, <1>3, <1>5, <1>8, <1>10, <2>1, OpensLicence, LicenceInOrder
  <2>3. QED
    BY <2>2 DEF Begins, s
<1>11. QED
  BY <1>9, <1>10

LEMMA CreateMobileBegins ==
  ASSUME DirKept, NEW r \in Requests, NEW u \in Users, NEW plate \in Plates, NEW type \in Types,
         CreateMobileShopProvider(r, u, plate, type)
  PROVE  Begins(r)
<1>1. PICK e \in FindByPlate(plate) :
        MayRegister(u, "MOBILE_SHOP", e) /\ Look(r, Licensed("MOBILE_SHOP", Call, u, plate, type, e))
  BY DEF CreateMobileShopProvider
<1>2. Call \in Ids /\ Call \notin Plates /\ "MOBILE_SHOP" \in Kinds
  BY CallIsNew DEF DirKept, Kinds
<1>3. QED
  BY <1>1, <1>2, LicenceBegins

LEMMA CreateTowBegins ==
  ASSUME DirKept, NEW r \in Requests, NEW u \in Users, NEW plate \in Plates, CreateTowProvider(r, u, plate)
  PROVE  Begins(r)
<1>1. PICK e \in FindByPlate(plate) :
        MayRegister(u, "TOW", e) /\ Look(r, Licensed("TOW", plate, u, plate, "CAR", e))
  BY DEF CreateTowProvider
<1>2. plate \in Ids /\ "TOW" \in Kinds /\ "CAR" \in Types
  BY ProvidersAssumption DEF Ids, Kinds
<1>3. QED
  BY <1>1, <1>2, LicenceBegins

------------------------------------------------------------------------------
(* The other calls that look *)

LEMMA ReportBegins ==
  ASSUME DirKept, NEW r \in Requests, NEW i \in DOMAIN prov, NEW u \in Users, ReportProvider(r, i, u)
  PROVE  Begins(r)
<1> DEFINE w == [to |-> "reported", i |-> Call, fields |-> [i |-> i, by |-> u, status |-> "OPEN"]]
           s == <<w>>
<1>1. Look(r, s)
  BY DEF ReportProvider
<1>2. Call \in Nat /\ i \in Ids
  BY CallIsNew DEF DirKept, DirTypeOK
<1>3. w \in DirWrites /\ w.to = "reported" /\ w.i = Call
  BY <1>2 DEF DirWrites, OfReports, ReportDoc
<1> HIDE DEF w
<1>4. s \in Seq(DirWrites) /\ DOMAIN s = {1} /\ s[1] = w /\ Len(s) = 1
  BY <1>3
<1>5. Opens(s)
  BY <1>3, <1>4 DEF Opens, Reaches
<1>6. InOrder(s)
  BY <1>3, <1>4 DEF InOrder, Registers, Brings, Links, Replates, Denies, Scraps, Changes
<1>7. QED
  BY <1>1, <1>5, <1>6 DEF Begins

LEMMA CreateProfileBegins ==
  ASSUME DirKept, NEW r \in Requests, NEW u \in Users, NEW type \in Types, CreateProfile(r, u, type)
  PROVE  Begins(r)
<1> DEFINE w == NewVehicle(u, type)
           s == <<w>>
<1>1. Look(r, s)
  BY DEF CreateProfile, NewVehicle
<1>2. w \in DirWrites /\ w.to = "vehicle" /\ w.i = Call /\ Call \notin DOMAIN vehicle
  <2>1. Call \in Ids /\ Call \notin DOMAIN vehicle
    BY CallIsNew DEF DirKept
  <2>2. w \in DirWrites /\ w.to = "vehicle" /\ w.i = Call
    BY <2>1, VehicleWrites DEF DirKept
  <2>3. QED
    BY <2>1, <2>2
<1> HIDE DEF w
<1>3. s \in Seq(DirWrites) /\ DOMAIN s = {1} /\ s[1] = w
  BY <1>2
<1>4. Opens(s)
  BY <1>2, <1>3 DEF Opens, Reaches
<1>5. InOrder(s)
  BY <1>2, <1>3, NothingBefore DEF InOrder, Registers, Brings, Links, Replates, Denies, Scraps, Changes
<1>6. QED
  BY <1>1, <1>4, <1>5 DEF Begins

LEMMA DeniedPatch ==
  ASSUME NEW i \in Ids
  PROVE  /\ Patch(i, Denied) \in DirWrites /\ Patch(i, Denied).to = "provider" /\ Patch(i, Denied).i = i
         /\ Patch(i, Denied).fields = Denied
         /\ OffMap(i) \in DirWrites /\ OffMap(i).to = "row"
BY DEF Patch, OffMap, DirWrites, Patches, OfRows

LEMMA DenyingChanges ==
  ASSUME NEW w, w.fields = Denied
  PROVE  ~Changes(w, "plate") /\ w.fields.vehicle = Nothing
BY Denying DEF Changes

LEMMA RevokeBegins ==
  ASSUME DirKept, NEW r \in Requests, NEW i \in DOMAIN prov, RevokeProvider(r, i)
  PROVE  Begins(r)
<1> DEFINE p == Patch(i, Denied)
           o == OffMap(i)
           s == <<p, o>>
<1>1. Look(r, s) /\ <<i, "assigned">> \notin jobs
  BY DEF RevokeProvider, Engaged, Busy
<1>2. i \in Ids
  BY DEF DirKept, DirTypeOK
<1>3. p \in DirWrites /\ p.to = "provider" /\ p.i = i /\ p.fields = Denied /\ o \in DirWrites /\ o.to = "row"
  BY <1>2, DeniedPatch
<1>4. ~Changes(p, "plate") /\ p.fields.vehicle = Nothing
  BY <1>3, DenyingChanges
<1> HIDE DEF p, o
<1>5. s \in Seq(DirWrites) /\ DOMAIN s = {1, 2} /\ s[1] = p /\ s[2] = o
  BY <1>3
<1>6. Opens(s)
  BY <1>3, <1>5 DEF Opens, Reaches
<1>7. Registers(p) /\ Brings(s, 1) /\ Links(s, 1) /\ Replates(s, 1) /\ Denies(p) /\ Scraps(s, 1)
  BY <1>1, <1>3, <1>4, <1>5 DEF Registers, Brings, Links, Replates, Denies, Scraps
<1>8. Registers(o) /\ Brings(s, 2) /\ Links(s, 2) /\ Replates(s, 2) /\ Denies(o) /\ Scraps(s, 2)
  BY <1>3, <1>5 DEF Registers, Brings, Links, Replates, Denies, Scraps, Changes
<1>9. InOrder(s)
  BY <1>5, <1>7, <1>8 DEF InOrder
<1>10. QED
  BY <1>1, <1>6, <1>9 DEF Begins

\* A new plate: perhaps another record on it gets this one's vehicle first.
LEMMA PlateBegins ==
  ASSUME DirKept, NEW r \in Requests, NEW i \in DOMAIN prov, NEW plate \in Plates, UpdatePlate(r, i, plate)
  PROVE  Begins(r)
<1>1. PICK e \in FindByPlate(plate) :
        MayDrive(i, e) /\ Look(r, LendTo(i, e) \o <<Patch(i, TakeOver(i, e, plate))>>)
  BY DEF UpdatePlate
<1> DEFINE f == TakeOver(i, e, plate)
           p == Patch(i, f)
           g == [vehicle |-> prov[i].vehicle]
           l == Patch(e, g)
           s == LendTo(i, e) \o <<p>>
           u == prov[i].op
<1>2. DirTypeOK /\ i \in Ids /\ prov[i] \in ProviderDoc /\ Nothing \notin DOMAIN prov
  BY NoneApart DEF DirKept, DirTypeOK
<1>3. /\ e # Nothing => e \in DOMAIN prov /\ e \in OnPlate(prov, plate) /\ prov[e].op = u
                     /\ prov[e] \in ProviderDoc /\ e \in Ids
      /\ e = Nothing => OnPlate(prov, plate) = {}
  BY <1>1, <1>2, FoundByPlate DEF MayDrive, OnPlate, DirTypeOK
<1>4. u \in Users
  BY <1>2 DEF ProviderDoc
<1>5. /\ f \in Linking /\ "plate" \in DOMAIN f /\ f.plate = plate /\ "status" \notin DOMAIN f
      /\ "vehicle" \in DOMAIN f => e # Nothing /\ f.vehicle = prov[e].vehicle
  <2>1. CASE Compatible(i, e) /\ prov[e].vehicle # Nothing
    <3>1. f = [plate |-> plate, vehicle |-> prov[e].vehicle] /\ e # Nothing
      BY <2>1 DEF TakeOver, Compatible
    <3>2. prov[e].vehicle \in Nat
      BY <1>3, <2>1, <3>1 DEF ProviderDoc
    <3> HIDE DEF f
    <3>3. QED
      BY <3>1, <3>2 DEF Linking
  <2>2. CASE ~(Compatible(i, e) /\ prov[e].vehicle # Nothing)
    <3>1. f = [plate |-> plate]
      BY <2>2 DEF TakeOver
    <3> HIDE DEF f
    <3>2. QED
      BY <3>1 DEF Linking
  <2>3. QED
    BY <2>1, <2>2
<1> HIDE DEF f
<1>6. p \in DirWrites /\ p.to = "provider" /\ p.i = i /\ p.fields = f
  BY <1>2, <1>5 DEF Patch, DirWrites, Patches
<1>7. ASSUME Agreeing
      PROVE  /\ \A k \in OnPlate(prov, plate) : prov[k].op = u
             /\ "vehicle" \in DOMAIN f /\ f.vehicle # Nothing =>
                  f.vehicle \in DOMAIN vehicle /\ vehicle[f.vehicle].owner = u
             /\ prov[i].vehicle # Nothing =>
                  prov[i].vehicle \in DOMAIN vehicle /\ vehicle[prov[i].vehicle].owner = u
  <2>1. \A k \in OnPlate(prov, plate) : prov[k].op = u
    BY <1>3, <1>7 DEF Agreeing, OneAccountPerPlate
  <2>2. \A k \in DOMAIN prov : prov[k].vehicle # Nothing =>
          prov[k].vehicle \in DOMAIN vehicle /\ vehicle[prov[k].vehicle].owner = prov[k].op
    BY <1>7 DEF Agreeing, VehicleIsOwn
  <2>3. QED
    BY <1>3, <1>5, <2>1, <2>2
<1>8. CASE LendTo(i, e) = <<>>
  <2>1. s = <<p>>
    BY <1>6, <1>8
  <2> HIDE DEF p, s
  <2>2. s \in Seq(DirWrites) /\ DOMAIN s = {1} /\ s[1] = p
    BY <1>6, <2>1
  <2>3. Opens(s)
    BY <1>6, <2>2 DEF Opens, Reaches
  <2>4. ASSUME Agreeing
        PROVE  InOrder(s)
    <3>1. Links(s, 1)
      BY <1>2, <1>4, <1>6, <1>7, <2>2, <2>4, NothingBefore DEF Links, Changes, Has, Owned
    <3>2. Replates(s, 1)
      BY <1>2, <1>5, <1>6, <1>7, <2>2, <2>4, NothingBefore DEF Replates
    <3>3. Registers(p) /\ Brings(s, 1) /\ Denies(p) /\ Scraps(s, 1)
      BY <1>5, <1>6, <2>2 DEF Registers, Brings, Denies, Scraps, Changes
    <3>4. QED
      BY <2>2, <3>1, <3>2, <3>3 DEF InOrder
  <2>5. QED
    BY <1>1, <2>3, <2>4 DEF Begins, s, p, f
<1>9. CASE LendTo(i, e) # <<>>
  <2>1. LendTo(i, e) = <<l>> /\ e # Nothing /\ prov[i].vehicle # Nothing
    BY <1>9 DEF LendTo, Compatible
  <2>2. g.vehicle = prov[i].vehicle /\ DOMAIN g = {"vehicle"} /\ g \in Linking
    BY <1>2, <2>1 DEF ProviderDoc, Linking
  <2> HIDE DEF g
  <2>3. l \in DirWrites /\ l.to = "provider" /\ l.i = e /\ l.fields = g
    BY <1>3, <2>1, <2>2 DEF Patch, DirWrites, Patches
  <2>4. s = <<l, p>>
    <3> HIDE DEF l, p
    <3>1. <<l>> \o <<p>> \in Seq({l, p}) /\ <<l, p>> \in Seq({l, p}) /\ Len(<<l>> \o <<p>>) = 2
          /\ Len(<<l, p>>) = 2 /\ \A n \in 1..2 : (<<l>> \o <<p>>)[n] = <<l, p>>[n]
      OBVIOUS
    <3>2. <<l>> \o <<p>> = <<l, p>>
      BY <3>1, SameSeq
    <3>3. QED
      BY <2>1, <3>2
  <2> HIDE DEF p, l, s
  <2>5. s \in Seq(DirWrites) /\ DOMAIN s = {1, 2} /\ s[1] = l /\ s[2] = p /\ Before(s, 2) = {l}
    <3>1. s \in Seq(DirWrites) /\ DOMAIN s = {1, 2} /\ s[1] = l /\ s[2] = p
      BY <1>6, <2>3, <2>4
    <3>2. QED
      BY <3>1 DEF Before
  <2>6. Opens(s)
    BY <1>3, <1>6, <2>1, <2>3, <2>5 DEF Opens, Reaches
  <2>7. ~Changes(l, "plate")
    BY <2>2, <2>3 DEF Changes
  <2>8. ASSUME Agreeing
        PROVE  InOrder(s)
    <3>1. Links(s, 1)
      BY <1>3, <1>4, <1>7, <2>1, <2>2, <2>3, <2>5, <2>8, NothingBefore DEF Links, Changes, Has, Owned
    <3>2. Registers(l) /\ Brings(s, 1) /\ Replates(s, 1) /\ Denies(l) /\ Scraps(s, 1)
      BY <2>2, <2>3, <2>5 DEF Registers, Brings, Replates, Denies, Scraps, Changes
    <3>3. Links(s, 2)
      BY <1>2, <1>4, <1>6, <1>7, <2>3, <2>5, <2>8 DEF Links, Changes, Has, Owned
    <3>4. Replates(s, 2)
      BY <1>2, <1>5, <1>6, <1>7, <2>3, <2>5, <2>7, <2>8 DEF Replates
    <3>5. Registers(p) /\ Brings(s, 2) /\ Denies(p) /\ Scraps(s, 2)
      BY <1>5, <1>6, <2>5 DEF Registers, Brings, Denies, Scraps, Changes
    <3>6. QED
      BY <2>5, <3>1, <3>2, <3>3, <3>4, <3>5 DEF InOrder
  <2>9. QED
    BY <1>1, <2>6, <2>8 DEF Begins, s, p, f
<1>10. QED
  BY <1>8, <1>9

LEMMA UnlinkIs ==
  ASSUME DirTypeOK, NEW S, S \subseteq DOMAIN prov
  PROVE  /\ Unlink(S) \in Seq(DirWrites)
         /\ \A n \in DOMAIN Unlink(S) :
              \E i \in S : Unlink(S)[n] = Patch(i, Denied) \/ Unlink(S)[n] = OffMap(i)
         /\ \A i \in S : \E n \in DOMAIN Unlink(S) : Unlink(S)[n] = Patch(i, Denied)
<1> DEFINE q == SetToSeq(S)
           t == Unlink(S)
           c == Cardinality(S)
<1>1. IsFiniteSet(S) /\ S \subseteq Ids
  BY FS_Subset DEF DirTypeOK
<1>2. /\ Len(q) = c /\ c \in Nat /\ \A n \in 1..c : q[n] \in S
      /\ \A x \in S : \E n \in 1..c : q[n] = x
  BY <1>1, ListOf
<1>3. t = [n \in 1..2 * Len(q) |-> IF n % 2 = 1 THEN Patch(q[(n + 1) \div 2], Denied) ELSE OffMap(q[n \div 2])]
  BY DEF Unlink
<1> HIDE DEF q, c, t
<1>4. DOMAIN t = 1..2 * c
  BY <1>2, <1>3
<1>5. ASSUME NEW n \in 1..2 * c
      PROVE  \/ (n + 1) \div 2 \in 1..c /\ t[n] = Patch(q[(n + 1) \div 2], Denied)
             \/ n \div 2 \in 1..c /\ t[n] = OffMap(q[n \div 2])
  <2>1. n % 2 = 1 => (n + 1) \div 2 \in 1..c
    BY <1>2
  <2>2. n % 2 # 1 => n \div 2 \in 1..c
    BY <1>2
  <2>3. QED
    BY <1>2, <1>3, <2>1, <2>2
<1>6. \A n \in DOMAIN t : \E i \in S : t[n] = Patch(i, Denied) \/ t[n] = OffMap(i)
  BY <1>2, <1>4, <1>5
<1>7. ASSUME NEW i \in S
      PROVE  \E n \in DOMAIN t : t[n] = Patch(i, Denied)
  <2>1. PICK m \in 1..c : q[m] = i
    BY <1>2
  <2>2. 2 * m - 1 \in 1..2 * c /\ (2 * m - 1) % 2 = 1 /\ ((2 * m - 1) + 1) \div 2 = m
    BY <1>2
  <2>3. t[2 * m - 1] = Patch(i, Denied)
    BY <1>2, <1>3, <2>1, <2>2
  <2>4. QED
    BY <1>4, <2>2, <2>3
<1>8. \A n \in DOMAIN t : t[n] \in DirWrites
  BY <1>1, <1>6, DeniedPatch
<1>9. t \in Seq(DirWrites)
  <2>1. t = [n \in 1..2 * c |-> t[n]]
    BY <1>2, <1>3
  <2>2. 2 * c \in Nat
    BY <1>2
  <2>3. QED
    BY <1>4, <1>8, <2>1, <2>2
<1>10. QED
  BY <1>6, <1>7, <1>9 DEF t

LEMMA ScrapIs ==
  ASSUME NEW v \in Nat, NEW u \in Users
  PROVE  /\ Scrap(v) \in DirWrites /\ Scrap(v).to = "scrap" /\ Scrap(v).i = v
         /\ [to |-> "chosen", i |-> u, v |-> Nothing] \in DirWrites
         /\ [to |-> "chosen", i |-> u, v |-> Nothing].to = "chosen"
BY DEF Scrap, DirWrites, OfVehicles, OfUsers

\* All the licences of a vehicle, then the vehicle, then perhaps its owner's choice.
LEMMA RemoveBegins ==
  ASSUME DirKept, NEW r \in Requests, NEW v \in DOMAIN vehicle, RemoveProfile(r, v)
  PROVE  Begins(r)
<1> DEFINE u == vehicle[v].owner
           S == Linked(v)
           t == Unlink(S)
           x == Scrap(v)
           y == [to |-> "chosen", i |-> u, v |-> Nothing]
           e == IF chosen[u] = v THEN <<y>> ELSE <<>>
           s == t \o <<x>> \o e
           k == Len(t)
<1>1. Look(r, s) /\ \A i \in S : <<i, "assigned">> \notin jobs
  BY DEF RemoveProfile, Engaged, Busy
<1>2. DirTypeOK /\ v \in Nat /\ u \in Users /\ S \subseteq DOMAIN prov /\ DOMAIN prov \subseteq Ids
  BY DEF DirKept, DirTypeOK, VehicleDoc, Linked
<1>3. /\ t \in Seq(DirWrites) /\ \A n \in DOMAIN t : \E i \in S : t[n] = Patch(i, Denied) \/ t[n] = OffMap(i)
      /\ \A i \in S : \E n \in DOMAIN t : t[n] = Patch(i, Denied)
  BY <1>2, UnlinkIs
<1>4. x \in DirWrites /\ x.to = "scrap" /\ x.i = v /\ y \in DirWrites /\ y.to = "chosen"
  BY <1>2, ScrapIs
<1> HIDE DEF t, x, y, u, S
<1>5. e \in Seq({y})
  OBVIOUS
<1> HIDE DEF e
<1>6. k \in Nat /\ DOMAIN t = 1..k
  BY <1>3
<1>7. /\ s \in Seq(DirWrites) /\ k + 1 \in DOMAIN s /\ s[k + 1] = x
      /\ \A n \in 1..k : n \in DOMAIN s /\ s[n] = t[n]
      /\ \A n \in DOMAIN s : n \in 1..k \/ n = k + 1 \/ s[n] = y
  <2>1. t \o <<x>> \in Seq(DirWrites) /\ Len(t \o <<x>>) = k + 1 /\ (t \o <<x>>)[k + 1] = x
        /\ \A n \in 1..k : (t \o <<x>>)[n] = t[n]
    BY <1>3, <1>4, <1>6
  <2>2. e \in Seq(DirWrites) /\ Len(e) \in Nat /\ DOMAIN e = 1..Len(e) /\ \A n \in 1..Len(e) : e[n] = y
    BY <1>4, <1>5
  <2> DEFINE p == t \o <<x>>
  <2> HIDE DEF p
  <2>3. s = p \o e
    BY DEF p
  <2>4. s \in Seq(DirWrites) /\ Len(s) = k + 1 + Len(e) /\ DOMAIN s = 1..(k + 1 + Len(e))
    BY <1>6, <2>1, <2>2, <2>3 DEF p
  <2>5. \A n \in 1..(k + 1) : s[n] = p[n]
    BY <1>6, <2>1, <2>2, <2>3 DEF p
  <2>6. \A n \in 1..(k + 1 + Len(e)) : n > k + 1 => s[n] = e[n - (k + 1)] /\ n - (k + 1) \in 1..Len(e)
    BY <1>6, <2>1, <2>2, <2>3 DEF p
  <2>7. QED
    BY <1>6, <2>1, <2>2, <2>4, <2>5, <2>6 DEF p
<1> HIDE DEF s
<1>8. ASSUME NEW n \in DOMAIN t
      PROVE  \/ s[n].to = "row"
             \/ s[n].to = "provider" /\ s[n].fields = Denied /\ s[n].i \in S /\ s[n].i \in DOMAIN prov
  <2>1. s[n] = t[n]
    BY <1>6, <1>7
  <2>2. PICK i \in S : t[n] = Patch(i, Denied) \/ t[n] = OffMap(i)
    BY <1>3
  <2>3. CASE t[n] = Patch(i, Denied)
    <3>1. Patch(i, Denied).to = "provider" /\ Patch(i, Denied).fields = Denied /\ Patch(i, Denied).i = i
      BY DEF Patch
    <3>2. QED
      BY <1>2, <2>1, <2>2, <2>3, <3>1
  <2>4. CASE t[n] = OffMap(i)
    <3>1. OffMap(i).to = "row"
      BY DEF OffMap
    <3>2. QED
      BY <2>1, <2>4, <3>1
  <2>5. QED
    BY <2>2, <2>3, <2>4
<1>9. Opens(s)
  BY <1>4, <1>6, <1>7, <1>8 DEF Opens, Reaches
<1>10. ASSUME NEW n \in DOMAIN s
       PROVE  Registers(s[n]) /\ Brings(s, n) /\ Links(s, n) /\ Replates(s, n) /\ Denies(s[n]) /\ Scraps(s, n)
  <2>1. CASE n \in 1..k
    <3>1. CASE s[n].to = "row"
      BY <3>1 DEF Registers, Brings, Links, Replates, Denies, Scraps, Changes
    <3>2. CASE s[n].to = "provider" /\ s[n].fields = Denied /\ s[n].i \in S
      <4>1. ~Changes(s[n], "plate") /\ s[n].fields.vehicle = Nothing
        BY <3>2, DenyingChanges
      <4>2. QED
        BY <1>1, <3>2, <4>1 DEF Registers, Brings, Links, Replates, Denies, Scraps
    <3>3. QED
      BY <1>6, <1>8, <2>1, <3>1, <3>2
  <2>2. CASE n = k + 1
    <3>1. \A w \in Before(s, n) : \E m \in DOMAIN t : w = s[m]
      BY <1>6, <2>2 DEF Before
    <3>2. \A w \in Before(s, n) : w.to = "row" \/ (w.to = "provider" /\ w.fields = Denied)
      BY <1>8, <3>1
    <3>3. \A i \in S : Patch(i, Denied) \in Before(s, n)
      BY <1>3, <1>6, <1>7, <2>2 DEF Before
    <3>4. Scraps(s, n)
      BY <1>4, <1>7, <2>2, <3>2, <3>3 DEF Scraps, S
    <3>5. QED
      BY <1>4, <1>7, <2>2, <3>4 DEF Registers, Brings, Links, Replates, Denies, Changes
  <2>3. CASE s[n] = y
    BY <1>4, <2>3 DEF Registers, Brings, Links, Replates, Denies, Scraps, Changes
  <2>4. QED
    BY <1>7, <2>1, <2>2, <2>3
<1>11. InOrder(s)
  BY <1>10 DEF InOrder
<1>12. QED
  BY <1>1, <1>9, <1>11 DEF Begins, s, t, e, x, y, u, S

\* Every call that looks begins so.
LEMMA LooksBegin ==
  ASSUME DirKept, NEW r \in Requests,
         Register(r) \/ Edit(r) \/ License(r) \/ Discipline(r) \/ Garage(r) \/ Presence(r)
  PROVE  Begins(r)
<1>1. CASE Register(r)
  <2>1. \E u \in Users :
          \/ CreateShopProvider(r, u)
          \/ \E p \in Plates : CreateTowProvider(r, u, p)
          \/ \E p \in Plates, t \in Types : CreateMobileShopProvider(r, u, p, t)
    BY <1>1 DEF Register
  <2>2. QED
    BY <2>1, CreateShopBegins, CreateTowBegins, CreateMobileBegins
<1>2. CASE Edit(r)
  <2>1. \E i \in DOMAIN prov :
          \/ \E b \in BOOLEAN : UpdateDuty(r, i, b)
          \/ \E p \in Plates : UpdatePlate(r, i, p)
          \/ \E t \in Types : UpdateType(r, i, t)
    BY <1>2 DEF Edit
  <2>2. QED
    BY <2>1, DutyBegins, PlateBegins, TypeBegins
<1>3. CASE License(r)
  <2>1. \E i \in DOMAIN prov : RevokeProvider(r, i) \/ \E b \in BOOLEAN : ReviewProvider(r, i, b)
    BY <1>3 DEF License
  <2>2. QED
    BY <2>1, RevokeBegins, ReviewBegins
<1>4. CASE Discipline(r)
  <2>1. \/ \E i \in DOMAIN prov :
             \/ RestoreProvider(r, i)
             \/ \E u \in Users : ReportProvider(r, i, u)
             \/ \E k \in DOMAIN report \cup {Nothing} : SuspendProvider(r, i, k)
        \/ \E k \in DOMAIN report : DismissReport(r, k)
    BY <1>4 DEF Discipline
  <2>2. QED
    BY <2>1, RestoreBegins, ReportBegins, SuspendBegins, DismissBegins
<1>5. CASE Garage(r)
  <2>1. \/ \E u \in Users :
             \/ \E t \in Types : CreateProfile(r, u, t)
             \/ \E v \in DOMAIN vehicle \cup {Nothing} : SetActiveVehicle(r, u, v)
        \/ \E v \in DOMAIN vehicle : RemoveProfile(r, v)
    BY <1>5 DEF Garage
  <2>2. QED
    BY <2>1, CreateProfileBegins, ChosenBegins, RemoveBegins
<1>6. CASE Presence(r)
  BY <1>6, LocationBegins DEF Presence
<1>7. QED
  BY <1>1, <1>2, <1>3, <1>4, <1>5, <1>6

------------------------------------------------------------------------------
(* Every step keeps the documents and the calls in order *)

LEMMA SameKept ==
  ASSUME DirKept, DirTypeOK', UNCHANGED <<req, calls, report>>, DOMAIN prov' = DOMAIN prov
  PROVE  DirKept'
<1>1. ASSUME NEW q \in Slots
      PROVE  Proper(req[q], calls)'
  <2>1. \A n \in DOMAIN req[q] : req[q][n].to = "reported" => req[q][n].i \notin DOMAIN report'
    BY DEF DirKept, Proper, Numbers
  <2>2. calls \in Nat /\ calls' \in Nat /\ calls <= calls'
    BY DEF DirKept, DirTypeOK
  <2>3. QED
    BY <2>1, <2>2, ProperOther
<1>2. NoSharedNumber' /\ OnlyRows'
  BY DEF DirKept, NoSharedNumber, OnlyRows
<1>3. QED
  BY <1>1, <1>2 DEF DirKept

\* A ticket changes the duty of one provider, and gives a job to an active one.
LEMMA TicketIs ==
  ASSUME DirTypeOK, NEW i \in DOMAIN prov, Ticketing(i)
  PROVE  /\ \E b \in BOOLEAN : prov' = [prov EXCEPT ![i].accepting = b]
         /\ jobs' \subseteq jobs \cup {<<i, "pending">>, <<i, "named">>, <<i, "assigned">>}
         /\ <<i, "assigned">> \in jobs' => <<i, "assigned">> \in jobs \/ prov[i].status = "ACTIVE"
         /\ tangled' = (tangled \/ \E q \in Requests : req[q] # <<>>)
         /\ UNCHANGED <<vehicle, chosen, row, report, req, calls, died>>
<1>1. prov[i].accepting \in BOOLEAN
  BY DEF DirTypeOK, ProviderDoc
<1>2. CASE Address(i)
  <2>1. PICK how \in {"pending", "named"} : Ticketed(i, TRUE, jobs \cup {<<i, how>>})
    BY <1>2 DEF Address
  <2>2. QED
    BY <2>1 DEF Ticketed
<1>3. CASE AcceptAsShop(i)
  <2>1. prov[i].status = "ACTIVE"
        /\ Ticketed(i, prov[i].kind # "TOW", (jobs \ {<<i, "pending">>}) \cup {<<i, "assigned">>})
    BY <1>3 DEF AcceptAsShop, IsActive
  <2>2. (prov[i].kind # "TOW") \in BOOLEAN
    OBVIOUS
  <2>3. QED
    BY <2>1, <2>2 DEF Ticketed
<1>4. CASE TicketCloses(i)
  <2>1. PICK how \in {"assigned", "pending", "named"} :
          Ticketed(i, IF prov[i].kind = "TOW" THEN TRUE ELSE prov[i].accepting, jobs \ {<<i, how>>})
    BY <1>4 DEF TicketCloses
  <2>2. QED
    BY <1>1, <2>1 DEF Ticketed
<1>5. QED
  BY <1>2, <1>3, <1>4 DEF Ticketing

LEMMA DutySwitched ==
  ASSUME DirTypeOK, NEW i \in DOMAIN prov, NEW b \in BOOLEAN, prov' = [prov EXCEPT ![i].accepting = b]
  PROVE  /\ DOMAIN prov' = DOMAIN prov
         /\ \A j \in DOMAIN prov :
              /\ prov'[j] \in ProviderDoc /\ prov'[j].op = prov[j].op /\ prov'[j].kind = prov[j].kind
              /\ prov'[j].plate = prov[j].plate /\ prov'[j].vehicle = prov[j].vehicle
              /\ prov'[j].status = prov[j].status
<1>1. DOMAIN prov' = DOMAIN prov
  OBVIOUS
<1>2. \A j \in DOMAIN prov \ {i} : prov'[j] = prov[j]
  OBVIOUS
<1>3. PICK d : d = prov[i]
  OBVIOUS
<1>4. prov'[i] = [d EXCEPT !.accepting = b]
  BY <1>3
<1>5. d \in ProviderDoc
  BY <1>3 DEF DirTypeOK
<1>6. /\ [d EXCEPT !.accepting = b] \in ProviderDoc
      /\ [d EXCEPT !.accepting = b].op = d.op /\ [d EXCEPT !.accepting = b].kind = d.kind
      /\ [d EXCEPT !.accepting = b].plate = d.plate /\ [d EXCEPT !.accepting = b].vehicle = d.vehicle
      /\ [d EXCEPT !.accepting = b].status = d.status
  BY <1>5 DEF ProviderDoc
<1>7. \A j \in DOMAIN prov : prov[j] \in ProviderDoc
  BY DEF DirTypeOK
<1>8. QED
  BY <1>1, <1>2, <1>3, <1>4, <1>6, <1>7

LEMMA TicketKeeps ==
  ASSUME DirKept, NEW i \in DOMAIN prov, Ticketing(i)
  PROVE  DirKept'
<1>1. DirTypeOK
  BY DEF DirKept
<1>2. /\ jobs' \subseteq jobs \cup {<<i, "pending">>, <<i, "named">>, <<i, "assigned">>}
      /\ UNCHANGED <<vehicle, chosen, row, report, req, calls>>
  BY <1>1, TicketIs
<1>3. DOMAIN prov' = DOMAIN prov /\ \A j \in DOMAIN prov : prov'[j] \in ProviderDoc
  BY <1>1, TicketIs, DutySwitched
<1>4. jobs' \subseteq (DOMAIN prov') \X {"assigned", "pending", "named"}
  BY <1>1, <1>2, <1>3 DEF DirTypeOK
<1>5. IsFiniteSet(DOMAIN prov')
  BY <1>1, <1>3 DEF DirTypeOK
<1>6. DirTypeOK'
  BY <1>1, <1>2, <1>3, <1>4, <1>5 DEF DirTypeOK
<1>7. QED
  BY <1>2, <1>3, <1>6, SameKept

LEMMA SweepOpens ==
  ASSUME DirKept, SweepStalePresence
  PROVE  \E s : Looks(Cron, s) /\ calls' = calls /\ Opens(s) /\ InOrder(s) /\ \A n \in DOMAIN s : s[n].to = "row"
<1> DEFINE S == StaleRows
           s == [n \in 1..Cardinality(S) |-> OffMap(SetToSeq(S)[n])]
<1>1. Looks(Cron, s) /\ calls' = calls
  BY DEF SweepStalePresence
<1>2. S \subseteq DOMAIN row /\ IsFiniteSet(DOMAIN row) /\ DOMAIN row \subseteq Ids
  BY DEF StaleRows, DirKept, DirTypeOK
<1>3. IsFiniteSet(S) /\ S \subseteq Ids
  BY <1>2, FS_Subset
<1>4. s \in Seq(Milds)
  BY <1>3, RowsOf
<1>5. \A n \in DOMAIN s : s[n].to = "row"
  BY DEF OffMap
<1>6. QED
  BY <1>1, <1>4, <1>5, MildLists

LEMMA InitKept == Init => DirKept
<1> SUFFICES ASSUME Init
             PROVE  DirKept
  OBVIOUS
<1>1. PICK f \in Founded : prov = f.prov /\ vehicle = f.vehicle /\ report = f.report
  BY DEF Init
<1>2. /\ DOMAIN f.prov \subseteq Plates \cup {0} /\ IsFiniteSet(DOMAIN f.prov)
      /\ \A i \in DOMAIN f.prov : f.prov[i] \in ProviderDoc
      /\ DOMAIN f.vehicle \subseteq {0} /\ \A v \in DOMAIN f.vehicle : f.vehicle[v] \in VehicleDoc
      /\ DOMAIN f.report \subseteq {0} /\ \A k \in DOMAIN f.report : f.report[k] \in ReportDoc
  BY FoundedAssumption
<1>3. /\ chosen = [u \in Users |-> Nothing] /\ row = <<>> /\ jobs = {} /\ calls = 0
      /\ req = [r \in Slots |-> <<>>]
  BY DEF Init
<1>4. DOMAIN row = {}
  BY <1>3
<1>5. DOMAIN row \subseteq Ids /\ IsFiniteSet(DOMAIN row)
  BY <1>4, FS_EmptySet
<1>6. DOMAIN prov \subseteq Ids /\ IsFiniteSet(DOMAIN prov) /\ \A i \in DOMAIN prov : prov[i] \in ProviderDoc
  BY <1>1, <1>2 DEF Ids
<1>7. /\ DOMAIN vehicle \subseteq 0..calls /\ \A v \in DOMAIN vehicle : vehicle[v] \in VehicleDoc
      /\ DOMAIN report \subseteq 0..calls /\ \A k \in DOMAIN report : report[k] \in ReportDoc
  BY <1>1, <1>2, <1>3
<1>8. chosen \in [Users -> Nat \cup {Nothing}] /\ calls \in Nat
      /\ jobs \subseteq (DOMAIN prov) \X {"assigned", "pending", "named"}
  BY <1>3
<1>9. req \in [Slots -> Seq(DirWrites)]
  BY <1>3
<1>10. DirTypeOK
  BY <1>5, <1>6, <1>7, <1>8, <1>9 DEF DirTypeOK
<1>11. \A r \in Slots : DOMAIN req[r] = {}
  BY <1>3
<1>12. QED
  BY <1>10, <1>11 DEF DirKept, Proper, NoSharedNumber, OnlyRows, Slots

LEMMA NextKept == DirKept /\ [Next]_vars => DirKept'
<1> SUFFICES ASSUME DirKept, [Next]_vars
             PROVE  DirKept'
  OBVIOUS
<1>1. ASSUME NEW r \in Requests,
             Register(r) \/ Edit(r) \/ License(r) \/ Discipline(r) \/ Garage(r) \/ Presence(r)
      PROVE  DirKept'
  <2>1. PICK s : Look(r, s) /\ Opens(s)
    BY <1>1, LooksBegin DEF Begins
  <2>2. Looks(r, s) /\ calls' = Call /\ r \in Slots /\ r # Cron
    BY <2>1, ProvidersAssumption DEF Look, Slots
  <2>3. QED
    BY <2>1, <2>2, LooksKeep
<1>2. ASSUME NEW r \in Slots, Write(r)
      PROVE  DirKept'
  BY <1>2, WriteKeeps
<1>3. ASSUME NEW r \in Slots, Die(r)
      PROVE  DirKept'
  BY <1>3, EndsKeep DEF Die
<1>4. ASSUME NEW i \in DOMAIN prov, GrowsStale(i)
      PROVE  DirKept'
  <2>1. UNCHANGED <<prov, vehicle, chosen, report, jobs, req, calls>> /\ DOMAIN row' = DOMAIN row
    BY <1>4 DEF GrowsStale
  <2>2. IsFiniteSet(DOMAIN row')
    BY <2>1 DEF DirKept, DirTypeOK
  <2>3. DirTypeOK'
    BY <2>1, <2>2 DEF DirKept, DirTypeOK
  <2>4. QED
    BY <2>1, <2>3, SameKept
<1>5. ASSUME NEW i \in DOMAIN prov, Ticketing(i)
      PROVE  DirKept'
  BY <1>5, TicketKeeps
<1>6. CASE SweepStalePresence
  <2>1. PICK s : Looks(Cron, s) /\ calls' = calls /\ Opens(s) /\ \A n \in DOMAIN s : s[n].to = "row"
    BY <1>6, SweepOpens
  <2>2. Cron \in Slots
    BY DEF Slots
  <2>3. QED
    BY <2>1, <2>2, LooksKeep
<1>7. CASE UNCHANGED vars
  <2>1. UNCHANGED <<prov, vehicle, chosen, row, report, jobs, req, calls>>
    BY <1>7 DEF vars
  <2>2. DirTypeOK'
    BY <2>1 DEF DirKept, DirTypeOK
  <2>3. QED
    BY <2>1, <2>2, SameKept
<1>8. QED
  BY <1>1, <1>2, <1>3, <1>4, <1>5, <1>6, <1>7 DEF Next

LEMMA AllVars == [RatingNext]_allVars => [Next]_vars
BY DEF RatingNext, allVars, vars

LEMMA AlwaysKept == RatingSpec => []DirKept
<1>1. RatingInit => DirKept
  BY InitKept DEF RatingInit
<1>2. DirKept /\ [RatingNext]_allVars => DirKept'
  BY NextKept, AllVars
<1>3. QED
  BY <1>1, <1>2, PTL DEF RatingSpec

------------------------------------------------------------------------------
(* Licences *)

LEMMA WriteStands ==
  ASSUME DirKept, NEW r \in Slots, Write(r)
  PROVE  /\ \A i \in DOMAIN prov :
              /\ i \in DOMAIN prov'
              /\ prov'[i].op = prov[i].op /\ prov'[i].kind = prov[i].kind
              /\ prov[i].status = "DENIED" => prov'[i].status = "DENIED"
         /\ \A k \in DOMAIN report : report[k].status # "OPEN" => report'[k].status = report[k].status
<1> DEFINE w == req[r][1]
<1>1. /\ Head(req[r]) = w /\ w \in DirWrites /\ DirTypeOK /\ req[r] # <<>>
      /\ w.to \in {"provider", "decide"} => w.i \in DOMAIN prov
      /\ w.to \in {"vehicle", "reported"} => w.i <= calls
      /\ w.to = "report" => w.i \in DOMAIN report
      /\ w.to = "reported" => w.i \notin DOMAIN report
  BY HeadFacts DEF Write, DirKept
<1>2. CASE Fails(w)
  BY <1>1, <1>2 DEF Write
<1>3. CASE ~Fails(w)
  <2>1. Apply(w)
    BY <1>1, <1>3 DEF Write
  <2>2. /\ w.to = "create" => w.i \notin DOMAIN prov
        /\ w.to = "decide" => prov[w.i].status = "PENDING"
        /\ w.to = "report" => report[w.i].status = "OPEN"
    BY <1>3 DEF Fails
  <2>3. \A k \in DOMAIN report : report[k].status # "OPEN" => report'[k].status = report[k].status
    BY <1>1, <2>1, <2>2, ApplyReport
  <2>4. CASE w.to = "create"
    BY <1>1, <2>1, <2>2, <2>3, <2>4, ApplyProv
  <2>5. CASE w.to \in {"provider", "decide"}
    <3> DEFINE d == prov[w.i]
    <3>1. d \in ProviderDoc
      BY <1>1, <2>5 DEF DirTypeOK
    <3>2. CASE w.to = "provider"
      <4>1. w.fields \in Fresh \cup Linking \cup {Denied}
        BY <1>1, <3>2, WriteForms DEF Patches
      <4>2. PatchFits(w.fields) /\ ("status" \in DOMAIN w.fields => w.fields.status = "DENIED")
        BY <4>1, PatchesFit, Denying
      <4>3. /\ With(d, w.fields).op = d.op /\ With(d, w.fields).kind = d.kind
            /\ d.status = "DENIED" => With(d, w.fields).status = "DENIED"
        BY <3>1, <4>2, WithDoc
      <4>4. QED
        BY <1>1, <2>1, <2>3, <2>5, <4>3, ApplyProv
    <3>3. CASE w.to = "decide"
      <4>1. PatchFits(w.fields)
        BY <1>1, <3>3, WriteForms DEF Decides, PatchFits
      <4>2. With(d, w.fields).op = d.op /\ With(d, w.fields).kind = d.kind /\ d.status # "DENIED"
        BY <2>2, <3>1, <3>3, <4>1, WithDoc
      <4>3. QED
        BY <1>1, <2>1, <2>3, <2>5, <4>2, ApplyProv
    <3>4. QED
      BY <2>5, <3>2, <3>3
  <2>6. CASE w.to \notin {"create", "provider", "decide"}
    BY <1>1, <2>1, <2>3, <2>6, ApplyProv
  <2>7. QED
    BY <2>4, <2>5, <2>6
<1>4. QED
  BY <1>2, <1>3

LEMMA NextStands ==
  ASSUME DirKept, [Next]_vars
  PROVE  /\ \A i \in DOMAIN prov :
              /\ i \in DOMAIN prov'
              /\ prov'[i].op = prov[i].op /\ prov'[i].kind = prov[i].kind
              /\ prov[i].status = "DENIED" => prov'[i].status = "DENIED"
         /\ \A k \in DOMAIN report : report[k].status # "OPEN" => report'[k].status = report[k].status
<1>1. ASSUME NEW r \in Requests,
             Register(r) \/ Edit(r) \/ License(r) \/ Discipline(r) \/ Garage(r) \/ Presence(r)
      PROVE  UNCHANGED <<prov, report>>
  BY <1>1, LooksBegin DEF Begins, Look, Looks
<1>2. ASSUME NEW r \in Slots, Die(r)
      PROVE  UNCHANGED <<prov, report>>
  BY <1>2 DEF Die
<1>3. ASSUME NEW i \in DOMAIN prov, GrowsStale(i)
      PROVE  UNCHANGED <<prov, report>>
  BY <1>3 DEF GrowsStale
<1>4. SweepStalePresence => UNCHANGED <<prov, report>>
  BY DEF SweepStalePresence, Looks
<1>5. UNCHANGED vars => UNCHANGED <<prov, report>>
  BY DEF vars
<1>6. ASSUME NEW i \in DOMAIN prov, Ticketing(i)
      PROVE  /\ DOMAIN prov' = DOMAIN prov /\ report' = report
             /\ \A j \in DOMAIN prov : /\ prov'[j].op = prov[j].op /\ prov'[j].kind = prov[j].kind
                                       /\ prov'[j].status = prov[j].status
  BY <1>6, TicketIs, DutySwitched DEF DirKept
<1>7. CASE \E r \in Slots : Write(r)
  BY <1>7, WriteStands
<1>8. CASE \E i \in DOMAIN prov : Ticketing(i)
  BY <1>6, <1>8
<1>9. CASE UNCHANGED <<prov, report>>
  BY <1>9
<1>10. QED
  BY <1>1, <1>2, <1>3, <1>4, <1>5, <1>7, <1>8, <1>9 DEF Next

\* However calls overlap and wherever they die, a record keeps its operator and its
\* kind, a licence once denied stays denied, and a report is decided once: the writes
\* that could undo it read the document again or never carry a status but DENIED
\* (createTow, reviewProvider, revokeProvider, suspendProvider).
THEOREM LicencesStand == RatingSpec => LicenceStands
<1>1. DirKept /\ [RatingNext]_allVars =>
        [/\ \A i \in DOMAIN prov :
              /\ i \in DOMAIN prov'
              /\ prov'[i].op = prov[i].op /\ prov'[i].kind = prov[i].kind
              /\ prov[i].status = "DENIED" => prov'[i].status = "DENIED"
         /\ \A k \in DOMAIN report :
              report[k].status # "OPEN" => report'[k].status = report[k].status]_vars
  BY NextStands, AllVars
<1>2. QED
  BY <1>1, AlwaysKept, PTL DEF RatingSpec, LicenceStands

------------------------------------------------------------------------------
(* Agreement *)

LEMMA BeforeTail ==
  ASSUME NEW s \in Seq(DirWrites), s # <<>>, NEW t, t = Tail(s), NEW n \in DOMAIN t
  PROVE  Before(s, n + 1) = Before(t, n) \cup {s[1]}
<1>1. /\ Len(s) \in Nat /\ DOMAIN t = 1..(Len(s) - 1) /\ n \in Nat /\ n >= 1
      /\ \A m \in DOMAIN t : t[m] = s[m + 1]
  BY Heads
<1>2. \A m \in 1..(n - 1) : t[m] = s[m + 1] /\ m + 1 \in 1..n
  BY <1>1
<1>3. \A m \in 1..n : m = 1 \/ (m - 1 \in 1..(n - 1) /\ s[m] = t[m - 1])
  BY <1>1
<1>4. (n + 1) - 1 = n /\ 1 \in 1..n
  BY <1>1
<1>5. Before(s, n + 1) = {s[m] : m \in 1..n}
  BY <1>4 DEF Before
<1>6. ASSUME NEW x \in {s[m] : m \in 1..n}
      PROVE  x \in Before(t, n) \cup {s[1]}
  BY <1>3 DEF Before
<1>7. ASSUME NEW x \in Before(t, n)
      PROVE  x \in {s[m] : m \in 1..n}
  BY <1>2 DEF Before
<1>8. s[1] \in {s[m] : m \in 1..n}
  BY <1>4
<1>9. QED
  BY <1>5, <1>6, <1>7, <1>8

\* What the records still say after the write at the head of a call.
LEMMA ProvAfter ==
  ASSUME DirKept, NEW r \in Slots, req[r] # <<>>, InOrder(req[r]), ~Fails(req[r][1]), Apply(req[r][1]),
         NEW w, w = req[r][1]
  PROVE  /\ DOMAIN prov \subseteq DOMAIN prov'
         /\ \A i \in DOMAIN prov : prov'[i].op = prov[i].op /\ prov'[i].kind = prov[i].kind
         /\ w.to # "create" => DOMAIN prov' = DOMAIN prov
         /\ w.to = "create" => /\ w.i \notin DOMAIN prov /\ DOMAIN prov' = DOMAIN prov \cup {w.i}
                               /\ prov'[w.i] = w.fields /\ w.fields \in ProviderDoc
                               /\ \A i \in DOMAIN prov : prov'[i] = prov[i]
         /\ \A i \in DOMAIN prov : (w.to \in {"provider", "decide"} /\ i = w.i) \/ prov'[i] = prov[i]
         /\ w.to = "decide" => /\ w.i \in DOMAIN prov /\ prov[w.i].status = "PENDING"
                               /\ prov'[w.i].plate = prov[w.i].plate
                               /\ prov'[w.i].vehicle = prov[w.i].vehicle
         /\ w.to = "provider" =>
              /\ w.i \in DOMAIN prov
              /\ prov'[w.i].plate = IF Changes(w, "plate") THEN w.fields.plate ELSE prov[w.i].plate
              /\ prov'[w.i].vehicle = IF Changes(w, "vehicle") THEN w.fields.vehicle ELSE prov[w.i].vehicle
              /\ prov'[w.i].status = IF Changes(w, "status") THEN "DENIED" ELSE prov[w.i].status
<1>1. /\ w \in DirWrites /\ DirTypeOK /\ (w.to \in {"provider", "decide"} => w.i \in DOMAIN prov)
  BY HeadFacts DEF DirKept
<1>2. ~Fails(w) /\ Apply(w)
  OBVIOUS
<1>3. CASE w.to = "create"
  BY <1>1, <1>2, <1>3, ApplyProv, WriteForms DEF Fails, Creates
<1>4. CASE w.to \in {"provider", "decide"}
  <2> DEFINE d == prov[w.i]
  <2>1. d \in ProviderDoc
    BY <1>1, <1>4 DEF DirTypeOK
  <2>2. /\ DOMAIN prov' = DOMAIN prov /\ prov'[w.i] = With(d, w.fields)
        /\ \A i \in DOMAIN prov \ {w.i} : prov'[i] = prov[i]
    BY <1>1, <1>2, <1>4, ApplyProv
  <2>3. CASE w.to = "provider"
    <3>1. w.fields \in Fresh \cup Linking \cup {Denied}
      BY <1>1, <2>3, WriteForms DEF Patches
    <3>2. PatchFits(w.fields) /\ ("status" \in DOMAIN w.fields => w.fields.status = "DENIED")
      BY <3>1, PatchesFit, Denying
    <3>3. QED
      BY <1>1, <2>1, <2>2, <2>3, <3>2, WithDoc DEF Changes
  <2>4. CASE w.to = "decide"
    <3>1. PatchFits(w.fields) /\ DOMAIN w.fields = {"status"} /\ d.status = "PENDING"
      BY <1>1, <1>2, <2>4, WriteForms DEF Decides, PatchFits, Fails
    <3>2. QED
      BY <1>1, <2>1, <2>2, <2>4, <3>1, WithDoc
  <2>5. QED
    BY <1>4, <2>3, <2>4
<1>5. CASE w.to \notin {"create", "provider", "decide"}
  BY <1>1, <1>2, <1>5, ApplyProv
<1>6. QED
  BY <1>3, <1>4, <1>5

LEMMA VehicleAfter ==
  ASSUME DirKept, NEW r \in Slots, req[r] # <<>>, InOrder(req[r]), ~Fails(req[r][1]), Apply(req[r][1]),
         NEW w, w = req[r][1]
  PROVE  /\ \A v \in DOMAIN vehicle : (w.to = "scrap" /\ v = w.i)
               \/ (v \in DOMAIN vehicle' /\ vehicle'[v].owner = vehicle[v].owner)
         /\ w.to = "vehicle" => w.i \in DOMAIN vehicle' /\ vehicle'[w.i].owner = w.fields.owner
         /\ w.to # "vehicle" => DOMAIN vehicle' \subseteq DOMAIN vehicle
         /\ w.to = "scrap" => \A k \in DOMAIN prov : prov[k].vehicle # w.i
<1>1. /\ w \in DirWrites /\ DirTypeOK /\ (w.to = "vehicle" => w.i <= calls) /\ 1 \in DOMAIN req[r]
  BY HeadFacts DEF DirKept
<1>2. ~Fails(w) /\ Apply(w)
  OBVIOUS
<1>3. Brings(req[r], 1) /\ Scraps(req[r], 1) /\ Before(req[r], 1) = {}
  BY <1>1, NothingBefore DEF InOrder
<1>4. w.to = "vehicle" => w.i \notin DOMAIN vehicle
  BY <1>3 DEF Brings
<1>5. w.to = "scrap" => \A k \in DOMAIN prov : prov[k].vehicle # w.i
  BY <1>3 DEF Scraps, Linked
<1>6. QED
  BY <1>1, <1>2, <1>4, <1>5, ApplyVehicle

LEMMA WriteAgrees ==
  ASSUME DirKept, Agreeing, NEW r \in Slots, req[r] # <<>>, InOrder(req[r]), ~Fails(req[r][1]),
         Apply(req[r][1]), jobs' = jobs
  PROVE  Agreeing'
<1>1. PICK w : w = req[r][1]
  OBVIOUS
<1>2. 1 \in DOMAIN req[r] /\ w \in DirWrites /\ DirTypeOK
  BY <1>1, HeadFacts DEF DirKept
<1>3. /\ Registers(w) /\ Links(req[r], 1) /\ Replates(req[r], 1) /\ Denies(w)
      /\ Before(req[r], 1) = {}
  BY <1>1, <1>2, NothingBefore DEF InOrder
<1>4. /\ OneAccountPerPlate(prov) /\ OneRecordPerKind(prov) /\ VehicleIsOwn(prov, vehicle) /\ JobIsLicensed
  BY DEF Agreeing
<1>5. /\ DOMAIN prov \subseteq DOMAIN prov'
      /\ \A i \in DOMAIN prov : prov'[i].op = prov[i].op /\ prov'[i].kind = prov[i].kind
      /\ w.to # "create" => DOMAIN prov' = DOMAIN prov
      /\ w.to = "create" => /\ w.i \notin DOMAIN prov /\ DOMAIN prov' = DOMAIN prov \cup {w.i}
                            /\ prov'[w.i] = w.fields /\ w.fields \in ProviderDoc
                            /\ \A i \in DOMAIN prov : prov'[i] = prov[i]
      /\ \A i \in DOMAIN prov : (w.to \in {"provider", "decide"} /\ i = w.i) \/ prov'[i] = prov[i]
      /\ w.to = "decide" => /\ w.i \in DOMAIN prov /\ prov[w.i].status = "PENDING"
                            /\ prov'[w.i].plate = prov[w.i].plate
                            /\ prov'[w.i].vehicle = prov[w.i].vehicle
      /\ w.to = "provider" =>
           /\ w.i \in DOMAIN prov
           /\ prov'[w.i].plate = IF Changes(w, "plate") THEN w.fields.plate ELSE prov[w.i].plate
           /\ prov'[w.i].vehicle = IF Changes(w, "vehicle") THEN w.fields.vehicle ELSE prov[w.i].vehicle
           /\ prov'[w.i].status = IF Changes(w, "status") THEN "DENIED" ELSE prov[w.i].status
  BY <1>1, ProvAfter, ZenonT(60)
<1>6. OneAccountPerPlate(prov)'
  <2> SUFFICES ASSUME NEW p \in Plates, NEW i \in OnPlate(prov', p), NEW j \in OnPlate(prov', p)
               PROVE  prov'[i].op = prov'[j].op
    BY DEF OneAccountPerPlate
  <2>1. CASE w.to = "create"
    <3>1. w.fields.plate # Nothing => \A k \in OnPlate(prov, w.fields.plate) : prov[k].op = w.fields.op
      BY <1>3, <2>1 DEF Registers
    <3>2. w.i \in Plates => w.i = w.fields.plate
      BY <1>3, <2>1 DEF Registers
    <3>3. p # Nothing
      BY ProvidersAssumption
    <3>4. \A k \in OnPlate(prov', p) :
            k \in OnPlate(prov, p) \/ (k = w.i /\ w.fields.plate = p)
      BY <1>5, <2>1, <3>2 DEF OnPlate
    <3>5. \A k \in OnPlate(prov, p) : prov'[k].op = prov[k].op /\ k \in DOMAIN prov
      BY <1>5 DEF OnPlate
    <3>6. \A k, l \in OnPlate(prov, p) : prov[k].op = prov[l].op
      BY <1>4 DEF OneAccountPerPlate
    <3>7. QED
      BY <1>5, <2>1, <3>1, <3>3, <3>4, <3>5, <3>6
  <2>2. CASE w.to = "provider" /\ Changes(w, "plate")
    <3>1. \A k \in OnPlate(prov, w.fields.plate) : prov[k].op = prov[w.i].op
      BY <1>1, <1>3, <2>2 DEF Replates
    <3>2. \A k \in OnPlate(prov', p) :
            k \in OnPlate(prov, p) \/ (k = w.i /\ w.fields.plate = p)
      BY <1>5, <2>2 DEF OnPlate
    <3>3. \A k \in DOMAIN prov' : prov'[k].op = prov[k].op
      BY <1>5, <2>2
    <3>4. \A k, l \in OnPlate(prov, p) : prov[k].op = prov[l].op
      BY <1>4 DEF OneAccountPerPlate
    <3>5. i \in DOMAIN prov' /\ j \in DOMAIN prov'
      BY DEF OnPlate
    <3>6. QED
      BY <3>1, <3>2, <3>3, <3>4, <3>5
  <2>3. CASE w.to # "create" /\ ~Changes(w, "plate")
    <3>1. \A k \in DOMAIN prov' : k \in DOMAIN prov /\ prov'[k].plate = prov[k].plate /\ prov'[k].op = prov[k].op
      BY <1>5, <2>3
    <3>2. \A k \in OnPlate(prov', p) : k \in OnPlate(prov, p) /\ prov'[k].op = prov[k].op
      BY <3>1 DEF OnPlate
    <3>3. QED
      BY <1>4, <3>2 DEF OneAccountPerPlate
  <2>4. QED
    BY <2>1, <2>2, <2>3 DEF Changes
<1>7. OneRecordPerKind(prov)'
  <2> SUFFICES ASSUME NEW i \in DOMAIN prov', NEW j \in DOMAIN prov',
                      prov'[i].op = prov'[j].op, prov'[i].kind = prov'[j].kind,
                      prov'[i].status # "DENIED", prov'[j].status # "DENIED"
               PROVE  i = j
    BY DEF OneRecordPerKind
  <2>1. \A k \in DOMAIN prov : prov'[k].status # "DENIED" => prov[k].status # "DENIED"
    BY <1>5
  <2>2. CASE w.to = "create"
    <3>1. \A k \in DOMAIN prov :
            prov[k].op = w.fields.op /\ prov[k].kind = w.fields.kind => prov[k].status = "DENIED"
      BY <1>3, <2>2 DEF Registers
    <3>2. QED
      BY <1>4, <1>5, <2>2, <3>1 DEF OneRecordPerKind
  <2>3. CASE w.to # "create"
    BY <1>4, <1>5, <2>1, <2>3 DEF OneRecordPerKind
  <2>4. QED
    BY <2>2, <2>3
<1>8. VehicleIsOwn(prov, vehicle)'
  <2> SUFFICES ASSUME NEW i \in DOMAIN prov', prov'[i].vehicle # Nothing
               PROVE  prov'[i].vehicle \in DOMAIN vehicle' /\ vehicle'[prov'[i].vehicle].owner = prov'[i].op
    BY DEF VehicleIsOwn
  <2>1. /\ \A v \in DOMAIN vehicle : (w.to = "scrap" /\ v = w.i)
             \/ (v \in DOMAIN vehicle' /\ vehicle'[v].owner = vehicle[v].owner)
        /\ w.to = "scrap" => \A k \in DOMAIN prov : prov[k].vehicle # w.i
    BY <1>1, VehicleAfter
  <2>2. \A k \in DOMAIN prov : prov[k].vehicle # Nothing =>
          prov[k].vehicle \in DOMAIN vehicle' /\ vehicle'[prov[k].vehicle].owner = prov[k].op
    BY <1>4, <2>1 DEF VehicleIsOwn
  <2>3. CASE i \in DOMAIN prov /\ prov'[i].vehicle = prov[i].vehicle
    BY <1>5, <2>2, <2>3
  <2>4. CASE w.to = "create" /\ i = w.i
    <3>1. w.fields.vehicle \in DOMAIN vehicle /\ vehicle[w.fields.vehicle].owner = w.fields.op
      BY <1>3, <1>5, <2>4 DEF Registers
    <3>2. QED
      BY <1>5, <2>1, <2>4, <3>1
  <2>5. CASE w.to = "provider" /\ i = w.i /\ Changes(w, "vehicle")
    <3>1. PICK u \in Users : Has(req[r], 1, w.i, u) /\ Owned(req[r], 1, w.fields.vehicle, u)
      BY <1>1, <1>3, <1>5, <2>5 DEF Links
    <3>2. prov[w.i].op = u /\ w.fields.vehicle \in DOMAIN vehicle /\ vehicle[w.fields.vehicle].owner = u
      BY <1>3, <3>1 DEF Has, Owned
    <3>3. QED
      BY <1>5, <2>1, <2>5, <3>2
  <2>6. QED
    BY <1>5, <2>3, <2>4, <2>5 DEF Changes
<1>9. JobIsLicensed'
  <2> SUFFICES ASSUME NEW j \in jobs, j[2] = "assigned"
               PROVE  prov'[j[1]].status = "ACTIVE"
    BY DEF JobIsLicensed
  <2>1. j[1] \in DOMAIN prov /\ prov[j[1]].status = "ACTIVE" /\ j = <<j[1], "assigned">>
    BY <1>2, <1>4 DEF JobIsLicensed, DirTypeOK
  <2>2. Changes(w, "status") => j[1] # w.i
    BY <1>3, <2>1 DEF Denies
  <2>3. QED
    BY <1>5, <2>1, <2>2
<1>10. QED
  BY <1>6, <1>7, <1>8, <1>9 DEF Agreeing

LEMMA TailInOrder ==
  ASSUME DirKept, Agreeing, NEW r \in Slots, req[r] # <<>>, InOrder(req[r]), ~Fails(req[r][1]),
         Apply(req[r][1]), jobs' = jobs, req'[r] = Tail(req[r])
  PROVE  InOrder(req[r])'
<1>1. PICK w : w = req[r][1]
  OBVIOUS
<1>2. PICK s : s = req[r]
  OBVIOUS
<1>3. PICK t : t = req'[r]
  OBVIOUS
<1>4. /\ s \in Seq(DirWrites) /\ DirTypeOK /\ w \in DirWrites /\ 1 \in DOMAIN s
  BY <1>1, <1>2, HeadFacts, Lists DEF DirKept
<1>5. \A n \in DOMAIN t : n \in Nat /\ n >= 1 /\ t[n] = s[n + 1] /\ n + 1 \in DOMAIN s /\ n + 1 # 1
  BY <1>2, <1>3, <1>4, Heads
<1>6. \A n \in DOMAIN t : Before(s, n + 1) = Before(t, n) \cup {w}
  BY <1>1, <1>2, <1>3, <1>4, BeforeTail
<1>7. /\ DOMAIN prov \subseteq DOMAIN prov'
      /\ \A i \in DOMAIN prov : prov'[i].op = prov[i].op
      /\ w.to # "create" => DOMAIN prov' = DOMAIN prov
      /\ w.to = "create" => w.i \in DOMAIN prov' /\ prov'[w.i].op = w.fields.op
      /\ \A i \in DOMAIN prov : (w.to \in {"provider", "decide"} /\ i = w.i) \/ prov'[i] = prov[i]
      /\ w.to = "provider" =>
           /\ w.i \in DOMAIN prov
           /\ prov'[w.i].plate = IF Changes(w, "plate") THEN w.fields.plate ELSE prov[w.i].plate
           /\ prov'[w.i].vehicle = IF Changes(w, "vehicle") THEN w.fields.vehicle ELSE prov[w.i].vehicle
  BY <1>1, ProvAfter
<1>8. /\ \A v \in DOMAIN vehicle : (w.to = "scrap" /\ v = w.i)
           \/ (v \in DOMAIN vehicle' /\ vehicle'[v].owner = vehicle[v].owner)
      /\ w.to = "vehicle" => w.i \in DOMAIN vehicle' /\ vehicle'[w.i].owner = w.fields.owner
      /\ w.to # "vehicle" => DOMAIN vehicle' \subseteq DOMAIN vehicle
  BY <1>1, VehicleAfter
<1>9. ASSUME NEW n \in DOMAIN t
      PROVE  (/\ Registers(req[r][n]) /\ Brings(req[r], n) /\ Links(req[r], n)
              /\ Replates(req[r], n) /\ Denies(req[r][n]) /\ Scraps(req[r], n))'
  <2>1. /\ Brings(s, n + 1) /\ Links(s, n + 1) /\ Replates(s, n + 1) /\ Denies(s[n + 1])
        /\ Scraps(s, n + 1) /\ Reaches(s, n + 1)
    BY <1>2, <1>5 DEF InOrder, DirKept, Proper
  <2>2. t[n] = s[n + 1] /\ Before(s, n + 1) = Before(t, n) \cup {w} /\ t[n].to # "create" /\ t[n] \in DirWrites
    BY <1>4, <1>5, <1>6, <2>1 DEF Reaches
  <2>3. Before(req[r], n)' = Before(t, n)
    BY <1>3 DEF Before
  <2>4. Registers(req[r][n])'
    BY <1>3, <2>2 DEF Registers
  <2>5. Brings(req[r], n)'
    BY <1>3, <1>8, <2>1, <2>2, <2>3 DEF Brings
  <2>6. Links(req[r], n)'
    <3> SUFFICES ASSUME Changes(t[n], "vehicle"), t[n].fields.vehicle # Nothing
                 PROVE  /\ \E u \in Users : (Has(req[r], n, t[n].i, u) /\ Owned(req[r], n, t[n].fields.vehicle, u))'
                        /\ \A x \in Before(t, n) : x.to # "scrap"
      BY <1>3, <2>3 DEF Links, Changes
    <3>1. PICK u \in Users : Has(s, n + 1, t[n].i, u) /\ Owned(s, n + 1, t[n].fields.vehicle, u)
      BY <2>1, <2>2 DEF Links, Changes
    <3>2. \A x \in Before(t, n) \cup {w} : x.to # "scrap"
      BY <2>1, <2>2 DEF Links, Changes
    <3>3. Has(req[r], n, t[n].i, u)'
      BY <1>7, <2>2, <2>3, <3>1 DEF Has
    <3>4. Owned(req[r], n, t[n].fields.vehicle, u)'
      BY <1>8, <2>2, <2>3, <3>1, <3>2 DEF Owned
    <3>5. QED
      BY <3>2, <3>3, <3>4
  <2>7. Replates(req[r], n)'
    <3> SUFFICES ASSUME Changes(t[n], "plate")
                 PROVE  /\ t[n].i \in DOMAIN prov'
                        /\ \A k \in OnPlate(prov', t[n].fields.plate) : prov'[k].op = prov'[t[n].i].op
                        /\ \A x \in Before(t, n) : x.to = "provider" /\ ~Changes(x, "plate")
      BY <1>3, <2>3 DEF Replates, Changes
    <3>1. /\ t[n].i \in DOMAIN prov
          /\ \A k \in OnPlate(prov, t[n].fields.plate) : prov[k].op = prov[t[n].i].op
          /\ \A x \in Before(t, n) \cup {w} : x.to = "provider" /\ ~Changes(x, "plate")
      BY <2>1, <2>2 DEF Replates, Changes
    <3>2. DOMAIN prov' = DOMAIN prov
          /\ \A k \in DOMAIN prov : prov'[k].plate = prov[k].plate /\ prov'[k].op = prov[k].op
      BY <1>7, <3>1
    <3>3. QED
      BY <3>1, <3>2 DEF OnPlate
  <2>8. Denies(req[r][n])'
    BY <1>3, <2>1, <2>2 DEF Denies, Changes
  <2>9. Scraps(req[r], n)'
    <3> SUFFICES ASSUME t[n].to = "scrap"
                 PROVE  /\ \A k \in DOMAIN prov' : prov'[k].vehicle = t[n].i => Patch(k, Denied) \in Before(t, n)
                        /\ \A x \in Before(t, n) : x.to = "row" \/ (x.to = "provider" /\ x.fields = Denied)
      BY <1>3, <2>3 DEF Scraps, Linked
    <3>1. /\ \A k \in DOMAIN prov : prov[k].vehicle = t[n].i => Patch(k, Denied) \in Before(t, n) \cup {w}
          /\ \A x \in Before(t, n) \cup {w} : x.to = "row" \/ (x.to = "provider" /\ x.fields = Denied)
      BY <2>1, <2>2 DEF Scraps, Linked
    <3>2. t[n].i \in Nat /\ t[n].i # Nothing
      BY <2>2, WriteForms, NoneApart
    <3>3. ASSUME NEW k \in DOMAIN prov', prov'[k].vehicle = t[n].i
          PROVE  Patch(k, Denied) \in Before(t, n)
      <4>1. DOMAIN prov' = DOMAIN prov
        BY <1>7, <3>1
      <4>2. Patch(k, Denied).to = "provider" /\ Patch(k, Denied).i = k
        BY DEF Patch
      <4>3. CASE w.to = "row"
        BY <1>7, <3>1, <3>3, <4>1, <4>2, <4>3
      <4>4. CASE w.to = "provider" /\ w.fields = Denied
        <5>1. Changes(w, "vehicle") /\ w.fields.vehicle = Nothing
          BY <4>4, Denying DEF Changes
        <5>2. k # w.i
          BY <1>7, <3>2, <3>3, <4>4, <5>1
        <5>3. QED
          BY <1>7, <3>1, <3>3, <4>1, <4>2, <5>2
      <4>5. QED
        BY <3>1, <4>3, <4>4
    <3>4. QED
      BY <3>1, <3>3
  <2>10. QED
    BY <2>4, <2>5, <2>6, <2>7, <2>8, <2>9
<1>10. QED
  BY <1>3, <1>9 DEF InOrder

\* Rows alone are always in order, and so is what a call has left where no document changes.
LEMMA RowsInOrder ==
  ASSUME NEW s, \A n \in DOMAIN s : s[n].to = "row"
  PROVE  InOrder(s)
BY DEF InOrder, Registers, Brings, Links, Replates, Denies, Scraps, Changes

LEMMA RowsInOrderNext ==
  ASSUME NEW r \in Slots, \A n \in DOMAIN req'[r] : req'[r][n].to = "row"
  PROVE  InOrder(req[r])'
BY DEF InOrder, Registers, Brings, Links, Replates, Denies, Scraps, Changes

LEMMA SameInOrder ==
  ASSUME NEW r \in Slots, NEW s, req'[r] = s, InOrder(s), UNCHANGED <<prov, vehicle, jobs>>
  PROVE  InOrder(req[r])'
<1>1. ASSUME NEW n \in DOMAIN s
      PROVE  (/\ Registers(req[r][n]) /\ Brings(req[r], n) /\ Links(req[r], n)
              /\ Replates(req[r], n) /\ Denies(req[r][n]) /\ Scraps(req[r], n))'
  <2>1. /\ Registers(s[n]) /\ Brings(s, n) /\ Links(s, n) /\ Replates(s, n) /\ Denies(s[n])
        /\ Scraps(s, n)
    BY DEF InOrder
  <2>2. Before(req[r], n)' = Before(s, n)
    BY DEF Before
  <2>3. Registers(req[r][n])' /\ Denies(req[r][n])'
    BY <2>1 DEF Registers, Denies, Changes, OnPlate
  <2>4. Brings(req[r], n)' /\ Replates(req[r], n)' /\ Scraps(req[r], n)'
    BY <2>1, <2>2 DEF Brings, Replates, Scraps, Linked, Changes, OnPlate
  <2>5. Links(req[r], n)'
    BY <2>1, <2>2 DEF Links, Has, Owned, Changes
  <2>6. QED
    BY <2>3, <2>4, <2>5
<1>2. QED
  BY <1>1 DEF InOrder

LEMMA SameAgree == ASSUME Agreeing, UNCHANGED <<prov, vehicle, jobs>> PROVE Agreeing'
BY DEF Agreeing, OneAccountPerPlate, OneRecordPerKind, VehicleIsOwn, JobIsLicensed, OnPlate

LEMMA LooksUntangled ==
  ASSUME DirKept, Untangled, NEW r \in Slots, NEW s, Looks(r, s), Agreeing => InOrder(s)
  PROVE  Untangled'
<1> SUFFICES ASSUME ~tangled'
             PROVE  (Agreeing /\ AloneOnDesk /\ \A q \in Slots : InOrder(req[q]))'
  BY DEF Untangled
<1>1. ~tangled /\ (\A q \in Slots : req[q] = <<>>) /\ UNCHANGED <<prov, vehicle, jobs>>
  BY DEF Looks
<1>2. req \in [Slots -> Seq(DirWrites)]
  BY DEF DirKept, DirTypeOK
<1>3. req'[r] = s /\ \A q \in Slots \ {r} : req'[q] = <<>>
  BY <1>1, <1>2 DEF Looks
<1>4. Agreeing /\ InOrder(s)
  BY <1>1 DEF Untangled
<1>5. Agreeing'
  BY <1>1, <1>4, SameAgree
<1>6. AloneOnDesk'
  BY <1>3 DEF AloneOnDesk
<1>7. InOrder(req[r])'
  BY <1>1, <1>3, <1>4, SameInOrder
<1>8. ASSUME NEW q \in Slots \ {r}
      PROVE  InOrder(req[q])'
  <2>1. \A n \in DOMAIN req'[q] : req'[q][n].to = "row"
    BY <1>3
  <2>2. QED
    BY <2>1, RowsInOrderNext
<1>9. QED
  BY <1>5, <1>6, <1>7, <1>8

\* A call that ends, or goes on, leaves the others with nothing to write.
LEMMA StepsUntangled ==
  ASSUME DirKept, Agreeing, AloneOnDesk, \A q \in Slots : InOrder(req[q]), NEW r \in Slots, req[r] # <<>>,
         \A q \in Slots \ {r} : req'[q] = req[q], Agreeing', InOrder(req[r])'
  PROVE  (Agreeing /\ AloneOnDesk /\ \A q \in Slots : InOrder(req[q]))'
<1>1. \A q \in Slots \ {r} : req'[q] = <<>>
  BY DEF AloneOnDesk
<1>2. AloneOnDesk'
  BY <1>1 DEF AloneOnDesk
<1>3. ASSUME NEW q \in Slots \ {r}
      PROVE  InOrder(req[q])'
  <2>1. \A n \in DOMAIN req'[q] : req'[q][n].to = "row"
    BY <1>1
  <2>2. QED
    BY <2>1, RowsInOrderNext
<1>4. QED
  BY <1>2, <1>3

LEMMA EndsUntangled ==
  ASSUME DirKept, Untangled, NEW r \in Slots, req[r] # <<>>, req' = [req EXCEPT ![r] = <<>>],
         UNCHANGED <<prov, vehicle, jobs, tangled>>
  PROVE  Untangled'
<1> SUFFICES ASSUME ~tangled
             PROVE  (Agreeing /\ AloneOnDesk /\ \A q \in Slots : InOrder(req[q]))'
  BY DEF Untangled
<1>1. Agreeing /\ AloneOnDesk /\ \A q \in Slots : InOrder(req[q])
  BY DEF Untangled
<1>2. req \in [Slots -> Seq(DirWrites)]
  BY DEF DirKept, DirTypeOK
<1>3. req'[r] = <<>> /\ \A q \in Slots \ {r} : req'[q] = req[q]
  BY <1>2
<1>4. InOrder(req[r])'
  BY <1>3, RowsInOrderNext
<1>5. Agreeing'
  BY <1>1, SameAgree
<1>6. QED
  BY <1>1, <1>3, <1>4, <1>5, StepsUntangled

LEMMA WriteUntangled ==
  ASSUME DirKept, Untangled, NEW r \in Slots, Write(r)
  PROVE  Untangled'
<1>1. /\ req[r] # <<>> /\ Head(req[r]) = req[r][1] /\ req \in [Slots -> Seq(DirWrites)]
      /\ UNCHANGED <<jobs, tangled>>
  BY HeadFacts DEF Write, DirKept, DirTypeOK
<1>2. CASE Fails(req[r][1])
  <2>1. req' = [req EXCEPT ![r] = <<>>] /\ UNCHANGED <<prov, vehicle>>
    BY <1>1, <1>2 DEF Write
  <2>2. QED
    BY <1>1, <2>1, EndsUntangled
<1>3. CASE ~Fails(req[r][1])
  <2> SUFFICES ASSUME ~tangled
               PROVE  (Agreeing /\ AloneOnDesk /\ \A q \in Slots : InOrder(req[q]))'
    BY <1>1 DEF Untangled
  <2>1. Agreeing /\ AloneOnDesk /\ \A q \in Slots : InOrder(req[q])
    BY DEF Untangled
  <2>2. req' = [req EXCEPT ![r] = Tail(@)] /\ Apply(req[r][1])
    BY <1>1, <1>3 DEF Write
  <2>3. req'[r] = Tail(req[r]) /\ \A q \in Slots \ {r} : req'[q] = req[q]
    BY <1>1, <2>2
  <2>4. Agreeing'
    BY <1>1, <1>3, <2>1, <2>2, WriteAgrees
  <2>5. InOrder(req[r])'
    BY <1>1, <1>3, <2>1, <2>2, <2>3, TailInOrder
  <2>6. QED
    BY <1>1, <2>1, <2>3, <2>4, <2>5, StepsUntangled
<1>4. QED
  BY <1>2, <1>3

LEMMA TicketUntangled ==
  ASSUME DirKept, Untangled, NEW i \in DOMAIN prov, Ticketing(i)
  PROVE  Untangled'
<1> SUFFICES ASSUME ~tangled'
             PROVE  (Agreeing /\ AloneOnDesk /\ \A q \in Slots : InOrder(req[q]))'
  BY DEF Untangled
<1>1. /\ jobs' \subseteq jobs \cup {<<i, "pending">>, <<i, "named">>, <<i, "assigned">>}
      /\ <<i, "assigned">> \in jobs' => <<i, "assigned">> \in jobs \/ prov[i].status = "ACTIVE"
      /\ tangled' = (tangled \/ \E q \in Requests : req[q] # <<>>)
      /\ UNCHANGED <<vehicle, req>>
  BY TicketIs DEF DirKept
<1>2. Agreeing /\ AloneOnDesk /\ \A q \in Requests : req[q] = <<>>
  BY <1>1 DEF Untangled
<1>3. /\ DOMAIN prov' = DOMAIN prov
      /\ \A j \in DOMAIN prov : /\ prov'[j].op = prov[j].op /\ prov'[j].kind = prov[j].kind
                                /\ prov'[j].plate = prov[j].plate /\ prov'[j].vehicle = prov[j].vehicle
                                /\ prov'[j].status = prov[j].status
  BY TicketIs, DutySwitched DEF DirKept
<1>4. \A p : OnPlate(prov', p) = OnPlate(prov, p)
  BY <1>3 DEF OnPlate
<1>5. OneAccountPerPlate(prov)'
  <2>1. \A p : \A j \in OnPlate(prov, p) : j \in DOMAIN prov
    BY DEF OnPlate
  <2>2. QED
    BY <1>2, <1>3, <1>4, <2>1 DEF Agreeing, OneAccountPerPlate
<1>6. OneRecordPerKind(prov)'
  BY <1>2, <1>3 DEF Agreeing, OneRecordPerKind
<1>7. VehicleIsOwn(prov, vehicle)'
  BY <1>1, <1>2, <1>3 DEF Agreeing, VehicleIsOwn
<1>8. ASSUME NEW j \in jobs', j[2] = "assigned"
      PROVE  prov'[j[1]].status = "ACTIVE"
  <2>1. CASE j \in jobs
    <3>1. prov[j[1]].status = "ACTIVE" /\ j[1] \in DOMAIN prov
      BY <1>2, <1>8, <2>1 DEF Agreeing, JobIsLicensed, DirKept, DirTypeOK
    <3>2. QED
      BY <1>3, <3>1
  <2>2. CASE j = <<i, "assigned">> /\ j \notin jobs
    BY <1>1, <1>3, <2>2
  <2>3. QED
    BY <1>1, <1>8, <2>1, <2>2
<1>9. Agreeing'
  BY <1>5, <1>6, <1>7, <1>8 DEF Agreeing, JobIsLicensed
<1>10. AloneOnDesk'
  BY <1>1, <1>2 DEF AloneOnDesk
<1>11. ASSUME NEW q \in Slots
       PROVE  InOrder(req[q])'
  <2>1. \A n \in DOMAIN req[q] : req[q][n].to = "row"
    BY <1>2 DEF DirKept, OnlyRows, Slots
  <2>2. QED
    BY <1>1, <2>1, RowsInOrderNext
<1>12. QED
  BY <1>9, <1>10, <1>11

LEMMA SameUntangled ==
  ASSUME Untangled, UNCHANGED <<prov, vehicle, jobs, req, tangled>>
  PROVE  Untangled'
<1> SUFFICES ASSUME ~tangled
             PROVE  (Agreeing /\ AloneOnDesk /\ \A q \in Slots : InOrder(req[q]))'
  BY DEF Untangled
<1>1. Agreeing /\ AloneOnDesk /\ \A q \in Slots : InOrder(req[q])
  BY DEF Untangled
<1>2. Agreeing'
  BY <1>1, SameAgree
<1>3. AloneOnDesk'
  BY <1>1 DEF AloneOnDesk
<1>4. \A q \in Slots : InOrder(req[q])'
  BY <1>1, SameInOrder
<1>5. QED
  BY <1>2, <1>3, <1>4

LEMMA NextUntangled == DirKept /\ Untangled /\ [Next]_vars => Untangled'
<1> SUFFICES ASSUME DirKept, Untangled, [Next]_vars
             PROVE  Untangled'
  OBVIOUS
<1>1. ASSUME NEW r \in Requests,
             Register(r) \/ Edit(r) \/ License(r) \/ Discipline(r) \/ Garage(r) \/ Presence(r)
      PROVE  Untangled'
  <2>1. PICK s : Looks(r, s) /\ (Agreeing => InOrder(s))
    BY <1>1, LooksBegin DEF Begins, Look
  <2>2. r \in Slots
    BY DEF Slots
  <2>3. QED
    BY <2>1, <2>2, LooksUntangled
<1>2. ASSUME NEW r \in Slots, Write(r)
      PROVE  Untangled'
  BY <1>2, WriteUntangled
<1>3. ASSUME NEW r \in Slots, Die(r)
      PROVE  Untangled'
  BY <1>3, EndsUntangled DEF Die
<1>4. ASSUME NEW i \in DOMAIN prov, GrowsStale(i)
      PROVE  Untangled'
  BY <1>4, SameUntangled DEF GrowsStale
<1>5. ASSUME NEW i \in DOMAIN prov, Ticketing(i)
      PROVE  Untangled'
  BY <1>5, TicketUntangled
<1>6. CASE SweepStalePresence
  <2>1. PICK s : Looks(Cron, s) /\ InOrder(s)
    BY <1>6, SweepOpens
  <2>2. Cron \in Slots
    BY DEF Slots
  <2>3. QED
    BY <2>1, <2>2, LooksUntangled
<1>7. CASE UNCHANGED vars
  BY <1>7, SameUntangled DEF vars
<1>8. QED
  BY <1>1, <1>2, <1>3, <1>4, <1>5, <1>6, <1>7 DEF Next

LEMMA InitUntangled == Init => Untangled
<1> SUFFICES ASSUME Init
             PROVE  Untangled
  OBVIOUS
<1>1. PICK f \in Founded : prov = f.prov /\ vehicle = f.vehicle
  BY DEF Init
<1>2. OneAccountPerPlate(prov) /\ OneRecordPerKind(prov) /\ VehicleIsOwn(prov, vehicle)
  BY <1>1, FoundedAssumption
<1>3. jobs = {} /\ \A r \in Slots : req[r] = <<>>
  BY DEF Init
<1>4. Agreeing
  BY <1>2, <1>3 DEF Agreeing, JobIsLicensed
<1>5. AloneOnDesk
  BY <1>3 DEF AloneOnDesk
<1>6. \A r \in Slots : InOrder(req[r])
  BY <1>3, RowsInOrder
<1>7. QED
  BY <1>4, <1>5, <1>6 DEF Untangled

\* Whatever calls die half-way, the records, the vehicles and the jobs of the directory
\* agree as long as nobody comes between another's look and its writes: every list of
\* writes is in an order that no crash turns into a disagreement (createTow,
\* createMobileShop, updateProvider, revokeProvider, removeProfile).
THEOREM RecordsStayInAgreement == RatingSpec => []RecordsAgree
<1>1. RatingInit => Untangled
  BY InitUntangled DEF RatingInit
<1>2. DirKept /\ Untangled /\ [RatingNext]_allVars => Untangled'
  BY NextUntangled, AllVars
<1>3. Untangled => RecordsAgree
  BY DEF Untangled, RecordsAgree, Agreeing
<1>4. QED
  BY <1>1, <1>2, <1>3, AlwaysKept, PTL DEF RatingSpec

------------------------------------------------------------------------------
(* Ratings *)

\* A submission under way knows its target, and the rating it mends if there is one.
Submission(s) ==
  /\ DOMAIN s = {"pc", "target", "kind", "by", "ticket", "score", "n", "agg", "alone"}
  /\ s.kind \in {"SHOP", "RIDER"} /\ (s.kind = "RIDER" => s.target \in Users) /\ s.alone \in BOOLEAN
  /\ s.n # Nothing =>
       s.n \in DOMAIN rating /\ rating[s.n].target = s.target /\ rating[s.n].kind = s.kind
RatingFields == {"target", "kind", "by", "ticket", "score", "replied"}

\* Who is alone on a target reads the scores that stand, until it shows them.
Knows(q) ==
  sub[q].alone =>
    /\ OnTarget(sub[q].target) \subseteq {q}
    /\ sub[q].pc = "show" => sub[q].agg = Summed(ScoresOf(sub[q].target, sub[q].kind))

RatingKept ==
  /\ IsFiniteSet(DOMAIN rating) /\ DOMAIN rating = 1..Cardinality(DOMAIN rating)
  /\ \A n \in DOMAIN rating : DOMAIN rating[n] = RatingFields
  /\ DOMAIN sub = Requests
  /\ \A q \in Requests : sub[q].pc # "idle" => Submission(sub[q]) /\ Knows(q)
  /\ settled \subseteq DOMAIN shown /\ settled \subseteq DOMAIN prov \cup Users
  /\ RatingHeals

LEMMA TargetIs ==
  ASSUME NEW k \in DOMAIN Resolved, NEW kind \in {"SHOP", "RIDER"}, NEW by,
         NEW target \in Target(k, kind, by)
  PROVE  kind = "RIDER" => target \in Users
<1>1. CASE kind = "RIDER"
  <2>1. target = Resolved[k].rider
    BY <1>1 DEF Target
  <2>2. QED
    BY <2>1, RatingsAssumption
<1>2. QED
  BY <1>1

\* The scores of a target change with its own ratings only.
LEMMA SameScores ==
  ASSUME NEW t, NEW kind,
         \A n \in DOMAIN rating \cup DOMAIN rating' :
           \/ /\ n \in DOMAIN rating /\ n \in DOMAIN rating'
              /\ rating'[n].target = rating[n].target /\ rating'[n].kind = rating[n].kind
              /\ (rating[n].target = t => rating'[n].score = rating[n].score)
           \/ (n \in DOMAIN rating => rating[n].target # t) /\ (n \in DOMAIN rating' => rating'[n].target # t)
  PROVE  ScoresOf(t, kind)' = ScoresOf(t, kind)
<1> DEFINE D == {m \in DOMAIN rating : rating[m].target = t /\ rating[m].kind = kind}
           E == {m \in DOMAIN rating' : rating'[m].target = t /\ rating'[m].kind = kind}
<1>1. D = E
  OBVIOUS
<1>2. \A n \in D : rating'[n].score = rating[n].score
  OBVIOUS
<1>3. ScoresOf(t, kind) = [n \in D |-> rating[n].score]
  BY DEF ScoresOf
<1>4. ScoresOf(t, kind)' = [n \in E |-> rating'[n].score]
  BY DEF ScoresOf
<1> HIDE DEF D, E
<1>5. QED
  BY <1>1, <1>2, <1>3, <1>4

\* Nothing is written to the ratings, and one submission goes on or ends.
LEMMA GoesOn ==
  ASSUME RatingKept, NEW r \in Requests, UNCHANGED <<rating, prov>>,
         sub' = [sub EXCEPT ![r] = sub'[r]], sub[r].pc # "idle",
         \/ sub'[r] = Idle
         \/ /\ Submission(sub[r])' /\ sub'[r].pc # "idle"
            /\ sub'[r].target = sub[r].target /\ sub'[r].kind = sub[r].kind /\ sub'[r].alone = sub[r].alone
            /\ sub'[r].alone /\ sub'[r].pc = "show" =>
                 sub'[r].agg = Summed(ScoresOf(sub'[r].target, sub'[r].kind))
  PROVE  /\ DOMAIN sub' = Requests
         /\ \A q \in Requests : sub'[q].pc # "idle" => Submission(sub[q])' /\ Knows(q)'
<1>1. DOMAIN sub = Requests /\ \A q \in Requests : sub[q].pc # "idle" => Submission(sub[q]) /\ Knows(q)
  BY DEF RatingKept
<1>2. DOMAIN sub' = Requests /\ \A q \in Requests \ {r} : sub'[q] = sub[q]
  BY <1>1
<1>3. Idle.pc = "idle"
  BY DEF Idle
<1>4. \A t : OnTarget(t)' \subseteq OnTarget(t)
  BY <1>2, <1>3 DEF OnTarget
<1>5. \A t, kind : ScoresOf(t, kind)' = ScoresOf(t, kind)
  BY DEF ScoresOf
<1>6. ASSUME NEW q \in Requests \ {r}, sub'[q].pc # "idle"
      PROVE  Submission(sub[q])' /\ Knows(q)'
  <2>1. sub'[q] = sub[q] /\ Submission(sub[q]) /\ Knows(q)
    BY <1>1, <1>2, <1>6
  <2>2. Submission(sub[q])'
    BY <2>1 DEF Submission
  <2>3. Knows(q)'
    BY <1>4, <1>5, <2>1 DEF Knows
  <2>4. QED
    BY <2>2, <2>3
<1>7. ASSUME sub'[r].pc # "idle"
      PROVE  Submission(sub[r])' /\ Knows(r)'
  <2>1. Knows(r)
    BY <1>1
  <2>2. /\ Submission(sub[r])'
        /\ sub'[r].target = sub[r].target /\ sub'[r].kind = sub[r].kind /\ sub'[r].alone = sub[r].alone
        /\ sub'[r].alone /\ sub'[r].pc = "show" =>
             sub'[r].agg = Summed(ScoresOf(sub'[r].target, sub'[r].kind))
    BY <1>3, <1>7
  <2>3. QED
    BY <1>4, <1>5, <2>1, <2>2 DEF Knows
<1>8. QED
  BY <1>2, <1>6, <1>7

LEMMA SubmitKeeps ==
  ASSUME RatingKept, NEW r \in Requests, NEW k \in DOMAIN Resolved, NEW kind \in {"SHOP", "RIDER"},
         NEW by \in Users, NEW score \in Scores, SubmitRating(r, k, kind, by, score), UNCHANGED prov
  PROVE  RatingKept'
<1> DEFINE Submits(target, n) ==
        /\ sub[r].pc = "idle"
        /\ sub' = [q \in Requests |->
                     IF q = r
                     THEN [pc |-> "write", target |-> target, kind |-> kind, by |-> by, ticket |-> k,
                           score |-> score, n |-> n, agg |-> Nothing, alone |-> OnTarget(target) = {}]
                     ELSE IF q \in OnTarget(target) THEN [sub[q] EXCEPT !.alone = FALSE] ELSE sub[q]]
        /\ UNCHANGED <<rating, shown, stamp, settled>>
<1>1. PICK target \in Target(k, kind, by) \ {Nothing} :
        \E n \in FindExisting(target, kind, by, k) : Submits(target, n)
  BY DEF SubmitRating
<1>2. PICK n \in FindExisting(target, kind, by, k) : Submits(target, n)
  BY <1>1
<1>3. /\ sub[r].pc = "idle"
      /\ sub' = [q \in Requests |->
                   IF q = r
                   THEN [pc |-> "write", target |-> target, kind |-> kind, by |-> by, ticket |-> k,
                         score |-> score, n |-> n, agg |-> Nothing, alone |-> OnTarget(target) = {}]
                   ELSE IF q \in OnTarget(target) THEN [sub[q] EXCEPT !.alone = FALSE] ELSE sub[q]]
      /\ UNCHANGED <<rating, shown, stamp, settled>>
  BY <1>2
<1> HIDE DEF Submits
<1>4. PICK s : s = sub'[r]
  OBVIOUS
<1>5. s = [pc |-> "write", target |-> target, kind |-> kind, by |-> by, ticket |-> k,
           score |-> score, n |-> n, agg |-> Nothing, alone |-> OnTarget(target) = {}]
  BY <1>3, <1>4
<1>6. /\ DOMAIN s = {"pc", "target", "kind", "by", "ticket", "score", "n", "agg", "alone"}
      /\ s.pc = "write" /\ s.target = target /\ s.kind = kind /\ s.n = n
      /\ s.alone = (OnTarget(target) = {})
  BY <1>5
<1>7. kind = "RIDER" => target \in Users
  BY TargetIs
<1>8. n # Nothing => n \in DOMAIN rating /\ rating[n].target = target /\ rating[n].kind = kind
  BY DEF FindExisting
<1>9. Submission(sub[r])'
  BY <1>3, <1>4, <1>6, <1>7, <1>8 DEF Submission
<1>10. /\ DOMAIN sub = Requests
      /\ \A q \in Requests : sub[q].pc # "idle" => Submission(sub[q]) /\ Knows(q)
  BY DEF RatingKept
<1>11. \A t, kd : ScoresOf(t, kd)' = ScoresOf(t, kd)
  BY <1>3 DEF ScoresOf
<1>12. ASSUME NEW q \in Requests \ {r}, sub'[q].pc # "idle"
       PROVE  Submission(sub[q])' /\ Knows(q)'
  <2>1. CASE q \in OnTarget(target)
    <3>1. sub'[q] = [sub[q] EXCEPT !.alone = FALSE] /\ sub[q].pc # "idle"
      BY <1>3, <2>1 DEF OnTarget
    <3>2. Submission(sub[q])
      BY <1>10, <3>1
    <3>3. PICK x, y : x = sub[q] /\ y = sub'[q]
      OBVIOUS
    <3>4. DOMAIN y = DOMAIN x /\ y.target = x.target /\ y.kind = x.kind /\ y.n = x.n /\ y.alone = FALSE
      BY <3>1, <3>2, <3>3 DEF Submission
    <3>5. Submission(sub[q])'
      BY <1>3, <3>2, <3>3, <3>4 DEF Submission
    <3>6. Knows(q)'
      BY <3>3, <3>4 DEF Knows
    <3>7. QED
      BY <3>5, <3>6
  <2>2. CASE q \notin OnTarget(target)
    <3>1. sub'[q] = sub[q] /\ sub[q].pc # "idle" /\ sub[q].target # target
      BY <1>3, <1>12, <2>2 DEF OnTarget
    <3>2. Submission(sub[q]) /\ Knows(q)
      BY <1>10, <3>1
    <3>3. Submission(sub[q])'
      BY <1>3, <3>1, <3>2 DEF Submission
    <3>4. OnTarget(sub[q].target)' \subseteq OnTarget(sub[q].target)
      <4> SUFFICES ASSUME NEW p \in Requests, sub'[p].pc # "idle", sub'[p].target = sub[q].target
                   PROVE  sub[p].pc # "idle" /\ sub[p].target = sub[q].target
        BY <3>1 DEF OnTarget
      <4>1. p # r
        BY <1>4, <1>6, <3>1
      <4>2. CASE p \in OnTarget(target)
        <5>1. sub'[p] = [sub[p] EXCEPT !.alone = FALSE] /\ sub[p].target = target /\ sub[p].pc # "idle"
          BY <1>3, <4>1, <4>2 DEF OnTarget
        <5>2. DOMAIN sub[p] = {"pc", "target", "kind", "by", "ticket", "score", "n", "agg", "alone"}
          BY <1>10, <5>1 DEF Submission
        <5>3. PICK x, y : x = sub[p] /\ y = sub'[p]
          OBVIOUS
        <5>4. y.target = x.target
          BY <5>1, <5>2, <5>3
        <5>5. QED
          BY <3>1, <5>1, <5>3, <5>4
      <4>3. CASE p \notin OnTarget(target)
        BY <1>3, <4>1, <4>3
      <4>4. QED
        BY <4>2, <4>3
    <3>5. Knows(q)'
      BY <1>11, <3>1, <3>2, <3>4 DEF Knows
    <3>6. QED
      BY <3>3, <3>5
  <2>3. QED
    BY <2>1, <2>2
<1>13. Knows(r)'
  <2> SUFFICES ASSUME OnTarget(target) = {}
               PROVE  OnTarget(target)' \subseteq {r}
    BY <1>4, <1>6 DEF Knows
  <2>1. \A q \in Requests \ {r} : sub'[q] = sub[q]
    BY <1>3
  <2>2. QED
    BY <2>1 DEF OnTarget
<1>14. RatingHeals'
  BY <1>3, <1>11 DEF RatingKept, RatingHeals, KindOf
<1>15. DOMAIN sub' = Requests
  BY <1>3
<1>16. QED
  BY <1>3, <1>9, <1>12, <1>13, <1>14, <1>15 DEF RatingKept

LEMMA WriteRatingKeeps ==
  ASSUME RatingKept, NEW r \in Requests, WriteRating(r), UNCHANGED prov
  PROVE  RatingKept'
<1>1. PICK s : s = sub[r]
  OBVIOUS
<1>2. PICK n : n = IF s.n = Nothing THEN Cardinality(DOMAIN rating) + 1 ELSE s.n
  OBVIOUS
<1>3. PICK d : d = [target |-> s.target, kind |-> s.kind, by |-> s.by, ticket |-> s.ticket,
                    score |-> s.score, replied |-> s.n # Nothing /\ rating[n].replied]
  OBVIOUS
<1>4. /\ s.pc = "write" /\ sub' = [sub EXCEPT ![r] = [s EXCEPT !.pc = "aggregate"]]
      /\ rating' = Over(rating, n, d) /\ settled' = settled \ {s.target} /\ UNCHANGED shown
  BY <1>1, <1>2, <1>3 DEF WriteRating, Rates
<1>5. DOMAIN d = RatingFields /\ d.target = s.target /\ d.kind = s.kind
  BY <1>3 DEF RatingFields
<1>6. /\ IsFiniteSet(DOMAIN rating) /\ DOMAIN rating = 1..Cardinality(DOMAIN rating)
      /\ \A m \in DOMAIN rating : DOMAIN rating[m] = RatingFields
      /\ DOMAIN sub = Requests
      /\ \A q \in Requests : sub[q].pc # "idle" => Submission(sub[q]) /\ Knows(q)
      /\ settled \subseteq DOMAIN shown /\ settled \subseteq DOMAIN prov \cup Users /\ RatingHeals
  BY DEF RatingKept
<1>7. Submission(s) /\ Knows(r)
  BY <1>1, <1>4, <1>6
<1>8. PICK k \in Nat : k = Cardinality(DOMAIN rating) /\ DOMAIN rating = 1..k
  BY <1>6, FS_CardinalityType
<1>9. n \in 1..(k + 1)
  <2>1. s.n = Nothing => n = k + 1
    BY <1>2, <1>8
  <2>2. s.n # Nothing => n = s.n /\ s.n \in DOMAIN rating
    BY <1>2, <1>7 DEF Submission
  <2>3. \A m \in DOMAIN rating : m \in 1..k
    BY <1>8
  <2>4. QED
    BY <2>1, <2>2, <2>3
<1>10. n \in DOMAIN rating => rating[n].target = s.target /\ rating[n].kind = s.kind
  <2>1. CASE s.n = Nothing
    <3>1. n = k + 1
      BY <1>2, <1>8, <2>1
    <3>2. \A m \in DOMAIN rating : m \in 1..k
      BY <1>8
    <3>3. QED
      BY <3>1, <3>2
  <2>2. CASE s.n # Nothing
    BY <1>2, <1>7, <2>2 DEF Submission
  <2>3. QED
    BY <2>1, <2>2
<1>11. /\ DOMAIN rating' = DOMAIN rating \cup {n} /\ rating'[n] = d
       /\ \A m \in DOMAIN rating \ {n} : rating'[m] = rating[m]
  BY <1>4 DEF Over
<1>12. IsFiniteSet(DOMAIN rating') /\ DOMAIN rating' = 1..Cardinality(DOMAIN rating')
  <2>1. n \in DOMAIN rating \/ n = k + 1
    <3>1. n \in 1..k \/ n = k + 1
      BY <1>9
    <3>2. \A m \in 1..k : m \in DOMAIN rating
      BY <1>8
    <3>3. QED
      BY <3>1, <3>2
  <2>2. CASE n \in DOMAIN rating
    <3>1. DOMAIN rating' = DOMAIN rating
      BY <1>11, <2>2
    <3>2. QED
      BY <1>6, <3>1
  <2>3. CASE n = k + 1
    <3>1. DOMAIN rating' = 1..(k + 1)
      <4>1. \A m : m \in DOMAIN rating' <=> m \in 1..k \/ m = k + 1
        BY <1>8, <1>11, <2>3
      <4>2. \A m : m \in 1..(k + 1) <=> m \in 1..k \/ m = k + 1
        OBVIOUS
      <4>3. QED
        BY <4>1, <4>2
    <3>2. IsFiniteSet(1..(k + 1)) /\ Cardinality(1..(k + 1)) = k + 1
      BY FS_Interval
    <3>3. QED
      BY <3>1, <3>2
  <2>4. QED
    BY <2>1, <2>2, <2>3
<1>13. \A m \in DOMAIN rating' : DOMAIN rating'[m] = RatingFields
  BY <1>5, <1>6, <1>11
<1>14. PICK t : t = sub'[r]
  OBVIOUS
<1>15. t = [s EXCEPT !.pc = "aggregate"] /\ DOMAIN sub' = Requests /\ \A q \in Requests \ {r} : sub'[q] = sub[q]
  BY <1>4, <1>6, <1>14
<1>16. /\ DOMAIN t = DOMAIN s /\ t.pc = "aggregate" /\ t.target = s.target /\ t.kind = s.kind
       /\ t.n = s.n /\ t.alone = s.alone
  BY <1>7, <1>15 DEF Submission
<1>17. \A m \in DOMAIN rating : m \in DOMAIN rating' /\ rating'[m].target = rating[m].target
                                /\ rating'[m].kind = rating[m].kind
  BY <1>5, <1>10, <1>11
<1>18. ASSUME NEW x, Submission(x)
       PROVE  Submission(x)'
  BY <1>17, <1>18 DEF Submission
<1>19. ASSUME NEW x, x # s.target, NEW kind
       PROVE  ScoresOf(x, kind)' = ScoresOf(x, kind)
  <2>1. \A m \in DOMAIN rating \cup DOMAIN rating' : m # n => m \in DOMAIN rating /\ rating'[m] = rating[m]
    BY <1>11
  <2>2. (n \in DOMAIN rating => rating[n].target # x) /\ rating'[n].target # x
    BY <1>5, <1>10, <1>11, <1>19
  <2>3. QED
    BY <1>17, <2>1, <2>2, SameScores
<1>20. \A q \in Requests : sub'[q].pc # "idle" => sub[q].pc # "idle" /\ sub'[q].target = sub[q].target
  BY <1>1, <1>4, <1>14, <1>15, <1>16
<1>21. \A x : OnTarget(x)' \subseteq OnTarget(x)
  BY <1>20 DEF OnTarget
<1>22. r \in OnTarget(s.target)
  BY <1>1, <1>4 DEF OnTarget
<1>23. ASSUME NEW q \in Requests \ {r}, sub'[q].pc # "idle"
       PROVE  Submission(sub[q])' /\ Knows(q)'
  <2>1. sub'[q] = sub[q] /\ Submission(sub[q]) /\ Knows(q)
    BY <1>6, <1>15, <1>23
  <2>2. Submission(sub[q])'
    BY <1>18, <2>1 DEF Submission
  <2>3. sub[q].alone => sub[q].target # s.target
    BY <1>22, <2>1 DEF Knows
  <2>4. Knows(q)'
    <3> SUFFICES ASSUME sub[q].alone
                 PROVE  /\ OnTarget(sub[q].target)' \subseteq {q}
                        /\ sub[q].pc = "show" => sub[q].agg = Summed(ScoresOf(sub[q].target, sub[q].kind))'
      BY <2>1 DEF Knows
    <3>1. OnTarget(sub[q].target)' \subseteq {q}
      BY <1>21, <2>1 DEF Knows
    <3>2. ScoresOf(sub[q].target, sub[q].kind)' = ScoresOf(sub[q].target, sub[q].kind)
      <4>1. PICK x, kind : x = sub[q].target /\ kind = sub[q].kind
        OBVIOUS
      <4>2. ScoresOf(x, kind)' = ScoresOf(x, kind)
        BY <1>19, <2>3, <4>1
      <4>3. sub'[q].target = x /\ sub'[q].kind = kind
        BY <2>1, <4>1
      <4>4. QED
        BY <2>1, <4>1, <4>2, <4>3 DEF ScoresOf
    <3>3. QED
      BY <2>1, <3>1, <3>2 DEF Knows
  <2>5. QED
    BY <2>2, <2>4
<1>24. Submission(sub[r])' /\ Knows(r)'
  <2>1. Submission(sub[r])'
    BY <1>7, <1>14, <1>16, <1>17 DEF Submission
  <2>2. Knows(r)'
    BY <1>1, <1>7, <1>14, <1>16, <1>21 DEF Knows
  <2>3. QED
    BY <2>1, <2>2
<1>25. RatingHeals'
  <2> SUFFICES ASSUME NEW t1 \in settled'
               PROVE  shown'[t1] = Summed(ScoresOf(t1, KindOf(t1)))'
    BY DEF RatingHeals
  <2>1. t1 \in settled /\ t1 # s.target /\ shown'[t1] = shown[t1]
    BY <1>4
  <2>2. KindOf(t1)' = KindOf(t1)
    BY DEF KindOf
  <2>3. PICK kind : kind = KindOf(t1)
    OBVIOUS
  <2>4. ScoresOf(t1, kind)' = ScoresOf(t1, kind)
    BY <1>19, <2>1
  <2>5. shown[t1] = Summed(ScoresOf(t1, kind))
    BY <1>6, <2>1, <2>3 DEF RatingHeals
  <2>6. ScoresOf(t1, KindOf(t1))' = ScoresOf(t1, kind)
    BY <2>2, <2>3, <2>4 DEF ScoresOf
  <2>7. QED
    BY <2>1, <2>5, <2>6
<1>26. settled' \subseteq DOMAIN shown' /\ settled' \subseteq DOMAIN prov' \cup Users
  BY <1>4, <1>6
<1>27. QED
  BY <1>12, <1>13, <1>15, <1>23, <1>24, <1>25, <1>26 DEF RatingKept

LEMMA ReadsAndEndsKeep ==
  ASSUME RatingKept, NEW r \in Requests, ReadAggregate(r) \/ StampTicket(r) \/ StopsRating(r), UNCHANGED prov
  PROVE  RatingKept'
<1>1. sub[r].pc # "idle" /\ UNCHANGED <<rating, shown, settled>>
  BY DEF ReadAggregate, StampTicket, StopsRating
<1>2. DOMAIN sub = Requests /\ Submission(sub[r])
  BY <1>1 DEF RatingKept
<1>3. sub' = [sub EXCEPT ![r] = sub'[r]]
      /\ (sub'[r] = Idle \/ (ReadAggregate(r) /\ sub'[r] = [sub[r] EXCEPT !.pc = "show", !.agg = Aggregate(sub[r])]))
  BY <1>2 DEF ReadAggregate, StampTicket, StopsRating, Rates
<1>4. CASE sub'[r] = [sub[r] EXCEPT !.pc = "show", !.agg = Aggregate(sub[r])]
  <2>1. PICK s, t, a : s = sub[r] /\ t = sub'[r] /\ a = Aggregate(sub[r])
    OBVIOUS
  <2>2. t = [s EXCEPT !.pc = "show", !.agg = a]
    BY <1>4, <2>1
  <2>3. /\ DOMAIN t = DOMAIN s /\ t.pc = "show" /\ t.agg = a /\ t.target = s.target /\ t.kind = s.kind
        /\ t.n = s.n /\ t.alone = s.alone
    BY <1>2, <2>1, <2>2 DEF Submission
  <2>4. a = Summed(ScoresOf(s.target, s.kind))
    BY <2>1 DEF Aggregate
  <2>5. Submission(sub[r])' /\ sub'[r].pc # "idle"
    BY <1>1, <1>2, <2>1, <2>3 DEF Submission
  <2>6. sub'[r].agg = Summed(ScoresOf(sub'[r].target, sub'[r].kind))
    BY <2>1, <2>3, <2>4
  <2>7. /\ DOMAIN sub' = Requests
        /\ \A q \in Requests : sub'[q].pc # "idle" => Submission(sub[q])' /\ Knows(q)'
    BY <1>1, <1>3, <2>1, <2>3, <2>5, <2>6, GoesOn
  <2>8. QED
    BY <1>1, <2>7 DEF RatingKept, RatingHeals, ScoresOf, KindOf
<1>5. CASE sub'[r] = Idle
  <2>1. /\ DOMAIN sub' = Requests
        /\ \A q \in Requests : sub'[q].pc # "idle" => Submission(sub[q])' /\ Knows(q)'
    BY <1>1, <1>3, <1>5, GoesOn
  <2>2. QED
    BY <1>1, <2>1 DEF RatingKept, RatingHeals, ScoresOf, KindOf
<1>6. QED
  BY <1>3, <1>4, <1>5

LEMMA ShowKeeps ==
  ASSUME DirTypeOK, RatingKept, NEW r \in Requests, ShowRating(r), UNCHANGED prov
  PROVE  RatingKept'
<1>1. PICK s : s = sub[r]
  OBVIOUS
<1>2. s.pc = "show" /\ UNCHANGED rating
  BY <1>1 DEF ShowRating
<1>3. DOMAIN sub = Requests /\ Submission(s) /\ Knows(r)
  BY <1>1, <1>2 DEF RatingKept
<1>4. \A x, kind : ScoresOf(x, kind)' = ScoresOf(x, kind) /\ KindOf(x)' = KindOf(x)
  BY <1>2 DEF ScoresOf, KindOf
<1>5. CASE s.kind = "SHOP" /\ s.target \notin DOMAIN prov
  <2>1. sub' = [sub EXCEPT ![r] = Idle] /\ UNCHANGED <<shown, settled>>
    BY <1>1, <1>5 DEF ShowRating, Rates
  <2>2. sub' = [sub EXCEPT ![r] = sub'[r]] /\ sub'[r] = Idle
    BY <1>3, <2>1
  <2>3. /\ DOMAIN sub' = Requests
        /\ \A q \in Requests : sub'[q].pc # "idle" => Submission(sub[q])' /\ Knows(q)'
    BY <1>1, <1>2, <2>2, GoesOn
  <2>4. QED
    BY <1>2, <2>1, <2>3 DEF RatingKept, RatingHeals, ScoresOf, KindOf
<1>6. CASE ~(s.kind = "SHOP" /\ s.target \notin DOMAIN prov)
  <2>1. /\ sub' = [sub EXCEPT ![r] = [s EXCEPT !.pc = "stamp"]] /\ shown' = Over(shown, s.target, s.agg)
        /\ settled' = IF s.alone THEN settled \cup {s.target} ELSE settled \ {s.target}
    BY <1>1, <1>6 DEF ShowRating, Rates
  <2>2. PICK t : t = sub'[r]
    OBVIOUS
  <2>3. t = [s EXCEPT !.pc = "stamp"] /\ sub' = [sub EXCEPT ![r] = sub'[r]]
    BY <1>3, <2>1, <2>2
  <2>4. /\ DOMAIN t = DOMAIN s /\ t.pc = "stamp" /\ t.target = s.target /\ t.kind = s.kind
        /\ t.n = s.n /\ t.alone = s.alone
    BY <1>3, <2>3 DEF Submission
  <2>5. Submission(sub[r])' /\ sub'[r].pc # "idle"
    BY <1>2, <1>3, <2>2, <2>4 DEF Submission
  <2>6. /\ DOMAIN sub' = Requests
        /\ \A q \in Requests : sub'[q].pc # "idle" => Submission(sub[q])' /\ Knows(q)'
    BY <1>1, <1>2, <2>2, <2>3, <2>4, <2>5, GoesOn
  <2>7. /\ DOMAIN shown' = DOMAIN shown \cup {s.target} /\ shown'[s.target] = s.agg
        /\ \A x \in DOMAIN shown \ {s.target} : shown'[x] = shown[x]
    BY <2>1 DEF Over
  <2>8. s.target \in DOMAIN prov \cup Users /\ s.kind = KindOf(s.target)
    <3>1. CASE s.kind = "SHOP"
      BY <1>6, <3>1 DEF KindOf
    <3>2. CASE s.kind = "RIDER"
      <4>1. s.target \in Users /\ Users \cap Ids = {} /\ DOMAIN prov \subseteq Ids
        BY <1>3, <3>2, ProvidersAssumption DEF Submission, Ids, DirTypeOK
      <4>2. QED
        BY <3>2, <4>1 DEF KindOf
    <3>3. QED
      BY <1>3, <3>1, <3>2 DEF Submission
  <2>9. settled' \subseteq DOMAIN shown' /\ settled' \subseteq DOMAIN prov' \cup Users
    BY <2>1, <2>7, <2>8 DEF RatingKept
  <2>10. ASSUME NEW x \in settled'
         PROVE  shown'[x] = Summed(ScoresOf(x, KindOf(x)))
    <3>1. CASE x = s.target
      <4>1. s.alone
        BY <2>1, <2>10, <3>1
      <4>2. s.agg = Summed(ScoresOf(s.target, s.kind))
        BY <1>1, <1>2, <1>3, <4>1 DEF Knows
      <4>3. QED
        BY <2>7, <2>8, <3>1, <4>2
    <3>2. CASE x # s.target
      <4>1. x \in settled
        BY <2>1, <2>10, <3>2
      <4>2. x \in DOMAIN shown /\ shown[x] = Summed(ScoresOf(x, KindOf(x)))
        BY <4>1 DEF RatingKept, RatingHeals
      <4>3. QED
        BY <2>7, <3>2, <4>2
    <3>3. QED
      BY <3>1, <3>2
  <2>11. RatingHeals'
    BY <1>2, <2>10 DEF RatingHeals, ScoresOf, KindOf
  <2>12. QED
    BY <1>2, <2>6, <2>9, <2>11 DEF RatingKept
<1>7. QED
  BY <1>5, <1>6

LEMMA ReplyKeeps ==
  ASSUME RatingKept, NEW n \in DOMAIN rating, NEW u \in Users, ReplyToRating(n, u), UNCHANGED prov
  PROVE  RatingKept'
<1>1. rating' = [rating EXCEPT ![n].replied = TRUE] /\ UNCHANGED <<shown, sub, settled>>
  BY DEF ReplyToRating
<1>2. PICK d, e : d = rating[n] /\ e = rating'[n]
  OBVIOUS
<1>3. DOMAIN d = RatingFields /\ e = [d EXCEPT !.replied = TRUE]
  BY <1>1, <1>2 DEF RatingKept
<1>4. DOMAIN e = RatingFields /\ e.target = d.target /\ e.kind = d.kind /\ e.score = d.score
  BY <1>3 DEF RatingFields
<1>5. DOMAIN rating' = DOMAIN rating /\ \A m \in DOMAIN rating \ {n} : rating'[m] = rating[m]
  BY <1>1
<1>6. \A m \in DOMAIN rating : /\ rating'[m].target = rating[m].target /\ rating'[m].kind = rating[m].kind
                               /\ rating'[m].score = rating[m].score
                               /\ DOMAIN rating'[m] = DOMAIN rating[m]
  BY <1>2, <1>3, <1>4, <1>5
<1>7. \A x, kind : ScoresOf(x, kind)' = ScoresOf(x, kind)
  BY <1>5, <1>6, SameScores
<1>8. \A x : OnTarget(x)' = OnTarget(x) /\ KindOf(x)' = KindOf(x)
  BY <1>1 DEF OnTarget, KindOf
<1>9. ASSUME NEW q \in Requests, sub'[q].pc # "idle"
      PROVE  Submission(sub[q])' /\ Knows(q)'
  <2>1. sub'[q] = sub[q] /\ Submission(sub[q]) /\ Knows(q)
    BY <1>1, <1>9 DEF RatingKept
  <2>2. Submission(sub[q])'
    BY <1>5, <1>6, <2>1 DEF Submission
  <2>3. Knows(q)'
    BY <1>7, <1>8, <2>1 DEF Knows
  <2>4. QED
    BY <2>2, <2>3
<1>10. IsFiniteSet(DOMAIN rating') /\ DOMAIN rating' = 1..Cardinality(DOMAIN rating')
  BY <1>5 DEF RatingKept
<1>11. \A m \in DOMAIN rating' : DOMAIN rating'[m] = RatingFields
  BY <1>5, <1>6 DEF RatingKept
<1>12. RatingHeals'
  BY <1>1, <1>7, <1>8 DEF RatingKept, RatingHeals
<1>13. QED
  BY <1>1, <1>9, <1>10, <1>11, <1>12 DEF RatingKept

\* The directory only gains records, so a rated record stays one, and a rated user is none.
LEMMA DirectoryKeepsRatings ==
  ASSUME DirKept, DirKept', RatingKept, [Next]_vars, UNCHANGED ratingVars
  PROVE  RatingKept'
<1>1. UNCHANGED <<rating, shown, sub, settled>> /\ DOMAIN prov \subseteq DOMAIN prov'
  BY NextStands DEF ratingVars
<1>2. Users \cap DOMAIN prov' = {}
  BY ProvidersAssumption DEF DirKept, DirTypeOK, Ids
<1>3. \A x, kind : ScoresOf(x, kind)' = ScoresOf(x, kind)
  BY <1>1 DEF ScoresOf
<1>4. \A x \in settled : KindOf(x)' = KindOf(x)
  BY <1>1, <1>2 DEF RatingKept, KindOf
<1>5. RatingHeals'
  BY <1>1, <1>3, <1>4 DEF RatingKept, RatingHeals
<1>6. \A q \in Requests : sub'[q].pc # "idle" => Submission(sub[q])' /\ Knows(q)'
  BY <1>1, <1>3 DEF RatingKept, Submission, Knows, OnTarget
<1>7. settled' \subseteq DOMAIN shown' /\ settled' \subseteq DOMAIN prov' \cup Users
  BY <1>1 DEF RatingKept
<1>8. QED
  BY <1>1, <1>5, <1>6, <1>7 DEF RatingKept

LEMMA RatingInitKept == RatingInit => RatingKept
<1> SUFFICES ASSUME RatingInit
             PROVE  RatingKept
  OBVIOUS
<1>1. rating = <<>> /\ settled = {} /\ sub = [r \in Requests |-> Idle]
  BY DEF RatingInit
<1>2. DOMAIN rating = {}
  BY <1>1
<1>3. IsFiniteSet({}) /\ Cardinality({}) = 0 /\ 1..0 = {}
  BY FS_EmptySet
<1>4. IsFiniteSet(DOMAIN rating) /\ DOMAIN rating = 1..Cardinality(DOMAIN rating)
  BY <1>2, <1>3
<1>5. DOMAIN sub = Requests /\ \A q \in Requests : sub[q].pc = "idle"
  BY <1>1 DEF Idle
<1>6. QED
  BY <1>1, <1>2, <1>4, <1>5 DEF RatingKept, RatingHeals

LEMMA RatingNextKeeps == DirKept /\ DirKept' /\ RatingKept /\ [RatingNext]_allVars => RatingKept'
<1> SUFFICES ASSUME DirKept, DirKept', RatingKept, [RatingNext]_allVars
             PROVE  RatingKept'
  OBVIOUS
<1>1. CASE Next /\ UNCHANGED ratingVars
  BY <1>1, DirectoryKeepsRatings
<1>2. CASE UNCHANGED allVars
  BY <1>2, DirectoryKeepsRatings DEF allVars
<1>3. CASE Rating /\ UNCHANGED vars
  <2>1. UNCHANGED prov /\ DirTypeOK
    BY <1>3 DEF vars, DirKept
  <2>2. ASSUME NEW r \in Requests, NEW k \in DOMAIN Resolved, NEW kind \in {"SHOP", "RIDER"},
               NEW by \in Users, NEW score \in Scores, SubmitRating(r, k, kind, by, score)
        PROVE  RatingKept'
    BY <2>1, <2>2, SubmitKeeps
  <2>3. ASSUME NEW r \in Requests,
               WriteRating(r) \/ ReadAggregate(r) \/ ShowRating(r) \/ StampTicket(r) \/ StopsRating(r)
        PROVE  RatingKept'
    BY <2>1, <2>3, WriteRatingKeeps, ReadsAndEndsKeep, ShowKeeps
  <2>4. ASSUME NEW n \in DOMAIN rating, NEW u \in Users, ReplyToRating(n, u)
        PROVE  RatingKept'
    BY <2>1, <2>4, ReplyKeeps
  <2>5. QED
    BY <1>3, <2>2, <2>3, <2>4 DEF Rating
<1>4. QED
  BY <1>1, <1>2, <1>3 DEF RatingNext

\* However submissions overlap, die or are replied to, and whatever happens to the
\* records of providers meanwhile, the average that a submission shows while nobody
\* else rates its target is the sum and the count of the scores that stand, and stays so
\* until the next rating of that target is written (submitRating, aggregate).
THEOREM RatingsHeal == RatingSpec => []RatingHeals
<1>1. RatingInit => RatingKept
  BY RatingInitKept
<1>2. DirKept /\ DirKept' /\ RatingKept /\ [RatingNext]_allVars => RatingKept'
  BY RatingNextKeeps
<1>3. RatingKept => RatingHeals
  BY DEF RatingKept
<1>4. QED
  BY <1>1, <1>2, <1>3, AlwaysKept, PTL DEF RatingSpec

------------------------------------------------------------------------------
(* The fare *)

LEMMA SmallestPart ==
  ASSUME NEW S, IsFiniteSet(S), NEW T, T \subseteq SUBSET S, T # {}
  PROVE  \E m \in T : \A y \in T : y \subseteq m => y = m
<1>1. IsWellFoundedOn(StrictSubsetOrdering(S), FiniteSubsetsOf(S))
  BY FS_StrictSubsetOrderingWellFounded
<1>2. FiniteSubsetsOf(S) = SUBSET S
  BY FS_FiniteSubsetsOfFinite
<1>3. PICK m \in T : \A y \in T : ~ (<<y, m>> \in StrictSubsetOrdering(S))
  BY <1>1, <1>2, WFMin
<1>4. QED
  BY <1>3 DEF StrictSubsetOrdering

\* The total as the fold computes it: the last amount of a part, and the part before.
AllButLast(s) == s \ {Max(s)}
Upto(g, h, s) == IF s = {} THEN 0 ELSE h[AllButLast(s)] + g[Max(s)]
IsRun(g, h, A) == h = [s \in SUBSET A |-> Upto(g, h, s)]
RunOf(g, A) == CHOOSE h : IsRun(g, h, A)

LEMMA TotalRuns == ASSUME NEW g PROVE Total(g) = RunOf(g, DOMAIN g)[DOMAIN g]
BY DEF Total, FoldLeft, MapThenFoldSet, RunOf, IsRun, Upto, AllButLast

LEMMA LastIs ==
  ASSUME NEW S, IsFiniteSet(S), \A i \in S : i \in Nat, NEW s \in SUBSET S, s # {}
  PROVE  Max(s) \in s /\ \A i \in s : Max(s) >= i
<1> DEFINE HasLast(t) == \E x \in t : \A y \in t : x >= y
           T == {t \in SUBSET S : t # {} /\ ~HasLast(t)}
<1>1. SUFFICES HasLast(s)
  BY DEF Max
<1>2. SUFFICES ASSUME T # {} PROVE FALSE
  OBVIOUS
<1>3. PICK m \in T : \A y \in T : y \subseteq m => y = m
  <2>1. T \subseteq SUBSET S
    OBVIOUS
  <2> HIDE DEF T
  <2> QED
    BY <1>2, <2>1, SmallestPart
<1>4. PICK x \in m : TRUE
  OBVIOUS
<1>5. m \ {x} # {}
  BY <1>4
<1>6. HasLast(m \ {x})
  <2>1. m \ {x} \subseteq m /\ m \ {x} # m /\ m \ {x} \in SUBSET S
    BY <1>4
  <2> HIDE DEF T, HasLast
  <2>2. m \ {x} \notin T
    BY <1>3, <2>1
  <2> QED
    BY <1>5, <2>1, <2>2 DEF T
<1>7. PICK w \in m \ {x} : \A y \in m \ {x} : w >= y
  BY <1>6
<1>8. x \in Nat /\ w \in Nat
  BY <1>4, <1>7
<1>9. CASE w >= x
  BY <1>7, <1>9
<1>10. CASE x >= w
  <2>1. \A y \in m : y \in Nat
    OBVIOUS
  <2> QED
    BY <1>4, <1>7, <1>8, <1>10, <2>1
<1>11. QED
  BY <1>8, <1>9, <1>10

\* Two runs agree where their amounts do.
LEMMA RunsAgree ==
  ASSUME NEW S, IsFiniteSet(S), \A i \in S : i \in Nat,
         NEW A \in SUBSET S, NEW B \in SUBSET S, NEW g, NEW l,
         NEW h, IsRun(g, h, A), NEW k, IsRun(l, k, B), NEW s \in SUBSET (A \cap B),
         \A i \in s : g[i] = l[i]
  PROVE  h[s] = k[s]
<1> DEFINE T == {t \in SUBSET s : h[t] # k[t]}
<1>1. SUFFICES ASSUME T # {} PROVE FALSE
  OBVIOUS
<1>2. PICK m \in T : \A y \in T : y \subseteq m => y = m
  <2>1. T \subseteq SUBSET S
    OBVIOUS
  <2> HIDE DEF T
  <2> QED
    BY <1>1, <2>1, SmallestPart
<1>3. m \in SUBSET A /\ m \in SUBSET B /\ m \in SUBSET s /\ m \in SUBSET S
  OBVIOUS
<1>4. h[m] = Upto(g, h, m) /\ k[m] = Upto(l, k, m)
  BY <1>3 DEF IsRun
<1>5. m # {}
  BY <1>4 DEF Upto
<1>6. Max(m) \in m
  BY <1>3, <1>5, LastIs
<1>7. AllButLast(m) \in SUBSET s /\ AllButLast(m) \subseteq m /\ AllButLast(m) # m
  BY <1>3, <1>6 DEF AllButLast
<1>8. h[AllButLast(m)] = k[AllButLast(m)]
  BY <1>2, <1>7
<1>9. QED
  BY <1>3, <1>4, <1>5, <1>6, <1>8 DEF Upto

LEMMA RunExists ==
  ASSUME NEW g, NEW S, IsFiniteSet(S), \A i \in S : i \in Nat
  PROVE  IsRun(g, RunOf(g, S), S)
<1> DEFINE T == {t \in SUBSET S : ~ \E h : IsRun(g, h, t)}
<1>1. SUFFICES T = {}
  BY DEF RunOf
<1>2. SUFFICES ASSUME T # {} PROVE FALSE
  OBVIOUS
<1>3. PICK m \in T : \A y \in T : y \subseteq m => y = m
  <2>1. T \subseteq SUBSET S
    OBVIOUS
  <2> HIDE DEF T
  <2> QED
    BY <1>2, <2>1, SmallestPart
<1>4. \A s \in SUBSET m : s # m => IsRun(g, RunOf(g, s), s)
  BY <1>3 DEF RunOf
<1> DEFINE V(s) == IF s = {} THEN 0 ELSE RunOf(g, AllButLast(s))[AllButLast(s)] + g[Max(s)]
           h == [s \in SUBSET m |-> V(s)]
<1>5. ASSUME NEW s \in SUBSET m PROVE V(s) = Upto(g, h, s)
  <2>1. CASE s = {}
    BY <2>1 DEF Upto
  <2>2. CASE s # {}
    <3> DEFINE r == AllButLast(s)
    <3>1. r \in SUBSET m /\ r # m
      <4>1. Max(s) \in s
        BY <2>2, LastIs
      <4> QED
        BY <4>1 DEF AllButLast
    <3>2. RunOf(g, r)[r] = Upto(g, RunOf(g, r), r)
      BY <1>4, <3>1 DEF IsRun
    <3>3. h[r] = V(r)
      BY <3>1
    <3>4. CASE r = {}
      BY <2>2, <3>2, <3>3, <3>4 DEF Upto
    <3>5. CASE r # {}
      <4>1. AllButLast(r) \in SUBSET r /\ AllButLast(r) # m
        <5>1. Max(r) \in r
          BY <3>1, <3>5, LastIs
        <5> QED
          BY <3>1, <5>1 DEF AllButLast
      <4>2. IsRun(g, RunOf(g, r), r) /\ IsRun(g, RunOf(g, AllButLast(r)), AllButLast(r))
        BY <1>4, <3>1, <4>1
      <4>3. RunOf(g, r)[AllButLast(r)] = RunOf(g, AllButLast(r))[AllButLast(r)]
        <5>1. /\ r \in SUBSET S /\ AllButLast(r) \in SUBSET S
              /\ AllButLast(r) \in SUBSET (r \cap AllButLast(r)) /\ \A i \in AllButLast(r) : g[i] = g[i]
          BY <3>1, <4>1
        <5>2. PICK p \in SUBSET S : p = AllButLast(r)
          BY <5>1
        <5> HIDE DEF r
        <5>3. /\ IsRun(g, RunOf(g, r), r) /\ IsRun(g, RunOf(g, p), p) /\ p \in SUBSET (r \cap p)
              /\ \A i \in p : g[i] = g[i]
          BY <4>2, <5>1, <5>2
        <5>4. RunOf(g, r)[p] = RunOf(g, p)[p]
          BY <5>1, <5>3, RunsAgree
        <5> QED
          BY <5>2, <5>4
      <4> QED
        BY <2>2, <3>2, <3>3, <3>5, <4>3 DEF Upto
    <3> QED
      BY <3>4, <3>5
  <2> QED
    BY <2>1, <2>2
<1>6. IsRun(g, h, m)
  BY <1>5 DEF IsRun
<1>7. QED
  BY <1>3, <1>6

LEMMA IndicesAreFinite == ASSUME NEW n \in Nat PROVE IsFiniteSet(1..n) /\ \A i \in 1..n : i \in Nat
BY FS_Interval

LEMMA TotalOfNothing == Total(<<>>) = 0
<1>1. IsRun(<<>>, RunOf(<<>>, {}), {})
  BY RunExists, FS_EmptySet
<1>2. DOMAIN <<>> = {}
  OBVIOUS
<1>3. QED
  BY <1>1, <1>2, TotalRuns DEF IsRun, Upto

\* A total grows by what is appended.
LEMMA TotalGrows ==
  ASSUME NEW g \in Seq(Nat), NEW x \in Nat
  PROVE  Total(Append(g, x)) = Total(g) + x
<1> DEFINE n == Len(g)
           l == Append(g, x)
           m == n + 1
<1>1. /\ n \in Nat /\ m \in Nat /\ DOMAIN g = 1..n /\ DOMAIN l = 1..m /\ l[m] = x
      /\ \A i \in 1..n : l[i] = g[i]
  OBVIOUS
<1> HIDE DEF n, l
<1>2. Max(1..m) = m /\ AllButLast(1..m) = 1..n /\ 1..m # {}
  <2>1. m \in 1..m /\ \A i \in 1..m : m >= i
    BY <1>1
  <2>2. Max(1..m) \in 1..m /\ \A i \in 1..m : Max(1..m) >= i
    BY <1>1, <2>1, LastIs, IndicesAreFinite
  <2>3. Max(1..m) = m
    BY <1>1, <2>1, <2>2
  <2>4. (1..m) \ {m} = 1..n
    BY <1>1
  <2> QED
    BY <2>1, <2>3, <2>4 DEF AllButLast
<1>3. IsRun(g, RunOf(g, 1..n), 1..n) /\ IsRun(l, RunOf(l, 1..m), 1..m)
  BY <1>1, RunExists, IndicesAreFinite
<1>4. RunOf(l, 1..m)[1..m] = RunOf(l, 1..m)[1..n] + x
  BY <1>1, <1>2, <1>3 DEF IsRun, Upto
<1>5. RunOf(l, 1..m)[1..n] = RunOf(g, 1..n)[1..n]
  <2>1. 1..n \in SUBSET (1..m) /\ 1..n \in SUBSET ((1..m) \cap (1..n))
    BY <1>1
  <2> QED
    BY <1>1, <1>3, <2>1, RunsAgree, IndicesAreFinite
<1>6. Total(l) = RunOf(l, 1..m)[1..m] /\ Total(g) = RunOf(g, 1..n)[1..n]
  BY <1>1, TotalRuns
<1>7. QED
  BY <1>4, <1>5, <1>6 DEF l

LEMMA RunIsNat ==
  ASSUME NEW S, IsFiniteSet(S), \A i \in S : i \in Nat, NEW g, \A i \in S : g[i] \in Nat
  PROVE  RunOf(g, S)[S] \in Nat
<1> DEFINE h == RunOf(g, S)
           T == {t \in SUBSET S : h[t] \notin Nat}
<1>1. IsRun(g, h, S)
  BY RunExists
<1> HIDE DEF h
<1>2. SUFFICES ASSUME T # {} PROVE FALSE
  BY DEF h
<1>3. PICK m \in T : \A y \in T : y \subseteq m => y = m
  <2>1. T \subseteq SUBSET S
    OBVIOUS
  <2> HIDE DEF T
  <2> QED
    BY <1>2, <2>1, SmallestPart
<1>4. m \in SUBSET S /\ h[m] \notin Nat
  OBVIOUS
<1>5. h[m] = Upto(g, h, m)
  BY <1>1, <1>4 DEF IsRun
<1>6. m # {}
  BY <1>4, <1>5 DEF Upto
<1>7. Max(m) \in m
  BY <1>4, <1>6, LastIs
<1>8. AllButLast(m) \in SUBSET S /\ AllButLast(m) \notin T
  BY <1>3, <1>4, <1>7 DEF AllButLast
<1>9. h[AllButLast(m)] \in Nat /\ g[Max(m)] \in Nat
  BY <1>4, <1>7, <1>8
<1>10. QED
  BY <1>4, <1>5, <1>6, <1>9 DEF Upto

LEMMA TotalIsNat == ASSUME NEW g \in Seq(Nat) PROVE Total(g) \in Nat
<1>1. Len(g) \in Nat /\ DOMAIN g = 1..Len(g) /\ \A i \in 1..Len(g) : g[i] \in Nat
  OBVIOUS
<1>2. QED
  BY <1>1, RunIsNat, IndicesAreFinite, TotalRuns

-----------------------------------------------------------------------------
(* The fare *)

RateCards == [base : Nat, perKm : Nat, included : Nat, minimum : Nat, deadheadPayable : BOOLEAN]
TowTickets ==
  [status : {"PENDING", "MATCHED", "ARRIVED", "RESOLVED", "CANCELLED"},
   tower : Towers \cup {None}, loaded : BOOLEAN, dest : DropOffs \cup {None},
   refused : SUBSET DropOffs, fare : Fares \cup {None}, cap : Amounts, history : Seq(Nat),
   trail : Nat, waiting : Clocks \cup {None}, cancelledBy : Towers \cup {None, "rider", "admin"}]
Pings == [waiting : Clocks, fare : Fares \cup {None}]
FareTyped ==
  ticket \in TowTickets /\ ping \in Pings \cup {None} /\ now \in Nat /\ promised \in Amounts

LEMMA Products == ASSUME NEW a \in Nat, NEW b \in Nat PROVE a * b \in Nat
OBVIOUS

LEMMA RoundFareIsNat ==
  ASSUME NEW n \in Nat, NEW d \in {10, 100, 200} PROVE RoundFare(n, d) \in Nat
BY DEF RoundFare

LEMMA RatesTyped == ASSUME NEW w \in Towers PROVE TowRatesForProvider(w) \in RateCards
BY RatesAssumption DEF TowRatesForProvider, RateCards

LEMMA PlatformTyped == Platform \in RateCards
BY RatesAssumption DEF RateCards

LEMMA NightMultIsNat == ASSUME NEW n \in BOOLEAN PROVE NightMult(n) \in Nat
BY DEF NightMult

LEMMA QuoteTyped ==
  ASSUME NEW rates \in RateCards, NEW night \in BOOLEAN, NEW deadhead \in Nat, NEW loaded \in Nat
  PROVE  /\ QuoteTowFare(rates, night, deadhead, loaded) \in Fares
         /\ QuoteTowFare(rates, night, deadhead, loaded).partial = FALSE
         /\ QuoteTowFare(rates, night, deadhead, loaded).waitingFee = None
<1> DEFINE billable == Most(0, loaded - rates.included)
           way == rates.base * 100 + rates.perKm * billable
           fare == NightMult(night) * way
           price == RoundFare(Most(200 * rates.minimum, fare), 200)
           ceiling == RoundFare(price * 11, 10)
<1>1. rates.base \in Nat /\ rates.perKm \in Nat /\ rates.included \in Nat /\ rates.minimum \in Nat
  BY DEF RateCards
<1>2. billable \in Nat
  BY <1>1 DEF Most
<1>3. rates.perKm * billable \in Nat
  BY <1>1, <1>2, Products
<1>4. way \in Nat
  BY <1>1, <1>3
<1>5. fare \in Nat
  <2> HIDE DEF way
  <2> QED
    BY <1>4, Products, NightMultIsNat
<1>6. price \in Nat
  <2>1. Most(200 * rates.minimum, fare) \in Nat
    <3> HIDE DEF fare
    <3> QED
      BY <1>1, <1>5 DEF Most
  <2> QED
    BY <2>1, RoundFareIsNat
<1>7. ceiling \in Nat
  <2> HIDE DEF price
  <2>1. price * 11 \in Nat
    BY <1>6
  <2> QED
    BY <2>1, RoundFareIsNat
<1>8. QuoteTowFare(rates, night, deadhead, loaded) =
        [estimate |-> price, ceiling |-> ceiling, final |-> None,
         deadhead |-> deadhead, loaded |-> loaded, night |-> night, perKm |-> rates.perKm,
         base |-> rates.base, billable |-> billable, partial |-> FALSE, waitingFee |-> None]
  BY DEF QuoteTowFare
<1> HIDE DEF billable, way, fare, price, ceiling
<1>9. {rates.perKm, rates.base, billable, None} \subseteq Amounts
  BY <1>1, <1>2 DEF Amounts
<1>10. QED
  BY <1>6, <1>7, <1>8, <1>9 DEF Fares

LEMMA CapTyped ==
  ASSUME NEW t \in TowTickets
  PROVE  CapOf(t) \in Amounts /\ Total(t.history) \in Nat
<1>1. t.history \in Seq(Nat) /\ t.cap \in Amounts /\ t.fare \in Fares \cup {None}
  BY DEF TowTickets
<1>2. Total(t.history) \in Nat
  BY <1>1, TotalIsNat
<1>3. t.fare # None => t.fare.ceiling \in Nat
  BY <1>1 DEF Fares
<1>4. QED
  BY <1>1, <1>2, <1>3 DEF CapOf, Amounts, Most

\* The ceiling that is stamped is the one that was there before.
LEMMA StampTyped ==
  ASSUME NEW t \in TowTickets, NEW w \in Towers, NEW deadhead \in Nat
  PROVE  /\ StampTowFare(t, w, deadhead) \in Fares
         /\ CapOf(t) # None => StampTowFare(t, w, deadhead).ceiling = CapOf(t)
<1> DEFINE l == IF t.dest = None THEN 0 ELSE Haul[t.dest]
           quote == QuoteTowFare(TowRatesForProvider(w), IsNightFare, deadhead, l)
           cap == CapOf(t)
<1>1. l \in Nat
  BY RatesAssumption DEF TowTickets
<1>2. quote \in Fares
  <2>1. IsNightFare \in BOOLEAN
    BY DEF IsNightFare
  <2> QED
    BY <1>1, <2>1, QuoteTyped, RatesTyped
<1>3. cap \in Amounts
  BY CapTyped
<1>4. StampTowFare(t, w, deadhead) =
        [quote EXCEPT !.estimate = IF cap = None THEN @ ELSE Least(@, cap), !.ceiling = OrElse(cap, @)]
  BY DEF StampTowFare
<1> HIDE DEF quote, cap, l
<1>5. PICK q \in Fares : q = quote
  BY <1>2
<1>6. PICK c \in Amounts : c = cap
  BY <1>3
<1>7. q.estimate \in Nat /\ q.ceiling \in Nat
  BY DEF Fares
<1>8. (IF c = None THEN q.estimate ELSE Least(q.estimate, c)) \in Nat /\ OrElse(c, q.ceiling) \in Nat
  BY <1>7 DEF OrElse, Least, Amounts
<1>9. StampTowFare(t, w, deadhead) =
        [q EXCEPT !.estimate = IF c = None THEN q.estimate ELSE Least(q.estimate, c),
                  !.ceiling = OrElse(c, q.ceiling)]
  BY <1>4, <1>5, <1>6
<1> DEFINE e == IF c = None THEN q.estimate ELSE Least(q.estimate, c)
           f == OrElse(c, q.ceiling)
<1> HIDE DEF e, f
<1>10. StampTowFare(t, w, deadhead) \in Fares
  BY <1>8, <1>9 DEF Fares, e, f
<1>11. StampTowFare(t, w, deadhead).ceiling = OrElse(c, q.ceiling)
  BY <1>9 DEF Fares
<1>12. QED
  BY <1>6, <1>10, <1>11 DEF cap, OrElse

LEMMA PartialTyped ==
  ASSUME NEW t \in TowTickets, NEW rates \in RateCards, NEW km \in Nat
  PROVE  PartialTowFare(t, rates, km) \in Nat
<1> DEFINE perKm == IF t.fare = None THEN rates.perKm ELSE OrElse(t.fare.perKm, rates.perKm)
           m == NightMult(IsNightFare)
<1>1. rates.perKm \in Nat
  BY DEF RateCards
<1>2. t.fare # None => t.fare.perKm \in Amounts
  BY DEF TowTickets, Fares
<1>3. perKm \in Nat
  BY <1>1, <1>2 DEF OrElse, Amounts
<1>4. m \in Nat
  <2>1. IsNightFare \in BOOLEAN
    BY DEF IsNightFare
  <2> QED
    BY <2>1, NightMultIsNat
<1>5. PartialTowFare(t, rates, km) = IF rates.deadheadPayable THEN RoundFare(m * perKm * km, 200) ELSE 0
  BY DEF PartialTowFare
<1> HIDE DEF perKm, m
<1>6. m * perKm \in Nat
  BY <1>3, <1>4, Products
<1>7. m * perKm * km \in Nat
  BY <1>6, Products
<1>8. QED
  BY <1>5, <1>7, RoundFareIsNat

LEMMA PartialFareTyped ==
  ASSUME NEW t \in TowTickets, NEW final \in Amounts, NEW km \in Nat
  PROVE  /\ PartialFare(t, final, km) \in Fares
         /\ PartialFare(t, final, km).ceiling = IF t.fare = None THEN 0 ELSE t.fare.ceiling
<1>1. t.fare # None => t.fare \in Fares
  BY DEF TowTickets
<1>2. t.fare # None => t.fare.estimate \in Nat /\ t.fare.ceiling \in Nat /\ t.fare.loaded \in Nat
  BY <1>1 DEF Fares
<1>3. IsNightFare \in BOOLEAN
  BY DEF IsNightFare
<1>4. QED
  BY <1>2, <1>3 DEF PartialFare, Fares, Amounts

LEMMA FeeIsNat ==
  ASSUME NEW e \in Int, NEW w \in Towers
  PROVE  CalcFee(e, w) \in Nat
<1>1. Grace \in Nat /\ Cap \in Nat /\ WaitRate[w] \in Nat
  BY RatesAssumption
<1>2. Least(Most(0, e - Grace), Cap) \in Nat
  BY <1>1 DEF Least, Most
<1>3. QED
  BY <1>1, <1>2, Products DEF CalcFee

LEMMA ElapsedIsInt ==
  ASSUME NEW c \in Clocks, now \in Nat
  PROVE  Elapsed(c) \in Int
BY RatesAssumption DEF Elapsed, Clocks, Least

\* What happens to the clock leaves the price as it was, but for the waiting fee.
Carried(f, g) == \/ f = None /\ g = None
                 \/ g \in Fares /\ g.ceiling = IF f = None THEN 0 ELSE f.ceiling
SameOrder(t, u) ==
  /\ u.status = t.status /\ u.tower = t.tower /\ u.dest = t.dest /\ u.refused = t.refused
  /\ u.cap = t.cap /\ u.history = t.history /\ u.trail = t.trail /\ u.loaded = t.loaded

LEMMA CarriedSelf == ASSUME NEW t \in TowTickets PROVE Carried(t.fare, t.fare)
BY DEF Carried, TowTickets

LEMMA StartTyped ==
  ASSUME NEW t \in TowTickets, now \in Nat
  PROVE  /\ StartWaiting(t) \in TowTickets /\ StartWaiting(t).fare = t.fare
         /\ SameOrder(t, StartWaiting(t))
<1> DEFINE c == [active |-> TRUE, since |-> now, fee |-> None]
<1>1. c \in Clocks
  BY DEF Clocks, Amounts
<1> HIDE DEF c
<1>2. [t EXCEPT !.waiting = c] \in TowTickets
  BY <1>1 DEF TowTickets
<1>3. StartWaiting(t) = t \/ StartWaiting(t) = [t EXCEPT !.waiting = c]
  BY DEF StartWaiting, c
<1>4. QED
  BY <1>2, <1>3 DEF TowTickets, SameOrder

LEMMA StopTyped ==
  ASSUME NEW t \in TowTickets, NEW near \in BOOLEAN, now \in Nat
  PROVE  /\ StopWaiting(t, near) \in TowTickets /\ Carried(t.fare, StopWaiting(t, near).fare)
         /\ SameOrder(t, StopWaiting(t, near))
         /\ t.fare = None => StopWaiting(t, near).fare = None
<1> DEFINE fee == IF near /\ t.tower # None THEN CalcFee(Elapsed(t.waiting), t.tower) ELSE 0
           c == [active |-> FALSE, since |-> t.waiting.since, fee |-> fee]
           f == IF t.fare = None THEN None ELSE [t.fare EXCEPT !.waitingFee = fee]
           u == [t EXCEPT !.waiting = c, !.fare = f]
<1>1. CASE ~Running(t.waiting)
  BY <1>1, CarriedSelf DEF StopWaiting, SameOrder
<1>2. CASE Running(t.waiting)
  <2>1. t.waiting \in Clocks
    BY <1>2 DEF Running, TowTickets
  <2>2. fee \in Nat
    <3>1. CASE near /\ t.tower # None
      <4>1. t.tower \in Towers
        BY <3>1 DEF TowTickets
      <4> QED
        BY <2>1, <3>1, <4>1, ElapsedIsInt, FeeIsNat
    <3>2. CASE ~(near /\ t.tower # None)
      BY <3>2
    <3> QED
      BY <3>1, <3>2
  <2>3. StopWaiting(t, near) = u
    BY <1>2 DEF StopWaiting
  <2> HIDE DEF fee
  <2>4. c \in Clocks
    BY <2>1, <2>2 DEF Clocks, Amounts
  <2>5. Carried(t.fare, f) /\ f \in Fares \cup {None}
    <3>1. CASE t.fare = None
      BY <3>1 DEF Carried
    <3>2. CASE t.fare # None
      <4>1. t.fare \in Fares /\ fee \in Amounts
        BY <2>2, <3>2 DEF TowTickets, Amounts
      <4>2. PICK g \in Fares : g = t.fare
        BY <4>1
      <4>3. [g EXCEPT !.waitingFee = fee] \in Fares /\ [g EXCEPT !.waitingFee = fee].ceiling = g.ceiling
        BY <4>1 DEF Fares
      <4> QED
        BY <3>2, <4>2, <4>3 DEF Carried
    <3> QED
      BY <3>1, <3>2
  <2>7. t.fare = None => f = None
    OBVIOUS
  <2> HIDE DEF c, f
  <2>6. u \in TowTickets /\ u.fare = f /\ SameOrder(t, u)
    BY <2>4, <2>5 DEF TowTickets, SameOrder
  <2> QED
    BY <2>3, <2>5, <2>6, <2>7
<1>3. QED
  BY <1>1, <1>2

LEMMA TrackedIsNat == \A k \in Tracked : k \in Nat
BY RatesAssumption

LEMMA FreezeTyped ==
  ASSUME NEW t \in TowTickets, NEW km \in Frozen
  PROVE  /\ FreezeTowLeg(t, km) \in TowTickets /\ FreezeTowLeg(t, km).trail \in Nat
         /\ FreezeTowLeg(t, km).fare = t.fare /\ FreezeTowLeg(t, km).cap = t.cap
         /\ FreezeTowLeg(t, km).history = t.history /\ FreezeTowLeg(t, km).status = t.status
         /\ FreezeTowLeg(t, km).tower = t.tower
<1>1. km \in Nat
  BY TrackedIsNat DEF Frozen
<1>2. t.trail + km \in Nat /\ t.refused \cup ({t.dest} \cap Shops) \in SUBSET DropOffs
  BY <1>1 DEF TowTickets, DropOffs
<1>3. QED
  BY <1>2 DEF FreezeTowLeg, TowTickets

\* The price as it stands is within what the rider was promised, and what a next tower
\* would be held to is no more.
Priced(t, p) ==
  /\ t.fare = None => t.cap = None /\ Total(t.history) = 0 /\ p = None
  /\ t.fare # None =>
       t.fare.ceiling + Total(t.history) <= Most(OrZero(p), Total(t.history))
  /\ t.cap # None => Most(0, t.cap - Total(t.history)) <= t.fare.ceiling
Remembers(t, q) == q # None /\ q.fare # None => t.fare # None /\ q.fare.ceiling = t.fare.ceiling
Paid(t) == t.fare # None => /\ t.fare.final \in Nat /\ t.fare.final <= t.fare.ceiling
                            /\ ~t.fare.partial /\ t.fare.waitingFee = None
Driven(t) == t.status \in {"MATCHED", "ARRIVED"} => t.tower \in Towers
PriceInv ==
  /\ FareTyped /\ Driven(ticket) /\ Priced(ticket, promised) /\ Remembers(ticket, ping)
  /\ Delivered => ping = None /\ Paid(ticket)
NoHigher(t, u) == t.fare # None => u.fare # None /\ u.fare.ceiling <= t.fare.ceiling
Held == PriceInv' /\ NoHigher(ticket, ticket')

LEMMA NoFareApart == None \notin Nat /\ None \notin Fares
BY RatesAssumption

LEMMA CarriedStays ==
  ASSUME NEW t \in TowTickets, NEW u \in TowTickets, NEW p \in Amounts,
         Priced(t, p), Carried(t.fare, u.fare), u.cap = t.cap, u.history = t.history
  PROVE  /\ Priced(u, p) /\ NoHigher(t, u)
         /\ \A q \in Pings \cup {None} : Remembers(t, q) => Remembers(u, q)
<1> DEFINE T == Total(t.history)
<1>1. T \in Nat
  BY CapTyped
<1>2. t.fare # None => t.fare.ceiling \in Nat
  BY DEF TowTickets, Fares
<1>3. Total(u.history) = T
  OBVIOUS
<1> HIDE DEF T
<1>4. CASE t.fare = None /\ u.fare = None
  BY <1>3, <1>4 DEF Priced, NoHigher, Remembers, T
<1>5. CASE u.fare \in Fares /\ t.fare = None
  <2>1. u.fare # None /\ u.fare.ceiling = 0
    BY <1>5, NoFareApart DEF Carried
  <2>2. T = 0 /\ p = None /\ u.cap = None
    BY <1>5 DEF Priced, T
  <2> QED
    BY <1>3, <1>5, <2>1, <2>2 DEF Priced, NoHigher, Remembers, Most, OrZero
<1>6. CASE u.fare \in Fares /\ t.fare # None
  <2>1. u.fare # None /\ u.fare.ceiling = t.fare.ceiling
    BY <1>6, NoFareApart DEF Carried
  <2>2. t.fare.ceiling + T <= Most(OrZero(p), T) /\ (t.cap # None => Most(0, t.cap - T) <= t.fare.ceiling)
    BY <1>6 DEF Priced, T
  <2> QED
    BY <1>2, <1>3, <1>6, <2>1, <2>2 DEF Priced, NoHigher, Remembers
<1>7. QED
  BY <1>4, <1>5, <1>6 DEF Carried

\* A step that carries the price over.
LEMMA CarryStep ==
  ASSUME PriceInv, NEW u \in TowTickets, ticket' = u, Carried(ticket.fare, u.fare),
         u.cap = ticket.cap, u.history = ticket.history, u.status # "RESOLVED", Driven(u),
         promised' = promised, now' \in Nat, ping' = ping \/ ping' = None
  PROVE  Held
<1>1. ticket \in TowTickets /\ promised \in Amounts /\ ping \in Pings \cup {None}
  BY DEF PriceInv, FareTyped
<1>2. /\ Priced(u, promised) /\ NoHigher(ticket, u) /\ Remembers(u, ping')
  BY <1>1, CarriedStays DEF PriceInv, Remembers
<1>3. FareTyped'
  BY <1>1 DEF FareTyped
<1>4. QED
  BY <1>2, <1>3 DEF Held, PriceInv, Delivered

LEMMA InitFare == FareInit => PriceInv
<1> SUFFICES ASSUME FareInit PROVE PriceInv
  OBVIOUS
<1>1. PICK d \in DropOffs :
       ticket = [status |-> "PENDING", tower |-> None, loaded |-> FALSE, dest |-> d,
                 refused |-> {}, fare |-> None, cap |-> None, history |-> <<>>, trail |-> 0,
                 waiting |-> None, cancelledBy |-> None]
  BY DEF FareInit
<1>2. FareTyped
  BY <1>1 DEF FareInit, FareTyped, TowTickets, Amounts
<1>3. Priced(ticket, promised)
  BY <1>1, TotalOfNothing DEF FareInit, Priced
<1>4. QED
  BY <1>1, <1>2, <1>3 DEF FareInit, PriceInv, Remembers, Delivered, Driven

LEMMA TickHeld == PriceInv /\ Tick => Held
<1> SUFFICES ASSUME PriceInv, Tick PROVE Held
  OBVIOUS
<1>1. ticket \in TowTickets /\ now' \in Nat
  BY RatesAssumption DEF PriceInv, FareTyped, Tick
<1>2. QED
  BY <1>1, CarryStep, CarriedSelf DEF PriceInv, Tick, history

LEMMA PingReadHeld == PriceInv /\ PingRead => Held
<1> SUFFICES ASSUME PriceInv, PingRead PROVE Held
  OBVIOUS
<1>1. ticket \in TowTickets /\ now \in Nat /\ promised \in Amounts
  BY DEF PriceInv, FareTyped
<1>2. PICK near \in BOOLEAN :
       LET fee == IF near THEN CalcFee(Elapsed(ticket.waiting), ticket.tower)
                  ELSE OrZero(ticket.waiting.fee)
       IN ping' = [waiting |-> [ticket.waiting EXCEPT !.fee = fee],
                   fare |-> IF ticket.fare = None THEN None
                            ELSE [ticket.fare EXCEPT !.waitingFee = fee]]
  BY DEF PingRead
<1> DEFINE fee == IF near THEN CalcFee(Elapsed(ticket.waiting), ticket.tower)
                  ELSE OrZero(ticket.waiting.fee)
           c == [ticket.waiting EXCEPT !.fee = fee]
           f == IF ticket.fare = None THEN None ELSE [ticket.fare EXCEPT !.waitingFee = fee]
<1>3. ticket.waiting \in Clocks /\ ticket.tower \in Towers /\ ~Delivered
  BY <1>1 DEF PingRead, Underway, Running, TowTickets, Delivered
<1>4. fee \in Nat
  <2>1. OrZero(ticket.waiting.fee) \in Nat
    BY <1>3 DEF Clocks, Amounts, OrZero
  <2> QED
    BY <1>1, <1>3, <2>1, ElapsedIsInt, FeeIsNat
<1> HIDE DEF fee
<1>5. c \in Clocks
  <2>1. PICK k \in Clocks : k = ticket.waiting
    BY <1>3
  <2>2. [k EXCEPT !.fee = fee] \in Clocks
    BY <1>4 DEF Clocks, Amounts
  <2> QED
    BY <2>1, <2>2
<1>6. f \in Fares \cup {None} /\ (f # None => ticket.fare # None /\ f.ceiling = ticket.fare.ceiling)
  <2>1. CASE ticket.fare = None
    BY <2>1
  <2>2. CASE ticket.fare # None
    <3>1. PICK g \in Fares : g = ticket.fare
      BY <1>1, <2>2 DEF TowTickets
    <3>2. fee \in Amounts
      BY <1>4 DEF Amounts
    <3>3. [g EXCEPT !.waitingFee = fee] \in Fares /\ [g EXCEPT !.waitingFee = fee].ceiling = g.ceiling
      BY <3>2 DEF Fares
    <3> QED
      BY <2>2, <3>1, <3>3
  <2> QED
    BY <2>1, <2>2
<1>7. ping' = [waiting |-> c, fare |-> f] /\ ticket' = ticket /\ now' = now /\ promised' = promised
  BY <1>2 DEF fee, PingRead, history
<1> HIDE DEF c, f
<1>8. FareTyped'
  BY <1>1, <1>5, <1>6, <1>7 DEF FareTyped, Pings
<1>9. Remembers(ticket, ping')
  BY <1>6, <1>7 DEF Remembers
<1>10. Priced(ticket, promised)
  BY DEF PriceInv
<1>11. NoHigher(ticket, ticket)
  BY <1>1 DEF NoHigher, TowTickets, Fares
<1>12. QED
  BY <1>3, <1>7, <1>8, <1>9, <1>10, <1>11 DEF Held, PriceInv, Delivered

LEMMA PingWriteHeld == PriceInv /\ PingWrite => Held
<1> SUFFICES ASSUME PriceInv, PingWrite PROVE Held
  OBVIOUS
<1>1. /\ ticket \in TowTickets /\ ping \in Pings /\ now \in Nat /\ ticket.status # "RESOLVED"
      /\ Remembers(ticket, ping)
  BY DEF PriceInv, FareTyped, PingWrite, Delivered
<1> DEFINE f == IF ping.fare = None THEN ticket.fare ELSE ping.fare
           u == [ticket EXCEPT !.waiting = ping.waiting, !.fare = f]
<1>2. ticket' = u
  BY DEF PingWrite
<1>3. ping.waiting \in Clocks /\ f \in Fares \cup {None} /\ Carried(ticket.fare, f)
  <2>1. ping.waiting \in Clocks /\ ping.fare \in Fares \cup {None} /\ ticket.fare \in Fares \cup {None}
    BY <1>1 DEF Pings, TowTickets
  <2>2. ping.fare # None => ticket.fare # None /\ ping.fare.ceiling = ticket.fare.ceiling
    BY <1>1 DEF PingWrite, Remembers
  <2> QED
    BY <1>1, <2>1, <2>2, CarriedSelf DEF Carried
<1> HIDE DEF f
<1>4. /\ u \in TowTickets /\ u.fare = f /\ u.cap = ticket.cap /\ u.history = ticket.history
      /\ u.status = ticket.status /\ Driven(u)
  BY <1>1, <1>3 DEF TowTickets, PriceInv, Driven
<1>5. ping' = None /\ now' = now /\ promised' = promised
  BY DEF PingWrite, history
<1> HIDE DEF u
<1>6. QED
  BY <1>1, <1>2, <1>3, <1>4, <1>5, CarryStep

\* A step that stamps a price, under what is left of the ceiling there was.
LEMMA StampStep ==
  ASSUME PriceInv, NEW u \in TowTickets, ticket' = u, u.fare \in Fares,
         u.cap = ticket.cap, u.history = ticket.history, u.status # "RESOLVED", Driven(u),
         promised' = OrElse(promised, u.fare.ceiling), now' \in Nat, ping' = ping,
         ticket.fare # None =>
           /\ u.fare.ceiling <= ticket.fare.ceiling
           /\ u.cap # None => Most(0, u.cap - Total(u.history)) <= u.fare.ceiling
           /\ ping # None => u.fare.ceiling = ticket.fare.ceiling
  PROVE  Held
<1> DEFINE T == Total(ticket.history)
           c == u.fare.ceiling
<1>1. ticket \in TowTickets /\ promised \in Amounts /\ ping \in Pings \cup {None}
  BY DEF PriceInv, FareTyped
<1>2. T \in Nat /\ Total(u.history) = T
  BY <1>1, CapTyped
<1>3. c \in Nat /\ u.fare # None /\ (ticket.fare # None => ticket.fare.ceiling \in Nat)
  BY <1>1, NoFareApart DEF TowTickets, Fares
<1>4. promised' = OrElse(promised, c) /\ promised' \in Nat
  BY <1>1, <1>3, NoFareApart DEF OrElse, Amounts
<1> HIDE DEF T, c
<1>5. CASE ticket.fare = None
  <2>1. T = 0 /\ promised = None /\ u.cap = None
    BY <1>5 DEF PriceInv, Priced, T
  <2>2. Priced(u, promised')
    BY <1>2, <1>3, <1>4, <2>1, NoFareApart DEF Priced, Most, OrZero, OrElse, c
  <2>3. Remembers(u, ping')
    BY <1>5 DEF PriceInv, Remembers
  <2>4. NoHigher(ticket, u)
    BY <1>5 DEF NoHigher
  <2> QED
    BY <1>1, <1>4, <2>2, <2>3, <2>4 DEF Held, PriceInv, FareTyped, Delivered, Amounts
<1>6. CASE ticket.fare # None
  <2>1. ticket.fare.ceiling + T <= Most(OrZero(promised), T)
    BY <1>6 DEF PriceInv, Priced, T
  <2>2. c <= ticket.fare.ceiling /\ (u.cap # None => Most(0, u.cap - T) <= c)
    BY <1>2, <1>6 DEF c
  <2>3. c + T <= Most(OrZero(promised'), T)
    BY <1>1, <1>2, <1>3, <1>4, <1>6, <2>1, <2>2, NoFareApart DEF OrZero, OrElse, Most, Amounts
  <2>4. Priced(u, promised')
    BY <1>2, <1>3, <2>2, <2>3 DEF Priced, c
  <2>5. Remembers(u, ping')
    BY <1>3, <1>6 DEF PriceInv, Remembers
  <2>6. NoHigher(ticket, u)
    BY <1>3, <2>2 DEF NoHigher, c
  <2> QED
    BY <1>1, <1>4, <2>4, <2>5, <2>6 DEF Held, PriceInv, FareTyped, Delivered, Amounts
<1>7. QED
  BY <1>5, <1>6

LEMMA AcceptHeld == PriceInv /\ Accept => Held
<1> SUFFICES ASSUME PriceInv, Accept PROVE Held
  OBVIOUS
<1>1. /\ ticket \in TowTickets /\ now \in Nat /\ promised \in Amounts
      /\ Priced(ticket, promised)
  BY DEF PriceInv, FareTyped
<1>2. PICK w \in Towers, deadhead \in Approach, stamped \in BOOLEAN :
    /\ ticket.status = "PENDING" /\ ping = None
    /\ LET claimed == [ticket EXCEPT !.status = "MATCHED", !.tower = w, !.cancelledBy = None]
           fare == StampTowFare(claimed, w, deadhead)
       IN /\ ticket' = IF stamped THEN [claimed EXCEPT !.fare = fare] ELSE claimed
          /\ promised' = IF stamped /\ promised = None THEN fare.ceiling ELSE promised
    /\ UNCHANGED <<ping, now, leg>>
  BY DEF Accept
<1> DEFINE claimed == [ticket EXCEPT !.status = "MATCHED", !.tower = w, !.cancelledBy = None]
           fare == StampTowFare(claimed, w, deadhead)
<1>3. /\ claimed \in TowTickets /\ claimed.fare = ticket.fare /\ claimed.cap = ticket.cap
      /\ claimed.history = ticket.history /\ claimed.status = "MATCHED" /\ Driven(claimed)
  BY <1>1 DEF TowTickets, Driven
<1> HIDE DEF claimed
<1>4. deadhead \in Nat
  BY RatesAssumption
<1>5. fare \in Fares /\ (CapOf(claimed) # None => fare.ceiling = CapOf(claimed))
  BY <1>3, <1>4, StampTyped
<1> HIDE DEF fare
<1>6. CASE ~stamped
  <2>1. ticket' = claimed /\ promised' = promised /\ ping' = ping /\ now' = now
    BY <1>2, <1>6 DEF claimed
  <2> QED
    BY <1>1, <1>3, <2>1, CarriedSelf, CarryStep
<1>7. CASE stamped
  <2> DEFINE u == [claimed EXCEPT !.fare = fare]
  <2>1. /\ u \in TowTickets /\ u.fare = fare /\ u.cap = ticket.cap /\ u.history = ticket.history
        /\ u.status = "MATCHED" /\ Driven(u)
    BY <1>3, <1>5 DEF TowTickets, Driven
  <2>2. ticket' = u /\ promised' = OrElse(promised, fare.ceiling) /\ ping' = ping /\ now' = now /\ ping = None
    BY <1>2, <1>7 DEF claimed, fare, OrElse
  <2>3. Total(ticket.history) \in Nat /\ ticket.cap \in Amounts
    BY <1>1, CapTyped DEF TowTickets
  <2>4. ASSUME ticket.fare # None
        PROVE  /\ fare.ceiling <= ticket.fare.ceiling
               /\ ticket.cap # None => Most(0, ticket.cap - Total(ticket.history)) <= fare.ceiling
    <3>1. ticket.fare.ceiling \in Nat
      BY <1>1, <2>4 DEF TowTickets, Fares
    <3>2. CASE ticket.cap # None
      <4>1. CapOf(claimed) = Most(0, ticket.cap - Total(ticket.history))
        BY <1>3, <3>2 DEF CapOf
      <4>2. CapOf(claimed) \in Nat
        BY <2>3, <3>2, <4>1 DEF Most, Amounts
      <4>3. fare.ceiling = CapOf(claimed)
        BY <1>5, <4>2, NoFareApart
      <4>4. CapOf(claimed) <= ticket.fare.ceiling
        BY <1>1, <3>2, <4>1 DEF Priced
      <4> QED
        BY <4>1, <4>2, <4>3, <4>4
    <3>3. CASE ticket.cap = None
      <4>1. CapOf(claimed) = ticket.fare.ceiling
        BY <1>3, <2>4, <3>3 DEF CapOf
      <4> QED
        BY <1>5, <3>1, <3>3, <4>1, NoFareApart
    <3> QED
      BY <3>2, <3>3
  <2> HIDE DEF u
  <2> QED
    BY <1>1, <1>5, <2>1, <2>2, <2>4, StampStep
<1>8. QED
  BY <1>6, <1>7

LEMMA ArriveHeld == PriceInv /\ Arrive => Held
<1> SUFFICES ASSUME PriceInv, Arrive PROVE Held
  OBVIOUS
<1>1. ticket \in TowTickets /\ now \in Nat
  BY DEF PriceInv, FareTyped
<1> DEFINE t == [ticket EXCEPT !.status = "ARRIVED"]
<1>2. /\ t \in TowTickets /\ t.fare = ticket.fare /\ t.cap = ticket.cap /\ t.history = ticket.history
      /\ t.status = "ARRIVED" /\ t.tower \in Towers
  BY <1>1 DEF TowTickets, Arrive, PriceInv, Driven
<1>3. ticket' = StartWaiting(t) /\ promised' = promised /\ ping' = ping /\ now' = now
  BY DEF Arrive, history
<1> HIDE DEF t
<1>4. /\ StartWaiting(t) \in TowTickets /\ StartWaiting(t).fare = ticket.fare
      /\ StartWaiting(t).cap = ticket.cap /\ StartWaiting(t).history = ticket.history
      /\ StartWaiting(t).status = "ARRIVED" /\ Driven(StartWaiting(t))
  BY <1>1, <1>2, StartTyped DEF SameOrder, Driven
<1>5. QED
  BY <1>1, <1>3, <1>4, CarriedSelf, CarryStep

LEMMA LoadHeld == PriceInv /\ Load => Held
<1> SUFFICES ASSUME PriceInv, Load PROVE Held
  OBVIOUS
<1>1. ticket \in TowTickets /\ now \in Nat
  BY DEF PriceInv, FareTyped
<1> DEFINE u == [ticket EXCEPT !.loaded = TRUE]
<1>2. /\ u \in TowTickets /\ u.fare = ticket.fare /\ u.cap = ticket.cap /\ u.history = ticket.history
      /\ u.status # "RESOLVED" /\ Driven(u)
  BY <1>1 DEF TowTickets, Load, PriceInv, Driven
<1>3. ticket' = u /\ promised' = promised /\ ping' = ping /\ now' = now
  BY DEF Load, history
<1> HIDE DEF u
<1>4. QED
  BY <1>1, <1>2, <1>3, CarriedSelf, CarryStep

LEMMA ChangeHeld == PriceInv /\ ChangeDestination => Held
<1> SUFFICES ASSUME PriceInv, ChangeDestination PROVE Held
  OBVIOUS
<1>1. ticket \in TowTickets /\ now \in Nat /\ promised \in Amounts /\ Priced(ticket, promised)
  BY DEF PriceInv, FareTyped
<1>2. PICK d \in DropOffs \ ticket.refused, near \in WithinRange, deadhead \in Approach,
           stamped \in IF Underway THEN BOOLEAN ELSE {FALSE} :
    /\ ticket.status \in {"PENDING", "MATCHED", "ARRIVED"}
    /\ LET moved == StopWaiting([ticket EXCEPT !.dest = d], near)
           seen == [ticket EXCEPT !.dest = d, !.cap = None, !.history = <<>>]
           fare == StampTowFare(seen, ticket.tower, deadhead)
       IN IF Underway /\ stamped
          THEN /\ ticket' = [moved EXCEPT !.fare = fare]
               /\ promised' = OrElse(promised, fare.ceiling)
          ELSE ticket' = moved /\ UNCHANGED promised
    /\ UNCHANGED <<ping, now, accepted, leg>>
  BY DEF ChangeDestination
<1> DEFINE t == [ticket EXCEPT !.dest = d]
           moved == StopWaiting(t, near)
           seen == [ticket EXCEPT !.dest = d, !.cap = None, !.history = <<>>]
           fare == StampTowFare(seen, ticket.tower, deadhead)
<1>3. /\ t \in TowTickets /\ t.fare = ticket.fare /\ t.cap = ticket.cap /\ t.history = ticket.history
      /\ t.status = ticket.status /\ t.tower = ticket.tower
  BY <1>1 DEF TowTickets
<1>4. near \in BOOLEAN
  BY DEF WithinRange
<1> HIDE DEF t
<1>5. /\ moved \in TowTickets /\ Carried(ticket.fare, moved.fare) /\ moved.cap = ticket.cap
      /\ moved.history = ticket.history /\ moved.status # "RESOLVED" /\ Driven(moved)
  BY <1>1, <1>2, <1>3, <1>4, StopTyped DEF SameOrder, PriceInv, Driven
<1>6. ping' = ping /\ now' = now
  BY <1>2
<1>7. CASE ~(Underway /\ stamped)
  <2>1. ticket' = moved /\ promised' = promised
    BY <1>2, <1>7 DEF t
  <2> HIDE DEF moved
  <2> QED
    BY <1>1, <1>5, <1>6, <2>1, CarryStep
<1>8. CASE Underway /\ stamped
  <2>1. ticket.tower \in Towers /\ deadhead \in Nat
    BY <1>1, <1>8, RatesAssumption DEF Underway, TowTickets
  <2>2. seen \in TowTickets /\ seen.fare = ticket.fare /\ seen.cap = None
    <3>1. <<>> \in Seq(Nat) /\ None \in Amounts
      BY DEF Amounts
    <3> QED
      BY <1>1, <3>1 DEF TowTickets
  <2>3. ticket' = [moved EXCEPT !.fare = fare] /\ promised' = OrElse(promised, fare.ceiling)
    BY <1>2, <1>8 DEF t
  <2> HIDE DEF seen
  <2>4. fare \in Fares /\ (CapOf(seen) # None => fare.ceiling = CapOf(seen))
    BY <2>1, <2>2, StampTyped
  <2> HIDE DEF fare, moved
  <2> DEFINE u == [moved EXCEPT !.fare = fare]
  <2>5. /\ u \in TowTickets /\ u.fare = fare /\ u.cap = ticket.cap /\ u.history = ticket.history
        /\ u.status # "RESOLVED" /\ Driven(u)
    BY <1>5, <2>4 DEF TowTickets, Driven
  <2>6. ASSUME ticket.fare # None
        PROVE  /\ fare.ceiling = ticket.fare.ceiling /\ ticket.fare.ceiling \in Nat
               /\ ticket.cap # None => Most(0, ticket.cap - Total(ticket.history)) <= ticket.fare.ceiling
    <3>1. ticket.fare.ceiling \in Nat
      BY <1>1, <2>6 DEF TowTickets, Fares
    <3>2. CapOf(seen) = ticket.fare.ceiling
      BY <2>2, <2>6 DEF CapOf
    <3> QED
      BY <1>1, <2>4, <3>1, <3>2, NoFareApart DEF Priced
  <2> HIDE DEF u
  <2>7. ticket' = u
    BY <2>3 DEF u
  <2> QED
    BY <1>1, <1>6, <2>3, <2>4, <2>5, <2>6, <2>7, StampStep
<1>9. QED
  BY <1>7, <1>8

LEMMA DeclineHeld == PriceInv /\ DeclineDestination => Held
<1> SUFFICES ASSUME PriceInv, DeclineDestination PROVE Held
  OBVIOUS
<1>1. ticket \in TowTickets /\ now \in Nat
  BY DEF PriceInv, FareTyped
<1> DEFINE frozen == FreezeTowLeg(ticket, 0)
           left == [frozen EXCEPT !.dest = None]
<1>2. /\ frozen \in TowTickets /\ frozen.fare = ticket.fare /\ frozen.cap = ticket.cap
      /\ frozen.history = ticket.history /\ frozen.status = ticket.status
      /\ frozen.tower = ticket.tower
  BY <1>1, FreezeTyped DEF Frozen
<1>3. /\ ticket' = IF ticket.tower # None THEN StartWaiting(left) ELSE left
      /\ promised' = promised /\ ping' = ping /\ now' = now /\ ticket.status # "RESOLVED"
  BY DEF DeclineDestination
<1> HIDE DEF frozen
<1>4. /\ left \in TowTickets /\ left.fare = ticket.fare /\ left.cap = ticket.cap
      /\ left.history = ticket.history /\ left.status # "RESOLVED" /\ Driven(left)
  BY <1>2, <1>3 DEF TowTickets, PriceInv, Driven
<1> HIDE DEF left
<1>5. /\ StartWaiting(left) \in TowTickets /\ StartWaiting(left).fare = ticket.fare
      /\ StartWaiting(left).cap = ticket.cap /\ StartWaiting(left).history = ticket.history
      /\ StartWaiting(left).status # "RESOLVED" /\ Driven(StartWaiting(left))
  BY <1>1, <1>4, StartTyped DEF SameOrder, Driven
<1>6. PICK u \in TowTickets : /\ ticket' = u /\ u.fare = ticket.fare /\ u.cap = ticket.cap
                              /\ u.history = ticket.history /\ u.status # "RESOLVED" /\ Driven(u)
  BY <1>3, <1>4, <1>5
<1>7. QED
  BY <1>1, <1>3, <1>6, CarriedSelf, CarryStep

LEMMA GiveUpHeld == PriceInv /\ GiveUp => Held
<1> SUFFICES ASSUME PriceInv, GiveUp PROVE Held
  OBVIOUS
<1>1. ticket \in TowTickets /\ now \in Nat
  BY DEF PriceInv, FareTyped
<1>2. PICK km \in Frozen :
    /\ Underway
    /\ LET frozen == FreezeTowLeg(ticket, km)
           final == PartialTowFare(ticket, TowRatesForProvider(ticket.tower), frozen.trail)
       IN ticket' = [frozen EXCEPT !.fare = PartialFare(ticket, final, frozen.trail),
                                   !.status = "PENDING", !.tower = None,
                                   !.cancelledBy = ticket.tower]
    /\ UNCHANGED <<ping, now, accepted, promised>>
  BY DEF GiveUp
<1> DEFINE frozen == FreezeTowLeg(ticket, km)
           final == PartialTowFare(ticket, TowRatesForProvider(ticket.tower), frozen.trail)
           f == PartialFare(ticket, final, frozen.trail)
<1>3. /\ frozen \in TowTickets /\ frozen.trail \in Nat /\ frozen.cap = ticket.cap
      /\ frozen.history = ticket.history
  BY <1>1, FreezeTyped
<1>4. ticket.tower \in Towers
  BY <1>1, <1>2 DEF Underway, TowTickets
<1>5. TowRatesForProvider(ticket.tower) \in RateCards
  BY <1>4, RatesTyped
<1>6. final \in Amounts
  BY <1>1, <1>3, <1>5, PartialTyped DEF Amounts
<1> HIDE DEF final
<1>7. f \in Fares /\ f.ceiling = IF ticket.fare = None THEN 0 ELSE ticket.fare.ceiling
  BY <1>1, <1>3, <1>6, PartialFareTyped
<1>8. ticket' = [frozen EXCEPT !.fare = f, !.status = "PENDING", !.tower = None, !.cancelledBy = ticket.tower]
  BY <1>2 DEF final
<1> DEFINE u == [frozen EXCEPT !.fare = f, !.status = "PENDING", !.tower = None, !.cancelledBy = ticket.tower]
<1>9. ticket' = u
  BY <1>8
<1> HIDE DEF f, frozen
<1>10. /\ u \in TowTickets /\ u.fare = f /\ u.cap = ticket.cap
       /\ u.history = ticket.history /\ u.status = "PENDING" /\ Driven(u)
  BY <1>3, <1>4, <1>7 DEF TowTickets, Driven
<1> HIDE DEF u
<1>11. Carried(ticket.fare, u.fare)
  BY <1>7, <1>10 DEF Carried
<1>12. QED
  BY <1>1, <1>2, <1>9, <1>10, <1>11, CarryStep

LEMMA RematchHeld == PriceInv /\ Rematch => Held
<1> SUFFICES ASSUME PriceInv, Rematch PROVE Held
  OBVIOUS
<1>1. ticket \in TowTickets /\ now \in Nat
  BY DEF PriceInv, FareTyped
<1>2. PICK km \in Frozen :
    /\ LET frozen == FreezeTowLeg(ticket, km)
           final == PartialTowFare(ticket, Platform, frozen.trail)
       IN ticket' = StopWaiting([frozen EXCEPT !.fare = PartialFare(ticket, final, frozen.trail),
                                               !.status = "PENDING", !.tower = None,
                                               !.loaded = FALSE], FALSE)
    /\ UNCHANGED <<ping, now, accepted, promised>>
  BY DEF Rematch
<1> DEFINE frozen == FreezeTowLeg(ticket, km)
           final == PartialTowFare(ticket, Platform, frozen.trail)
           f == PartialFare(ticket, final, frozen.trail)
           v == [frozen EXCEPT !.fare = f, !.status = "PENDING", !.tower = None, !.loaded = FALSE]
<1>3. /\ frozen \in TowTickets /\ frozen.trail \in Nat /\ frozen.cap = ticket.cap
      /\ frozen.history = ticket.history
  BY <1>1, FreezeTyped
<1>4. final \in Amounts
  BY <1>1, <1>3, PlatformTyped, PartialTyped DEF Amounts
<1> HIDE DEF final
<1>5. f \in Fares /\ f.ceiling = IF ticket.fare = None THEN 0 ELSE ticket.fare.ceiling
  BY <1>1, <1>3, <1>4, PartialFareTyped
<1>6. ticket' = StopWaiting(v, FALSE)
  BY <1>2 DEF final
<1> HIDE DEF f, frozen
<1>7. v \in TowTickets /\ v.fare = f /\ v.cap = ticket.cap /\ v.history = ticket.history /\ v.status = "PENDING"
  BY <1>3, <1>5 DEF TowTickets
<1> HIDE DEF v
<1> DEFINE u == StopWaiting(v, FALSE)
<1>8. /\ u \in TowTickets /\ Carried(f, u.fare) /\ u.cap = ticket.cap
      /\ u.history = ticket.history /\ u.status = "PENDING" /\ Driven(u)
  BY <1>1, <1>7, StopTyped DEF SameOrder, Driven
<1> HIDE DEF u
<1>9. ticket' = u
  BY <1>6 DEF u
<1>10. Carried(ticket.fare, u.fare)
  BY <1>5, <1>8, NoFareApart DEF Carried
<1>11. QED
  BY <1>1, <1>2, <1>8, <1>9, <1>10, CarryStep

LEMMA CancelHeld == PriceInv /\ Cancel => Held
<1> SUFFICES ASSUME PriceInv, Cancel PROVE Held
  OBVIOUS
<1>1. ticket \in TowTickets /\ now \in Nat
  BY DEF PriceInv, FareTyped
<1>2. PICK by \in {"rider", "admin"}, near \in WithinRange, km \in IF Underway THEN Frozen ELSE {0} :
    /\ ping = None
    /\ ticket.status \in {"PENDING", "MATCHED", "ARRIVED"}
    /\ LET stopped == StopWaiting(ticket, near)
           frozen == FreezeTowLeg(stopped, km)
           final == PartialTowFare(ticket, TowRatesForProvider(ticket.tower), frozen.trail)
           closed == IF ~Underway THEN stopped
                     ELSE [frozen EXCEPT !.fare = PartialFare(stopped, final, frozen.trail)]
       IN ticket' = [closed EXCEPT !.status = "CANCELLED",
                                   !.cancelledBy = IF ~Underway /\ @ # None THEN @ ELSE by]
    /\ leg' = IF Underway THEN km ELSE leg
    /\ UNCHANGED <<ping, now, accepted, promised>>
  BY Zenon DEF Cancel
<1> DEFINE stopped == StopWaiting(ticket, near)
           frozen == FreezeTowLeg(stopped, km)
           final == PartialTowFare(ticket, TowRatesForProvider(ticket.tower), frozen.trail)
           f == PartialFare(stopped, final, frozen.trail)
           closed == IF ~Underway THEN stopped ELSE [frozen EXCEPT !.fare = f]
<1>3. near \in BOOLEAN /\ km \in Frozen
  BY DEF WithinRange, Frozen
<1>4. /\ stopped \in TowTickets /\ Carried(ticket.fare, stopped.fare) /\ stopped.cap = ticket.cap
      /\ stopped.history = ticket.history
  BY <1>1, <1>3, StopTyped DEF SameOrder
<1>5. /\ ticket' = [closed EXCEPT !.status = "CANCELLED",
                                  !.cancelledBy = IF ~Underway /\ @ # None THEN @ ELSE by]
      /\ ping' = ping /\ now' = now /\ promised' = promised
  BY <1>2
<1> HIDE DEF stopped
<1>6. /\ closed \in TowTickets /\ Carried(ticket.fare, closed.fare) /\ closed.cap = ticket.cap
      /\ closed.history = ticket.history
  <2>1. CASE ~Underway
    BY <1>4, <2>1
  <2>2. CASE Underway
    <3>1. /\ frozen \in TowTickets /\ frozen.trail \in Nat /\ frozen.cap = ticket.cap
          /\ frozen.history = ticket.history
      BY <1>3, <1>4, FreezeTyped
    <3>2. ticket.tower \in Towers
      BY <1>1, <2>2 DEF Underway, TowTickets
    <3>3. final \in Amounts
      BY <1>1, <3>1, <3>2, RatesTyped, PartialTyped DEF Amounts
    <3> HIDE DEF final, frozen
    <3>4. f \in Fares /\ f.ceiling = IF stopped.fare = None THEN 0 ELSE stopped.fare.ceiling
      BY <1>4, <3>1, <3>3, PartialFareTyped
    <3>5. Carried(ticket.fare, f)
      BY <1>4, <3>4, NoFareApart DEF Carried
    <3> HIDE DEF f
    <3>6. closed = [frozen EXCEPT !.fare = f]
      BY <2>2
    <3> HIDE DEF closed
    <3> QED
      BY <3>1, <3>4, <3>5, <3>6 DEF TowTickets
  <2> QED
    BY <2>1, <2>2
<1> HIDE DEF closed
<1>7. PICK by2 \in Towers \cup {None, "rider", "admin"} :
        ticket' = [closed EXCEPT !.status = "CANCELLED", !.cancelledBy = by2]
  BY <1>5, <1>6 DEF TowTickets
<1> DEFINE u == [closed EXCEPT !.status = "CANCELLED", !.cancelledBy = by2]
<1>8. u \in TowTickets /\ u.status = "CANCELLED"
  BY <1>6 DEF TowTickets
<1>11. u.fare = closed.fare /\ u.cap = closed.cap /\ u.history = closed.history
  BY <1>6 DEF TowTickets
<1> HIDE DEF u
<1>12. Driven(u)
  BY <1>8 DEF Driven
<1>9. ticket' = u
  BY <1>7 DEF u
<1>10. QED
  BY <1>1, <1>5, <1>6, <1>8, <1>9, <1>11, <1>12, CarryStep

LEMMA BreakdownHeld == PriceInv /\ Breakdown => Held
<1> SUFFICES ASSUME PriceInv, Breakdown PROVE Held
  OBVIOUS
<1>1. ticket \in TowTickets /\ now \in Nat /\ promised \in Amounts /\ Priced(ticket, promised)
  BY DEF PriceInv, FareTyped
<1>2. PICK km \in Frozen, loadedKm \in TrackedLoaded :
    /\ ping = None
    /\ LET frozen == FreezeTowLeg(ticket, km)
           owed == PartialTowFare(ticket, Platform, frozen.trail + loadedKm)
           ceiling == IF ticket.fare = None THEN 0 ELSE ticket.fare.ceiling
           fare == [PartialFare(ticket, None, 0) EXCEPT
                      !.estimate = 0, !.ceiling = Most(0, ceiling - owed),
                      !.loaded = 0, !.partial = FALSE]
           cap == IF ticket.fare = None THEN ticket.cap ELSE OrElse(ticket.cap, ceiling)
       IN ticket' = StopWaiting([frozen EXCEPT !.fare = fare, !.cap = cap,
                                               !.status = "PENDING", !.tower = None,
                                               !.loaded = FALSE, !.history = Append(@, owed)], FALSE)
    /\ UNCHANGED <<ping, now, accepted, promised>>
  BY DEF Breakdown
<1> DEFINE frozen == FreezeTowLeg(ticket, km)
           owed == PartialTowFare(ticket, Platform, frozen.trail + loadedKm)
           ceiling == IF ticket.fare = None THEN 0 ELSE ticket.fare.ceiling
           part == PartialFare(ticket, None, 0)
           left == Most(0, ceiling - owed)
           fare == [part EXCEPT !.estimate = 0, !.ceiling = left, !.loaded = 0, !.partial = FALSE]
           cap == IF ticket.fare = None THEN ticket.cap ELSE OrElse(ticket.cap, ceiling)
           longer == Append(frozen.history, owed)
           v == [frozen EXCEPT !.fare = fare, !.cap = cap, !.status = "PENDING", !.tower = None,
                               !.loaded = FALSE, !.history = longer]
           u == StopWaiting(v, FALSE)
           T == Total(ticket.history)
<1>3. /\ frozen \in TowTickets /\ frozen.trail \in Nat /\ frozen.cap = ticket.cap
      /\ frozen.history = ticket.history
  BY <1>1, FreezeTyped
<1>4. ticket' = u /\ ping' = ping /\ ping = None /\ now' = now /\ promised' = promised
  BY <1>2
<1>5. loadedKm \in Nat
  BY TrackedIsNat DEF TrackedLoaded
<1> HIDE DEF frozen
<1>6. owed \in Nat
  <2>1. frozen.trail + loadedKm \in Nat
    BY <1>3, <1>5
  <2> QED
    BY <1>1, <2>1, PlatformTyped, PartialTyped
<1>7. ceiling \in Nat /\ cap \in Amounts
  BY <1>1 DEF TowTickets, Fares, OrElse, Amounts
<1>8. left \in Nat
  <2> HIDE DEF owed, ceiling
  <2> QED
    BY <1>6, <1>7 DEF Most
<1>9. fare \in Fares /\ fare.ceiling = left
  <2>1. part \in Fares
    BY <1>1, PartialFareTyped DEF Amounts
  <2> HIDE DEF part, left
  <2> QED
    BY <1>8, <2>1 DEF Fares
<1>10. longer \in Seq(Nat) /\ Total(longer) = T + owed /\ T \in Nat
  <2>1. ticket.history \in Seq(Nat)
    BY <1>1 DEF TowTickets
  <2> HIDE DEF owed
  <2> QED
    BY <1>3, <1>6, <2>1, TotalGrows, TotalIsNat
<1> HIDE DEF owed, ceiling, part, left, fare, cap, longer, T
<1>11. v \in TowTickets /\ v.fare = fare /\ v.cap = cap /\ v.history = longer /\ v.status = "PENDING"
  BY <1>3, <1>7, <1>9, <1>10 DEF TowTickets
<1> HIDE DEF v
<1>12. /\ u \in TowTickets /\ Carried(fare, u.fare) /\ u.cap = cap
       /\ u.history = longer /\ u.status = "PENDING" /\ Driven(u)
  BY <1>1, <1>11, StopTyped DEF SameOrder, Driven
<1> HIDE DEF u
<1>13. u.fare # None /\ u.fare.ceiling = left
  BY <1>9, <1>12, NoFareApart DEF Carried
<1>14. left = Most(0, ceiling - owed)
  BY DEF left
<1>15. CASE ticket.fare = None
  <2>1. T = 0 /\ promised = None /\ cap = None /\ ceiling = 0
    BY <1>1, <1>15 DEF Priced, T, cap, ceiling
  <2>2. Priced(u, promised)
    BY <1>6, <1>10, <1>12, <1>13, <1>14, <2>1 DEF Priced, Most, OrZero
  <2>3. NoHigher(ticket, u)
    BY <1>15 DEF NoHigher
  <2> QED
    BY <1>1, <1>4, <1>12, <2>2, <2>3 DEF Held, PriceInv, FareTyped, Remembers, Delivered
<1>16. CASE ticket.fare # None
  <2>1. /\ ceiling = ticket.fare.ceiling /\ cap = OrElse(ticket.cap, ceiling)
        /\ ceiling + T <= Most(OrZero(promised), T)
        /\ ticket.cap # None => Most(0, ticket.cap - T) <= ceiling
    BY <1>1, <1>16 DEF Priced, T, cap, ceiling
  <2>2. OrZero(promised) \in Nat
    BY <1>1 DEF OrZero, Amounts
  <2>3. left + (T + owed) <= Most(OrZero(promised), T + owed)
    BY <1>6, <1>7, <1>10, <1>14, <2>1, <2>2 DEF Most
  <2>4. cap # None => Most(0, cap - (T + owed)) <= left
    <3>1. ticket.cap \in Amounts
      BY <1>1 DEF TowTickets
    <3>2. CASE ticket.cap = None
      BY <1>6, <1>7, <1>10, <1>14, <2>1, <3>2 DEF Most, OrElse
    <3>3. CASE ticket.cap # None
      <4>1. PICK c \in Nat : c = ticket.cap
        BY <3>1, <3>3 DEF Amounts
      <4>2. cap = c
        BY <2>1, <3>3, <4>1 DEF OrElse
      <4>3. Most(0, c - T) <= ceiling
        BY <2>1, <3>3, <4>1
      <4>4. Most(0, c - (T + owed)) <= left
        BY <1>6, <1>7, <1>10, <1>14, <4>1, <4>3 DEF Most
      <4> QED
        BY <4>2, <4>4
    <3> QED
      BY <3>2, <3>3
  <2>5. Priced(u, promised)
    BY <1>10, <1>12, <1>13, <2>3, <2>4 DEF Priced
  <2>6. NoHigher(ticket, u)
    BY <1>6, <1>7, <1>13, <1>14, <2>1 DEF NoHigher, Most
  <2> QED
    BY <1>1, <1>4, <1>12, <2>5, <2>6 DEF Held, PriceInv, FareTyped, Remembers, Delivered
<1>17. QED
  BY <1>15, <1>16

LEMMA LoadedKmIsNat == ASSUME NEW q \in Nat, NEW km \in LoadedKm(q) PROVE km \in Nat
<1>1. \A k \in Tracked : k \in Nat
  BY TrackedIsNat
<1>2. (q * 115) \div 100 \in Nat
  OBVIOUS
<1>3. QED
  BY <1>1, <1>2 DEF LoadedKm, Least

LEMMA DeliverHeld == PriceInv /\ Deliver => Held
<1> SUFFICES ASSUME PriceInv, Deliver PROVE Held
  OBVIOUS
<1>1. ticket \in TowTickets /\ now \in Nat /\ promised \in Amounts /\ Priced(ticket, promised)
  BY DEF PriceInv, FareTyped
<1>2. PICK near \in WithinRange :
    /\ ticket.status = "ARRIVED" /\ ping = None
    /\ IF ticket.fare = None
       THEN ticket' = [StopWaiting(ticket, near) EXCEPT !.status = "RESOLVED"]
       ELSE \E km \in LoadedKm(ticket.fare.loaded) :
              LET rates == TowRatesForProvider(ticket.tower)
                  fare == QuoteTowFare(rates, ticket.fare.night, ticket.fare.deadhead, km)
              IN ticket' = [StopWaiting(ticket, near) EXCEPT
                              !.status = "RESOLVED",
                              !.fare = [fare EXCEPT !.ceiling = ticket.fare.ceiling,
                                                    !.final = Least(fare.estimate, ticket.fare.ceiling)]]
    /\ UNCHANGED <<ping, now, accepted, promised, leg>>
  BY DEF Deliver, history
<1> DEFINE stopped == StopWaiting(ticket, near)
<1>3. near \in BOOLEAN
  BY DEF WithinRange
<1>4. /\ stopped \in TowTickets /\ Carried(ticket.fare, stopped.fare) /\ stopped.cap = ticket.cap
      /\ stopped.history = ticket.history
      /\ ticket.fare = None => stopped.fare = None
  BY <1>1, <1>3, StopTyped DEF SameOrder
<1>5. ping' = None /\ now' = now /\ promised' = promised
  BY <1>2
<1> HIDE DEF stopped
<1>6. SUFFICES ASSUME NEW u \in TowTickets, ticket' = u, Carried(ticket.fare, u.fare), Paid(u),
                      u.cap = ticket.cap, u.history = ticket.history, u.status = "RESOLVED"
               PROVE  Held
  <2>1. CASE ticket.fare = None
    <3> DEFINE u == [stopped EXCEPT !.status = "RESOLVED"]
    <3>1. ticket' = u
      BY <1>2, <2>1 DEF stopped
    <3>2. /\ u \in TowTickets /\ u.fare = None /\ u.cap = ticket.cap /\ u.history = ticket.history
          /\ u.status = "RESOLVED"
      BY <1>4, <2>1 DEF TowTickets
    <3> HIDE DEF u
    <3> QED
      BY <1>6, <2>1, <3>1, <3>2 DEF Carried, Paid
  <2>2. CASE ticket.fare # None
    <3>1. ticket.fare \in Fares /\ ticket.tower \in Towers
      BY <1>1, <1>2, <2>2 DEF TowTickets, PriceInv, Driven
    <3>2. /\ ticket.fare.ceiling \in Nat /\ ticket.fare.loaded \in Nat /\ ticket.fare.night \in BOOLEAN
          /\ ticket.fare.deadhead \in Nat
      BY <3>1 DEF Fares
    <3>3. PICK km \in LoadedKm(ticket.fare.loaded) :
            ticket' = [stopped EXCEPT !.status = "RESOLVED",
                         !.fare = [QuoteTowFare(TowRatesForProvider(ticket.tower), ticket.fare.night, ticket.fare.deadhead, km)
                                     EXCEPT !.ceiling = ticket.fare.ceiling,
                                            !.final = Least(QuoteTowFare(TowRatesForProvider(ticket.tower), ticket.fare.night, ticket.fare.deadhead, km).estimate, ticket.fare.ceiling)]]
      BY <1>2, <2>2 DEF stopped
    <3> DEFINE q == QuoteTowFare(TowRatesForProvider(ticket.tower), ticket.fare.night, ticket.fare.deadhead, km)
               final == Least(q.estimate, ticket.fare.ceiling)
               f == [q EXCEPT !.ceiling = ticket.fare.ceiling, !.final = final]
               u == [stopped EXCEPT !.status = "RESOLVED", !.fare = f]
    <3>4. km \in Nat
      BY <3>2, LoadedKmIsNat
    <3>5. q \in Fares /\ q.partial = FALSE /\ q.waitingFee = None
      BY <3>1, <3>2, <3>4, RatesTyped, QuoteTyped
    <3>6. ticket' = u
      BY <3>3
    <3> HIDE DEF q
    <3>7. final \in Nat /\ final <= ticket.fare.ceiling
      BY <3>2, <3>5 DEF Fares, Least
    <3> HIDE DEF final
    <3>8. final \in Amounts
      BY <3>7 DEF Amounts
    <3>9. /\ f \in Fares /\ f.ceiling = ticket.fare.ceiling /\ f.final = final /\ f.partial = FALSE
          /\ f.waitingFee = None
      BY <3>2, <3>5, <3>8 DEF Fares
    <3> HIDE DEF f
    <3>10. /\ u \in TowTickets /\ u.fare = f /\ u.cap = ticket.cap /\ u.history = ticket.history
           /\ u.status = "RESOLVED"
      BY <1>4, <3>9 DEF TowTickets
    <3> HIDE DEF u
    <3> QED
      BY <1>6, <2>2, <3>6, <3>7, <3>9, <3>10 DEF Carried, Paid
  <2> QED
    BY <2>1, <2>2
<1>7. Priced(u, promised) /\ NoHigher(ticket, u)
  BY <1>1, <1>6, CarriedStays
<1>8. FareTyped' /\ Driven(u)
  BY <1>1, <1>5, <1>6 DEF FareTyped, Driven
<1>9. QED
  BY <1>5, <1>6, <1>7, <1>8 DEF Held, PriceInv, Remembers

LEMMA SameFare == PriceInv /\ UNCHANGED fareVars => Held
<1> SUFFICES ASSUME PriceInv, UNCHANGED fareVars PROVE Held
  OBVIOUS
<1>1. NoHigher(ticket, ticket)
  BY DEF NoHigher, PriceInv, FareTyped, TowTickets, Fares
<1>2. QED
  BY <1>1 DEF Held, PriceInv, FareTyped, Delivered, fareVars

LEMMA NextFare == PriceInv /\ [FareNext]_fareVars => Held
BY TickHeld, PingReadHeld, PingWriteHeld, AcceptHeld, ArriveHeld, LoadHeld, ChangeHeld, DeclineHeld,
   GiveUpHeld, RematchHeld, BreakdownHeld, CancelHeld, DeliverHeld, SameFare DEF FareNext, Ended

LEMMA PriceIsWithin == PriceInv => DeliveredWithinCeiling
<1> SUFFICES ASSUME PriceInv, Delivered PROVE DeliveredWithinCeiling
  BY DEF DeliveredWithinCeiling
<1>1. /\ ticket \in TowTickets /\ promised \in Amounts /\ Priced(ticket, promised) /\ Paid(ticket)
      /\ ticket.status = "RESOLVED"
  BY DEF PriceInv, FareTyped, Delivered
<1> DEFINE T == Total(ticket.history)
<1>2. T \in Nat
  BY <1>1, CapTyped
<1>3. promised # None => ticket.fare # None /\ ticket.fare.final # None /\ ~ticket.fare.partial
  BY <1>1, NoFareApart DEF Priced, Paid
<1>4. ASSUME TowBill(ticket) # None
      PROVE  TowBill(ticket).amount - TowBill(ticket).waiting <= Most(OrZero(promised), T)
  <2>1. CASE ticket.fare = None
    <3>1. T = 0 /\ promised = None
      BY <1>1, <2>1 DEF Priced
    <3>2. TowBill(ticket) = None
      BY <1>1, <2>1, <3>1 DEF TowBill, RiderCancelled
    <3> QED
      BY <1>4, <3>2
  <2>2. CASE ticket.fare # None
    <3> DEFINE c == ticket.fare.ceiling
               f == ticket.fare.final
    <3>1. c \in Nat /\ f \in Nat /\ f <= c /\ ticket.fare.waitingFee = None /\ f # None
      BY <1>1, <2>2, NoFareApart DEF Paid, TowTickets, Fares
    <3>2. c + T <= Most(OrZero(promised), T)
      BY <1>1, <2>2 DEF Priced
    <3>3. TowBill(ticket) = [amount |-> f + T + 0, waiting |-> 0]
      BY <1>1, <1>4, <2>2, <3>1 DEF TowBill, RiderCancelled, OrElse, OrZero
    <3> HIDE DEF c, f, T
    <3>4. OrZero(promised) \in Nat
      BY <1>1 DEF OrZero, Amounts
    <3> QED
      BY <1>2, <3>1, <3>2, <3>3, <3>4 DEF Most
  <2> QED
    BY <2>1, <2>2
<1>5. QED
  BY <1>3, <1>4 DEF DeliveredWithinCeiling

\* No step of a tow raises the ceiling its rider was told: no new tower, no drop-off that
\* changes or is declined, no breakdown, no location update that writes back what it
\* remembers (stampTowFare, cancelTowerSearch, accrue), for any towers, rates and distances.
THEOREM CeilingHolds == FareSpec => CeilingNeverRises
<1>1. FareInit => PriceInv
  BY InitFare
<1>2. PriceInv /\ [FareNext]_fareVars => PriceInv'
  BY NextFare DEF Held
<1>3. PriceInv /\ [FareNext]_fareVars =>
        [ticket.fare # None => ticket'.fare # None /\ ticket'.fare.ceiling <= ticket.fare.ceiling]_fareVars
  BY NextFare DEF Held, NoHigher
<1>4. QED
  BY <1>1, <1>2, <1>3, PTL DEF FareSpec, CeilingNeverRises

\* A rider whose tow is delivered pays, the waiting aside, no more than the first ceiling
\* it was accepted under, or than the breakdowns already owed where those exceed it,
\* whichever towers came and went (the settlement of updateDispatchStatus).
THEOREM PriceStaysPromised == FareSpec => []DeliveredWithinCeiling
<1>1. FareInit => PriceInv
  BY InitFare
<1>2. PriceInv /\ [FareNext]_fareVars => PriceInv'
  BY NextFare DEF Held
<1>3. QED
  BY <1>1, <1>2, PriceIsWithin, PTL DEF FareSpec

==============================================================================
