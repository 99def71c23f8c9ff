-------------------------------- MODULE Chat --------------------------------
(***************************************************************************)
(* Who talks to whom: the room of a ticket, one for each time the ticket is *)
(* assigned, and the room of a hazard, which ends with it (chatService,     *)
(* chatRepository, and what giving up or declining does to a ticket's room). *)
(*                                                                         *)
(* A call reads the ticket or the hazard, finds the room, joins or creates  *)
(* it, and sends; the server writes an event into the room in the same way. *)
(* A behaviour is about one ticket or one hazard.  What a message says is    *)
(* left out; it is known by whom the ticket was assigned to when it was sent. *)
(***************************************************************************)
EXTENDS Naturals, FiniteSets

CONSTANTS Nobody, Rider,
          Helpers,       \* the providers who may be assigned, the rider not among them
          Server,        \* the handler that assigns, gives up or declines
          LastVersion,   \* bound: times the ticket is given back
          MaxSlips,      \* bound: swallowed errors
          MaxTalking     \* bound: calls in flight

ASSUME ChatAssumption ==
  /\ LastVersion \in Nat /\ MaxSlips \in Nat /\ MaxTalking \in Nat
  /\ Nobody \notin Helpers \cup {Rider} /\ Rider \notin Helpers
  /\ Server \notin Helpers \cup {Rider}

Talkers == Helpers \cup {Rider}
Versions == 0..LastVersion

VARIABLES scope,       \* "TOW" or "SOS", a ticket of that type, or "HAZARD"
          job,         \* the ticket: status, assignedUid, chatVersion; or whether the hazard lives
          rooms,       \* a room for each version
          messages,    \* the messages under each room, which outlive its document
          call,        \* calls in flight
          sweep,       \* expireChats: the messages it read, while it deletes the room
          joined,      \* history: who was let into the hazard's room
          kept,        \* history: the ticket was given back and its room kept
          replaced,    \* history: a room was created over another
          unheard,     \* history: a message was not pushed to one it was meant for
          slips

chatVars == <<scope, job, rooms, messages, call, sweep, joined, kept, replaced, unheard, slips>>

NoRoom == [exists |-> FALSE, members |-> {}, closed |-> FALSE]
NoCall == [op |-> "none", pc |-> "idle", version |-> 0, with |-> {}, closed |-> FALSE]
NoSweep == [on |-> FALSE, seen |-> {}]

ChatInit ==
  /\ scope \in {"TOW", "SOS", "HAZARD"}
  /\ job = [status |-> "PENDING", assigned |-> Nobody, version |-> 0]
  /\ rooms = [v \in Versions |-> NoRoom] /\ messages = [v \in Versions |-> {}]
  /\ call = [c \in Talkers \cup {Server} |-> NoCall] /\ sweep = NoSweep
  /\ joined = {} /\ kept = FALSE /\ replaced = FALSE /\ unheard = FALSE /\ slips = 0

OnHazard == scope = "HAZARD"
Live == job.status # "CLOSED"
Parties == {Rider, job.assigned} \ {Nobody}
Go(c, to) == call' = [call EXCEPT ![c] = to]
Step(c, pc) == [call[c] EXCEPT !.pc = pc]
Lines == Cardinality({c \in DOMAIN call : call[c].pc # "idle"}) < MaxTalking
InChat == UNCHANGED <<scope, job, sweep, kept, slips>>

------------------------------------------------------------------------------
(* A user's call *)

\* Mutant of Enter: anyone who was ever assigned is let in.
EnterFormer(u) ==
  /\ call[u].pc = "idle" /\ Lines
  /\ IF OnHazard THEN Live ELSE u \in Parties \/ job.version > 0
  /\ Go(u, [NoCall EXCEPT !.pc = "find", !.version = job.version,
                          !.with = IF OnHazard THEN {u} ELSE Parties \cup {u}])
  /\ InChat /\ UNCHANGED <<rooms, messages, joined, replaced, unheard>>

\* Ticket rooms are for the rider and the assigned provider, closed tickets
\* too; hazard rooms for anyone, until the hazard ends.
Enter(u) ==
  /\ call[u].pc = "idle" /\ Lines
  /\ IF OnHazard THEN Live ELSE u \in Parties
  /\ Go(u, [NoCall EXCEPT !.pc = "find", !.version = job.version,
                          !.with = IF OnHazard THEN {u} ELSE Parties])
  /\ InChat /\ UNCHANGED <<rooms, messages, joined, replaced, unheard>>

\* Where a call goes on with its room.
Inside(c, closed) == [call[c] EXCEPT !.pc = IF OnHazard THEN "write" ELSE "check", !.closed = closed]
Joins(c) == joined' = IF OnHazard THEN joined \cup {c} ELSE joined

\* Mutant of FindRoom: a room that exists is used as it is.
FindRoomAsItIs(u) ==
  LET room == rooms[call[u].version] IN
  /\ u # Server /\ call[u].pc = "find"
  /\ \/ room.exists /\ Go(u, Inside(u, room.closed)) /\ Joins(u)
     \/ ~ room.exists /\ Go(u, Step(u, "create")) /\ UNCHANGED joined
  /\ InChat /\ UNCHANGED <<rooms, messages, replaced, unheard>>

FindRoom(u) ==
  LET room == rooms[call[u].version] IN
  /\ u # Server /\ call[u].pc = "find"
  /\ \/ /\ room.exists /\ call[u].with \subseteq room.members
        /\ Go(u, Inside(u, room.closed)) /\ Joins(u)
     \/ /\ room.exists /\ ~ call[u].with \subseteq room.members
        /\ Go(u, [Step(u, "join") EXCEPT !.closed = room.closed]) /\ UNCHANGED joined
     \/ ~ room.exists /\ Go(u, Step(u, "create")) /\ UNCHANGED joined
  /\ InChat /\ UNCHANGED <<rooms, messages, replaced, unheard>>

\* One participant at a time; the room may be gone.
JoinRoom(u) ==
  LET v == call[u].version IN
  /\ call[u].pc = "join"
  /\ IF ~rooms[v].exists THEN Go(u, NoCall) /\ UNCHANGED <<rooms, joined>>
     ELSE \E x \in call[u].with \ rooms[v].members :
       /\ rooms' = [rooms EXCEPT ![v].members = @ \cup {x}]
       /\ IF call[u].with \subseteq rooms[v].members \cup {x}
          THEN Go(u, Inside(u, call[u].closed)) /\ Joins(u) ELSE UNCHANGED <<call, joined>>
  /\ InChat /\ UNCHANGED <<messages, replaced, unheard>>

\* The document is set, whatever is there.
Put(v, members) ==
  /\ rooms' = [rooms EXCEPT ![v] = [exists |-> TRUE, members |-> members, closed |-> FALSE]]
  /\ replaced' = (replaced \/ rooms[v].exists)

CreateRoom(u) ==
  /\ u # Server /\ call[u].pc = "create"
  /\ Put(call[u].version, call[u].with) /\ Go(u, Inside(u, FALSE)) /\ Joins(u)
  /\ InChat /\ UNCHANGED <<messages, unheard>>

\* The call was only to open the room, or to list its messages.
LeaveRoom(u) ==
  /\ u # Server /\ call[u].pc = (IF OnHazard THEN "write" ELSE "check")
  /\ Go(u, NoCall)
  /\ InChat /\ UNCHANGED <<rooms, messages, joined, replaced, unheard>>

\* A message needs a ticket that is not over and a room not archived when found.
CheckTicket(u) ==
  /\ u # Server /\ call[u].pc = "check"
  /\ Go(u, IF call[u].closed \/ ~Live THEN NoCall ELSE [Step(u, "write") EXCEPT !.closed = FALSE])
  /\ InChat /\ UNCHANGED <<rooms, messages, joined, replaced, unheard>>

\* addMessage: the message is stored even if its room is gone, which fails the call.
SendMessage(u) ==
  LET v == call[u].version IN
  /\ u # Server /\ call[u].pc = "write"
  /\ messages' = [messages EXCEPT ![v] = @ \cup {call[u].with \ {Rider}}]
  /\ Go(u, IF rooms[v].exists THEN Step(u, "push") ELSE NoCall)
  /\ InChat /\ UNCHANGED <<rooms, joined, replaced, unheard>>

\* pushChat: to those who are in the room by now.
PushMessage(u) ==
  LET room == rooms[call[u].version]
      meant == (IF OnHazard THEN joined ELSE call[u].with) \ {u}
  IN
  /\ call[u].pc = "push"
  /\ unheard' = (unheard \/ (room.exists /\ (OnHazard => Live) /\ ~ meant \subseteq room.members))
  /\ Go(u, NoCall)
  /\ InChat /\ UNCHANGED <<rooms, messages, joined, replaced>>

------------------------------------------------------------------------------
(* The ticket changes hands *)

OutOfRoom == UNCHANGED <<scope, rooms, messages, sweep, joined, kept, replaced, unheard, slips>>
ServerIdle == call[Server].pc = "idle" /\ Lines
Handle(op, pc) ==
  Go(Server, [NoCall EXCEPT !.op = op, !.pc = pc, !.version = job.version])

\* Assigned in one transaction; the event that says so follows.
AssignHelper(p) ==
  /\ ServerIdle /\ ~OnHazard /\ job.status = "PENDING"
  /\ job' = [job EXCEPT !.status = "MATCHED", !.assigned = p]
  /\ Handle("accept", "event") /\ OutOfRoom

\* Cancelled or resolved; the room stays as it is.
CloseTicket ==
  /\ call[Server].pc = "idle" /\ ~OnHazard /\ Live
  /\ job' = [job EXCEPT !.status = "CLOSED"]
  /\ UNCHANGED call /\ OutOfRoom

\* The tower cancels, or the rider declines the shop's quote, which is said first.
GiveBack ==
  /\ ServerIdle /\ ~OnHazard /\ job.status = "MATCHED" /\ job.version < LastVersion
  /\ IF scope = "TOW" THEN Handle("cancel", "look") ELSE Handle("decline", "event")
  /\ UNCHANGED job /\ OutOfRoom

\* cancelTowerSearch gives the ticket back and leaves its chat alone (bound: once).
RematchTow ==
  /\ ServerIdle /\ scope = "TOW" /\ job.status = "MATCHED" /\ ~kept
  /\ job' = [job EXCEPT !.status = "PENDING", !.assigned = Nobody]
  /\ kept' = TRUE
  /\ UNCHANGED <<scope, rooms, messages, call, sweep, joined, replaced, unheard, slips>>

\* addSystemEvent: the ticket is read again, the room found or created, the
\* event stored; an error anywhere is swallowed.
AfterEvent == IF call[Server].op = "accept" THEN NoCall ELSE Step(Server, "look")
EventRead ==
  /\ call[Server].pc = "event"
  /\ LET e == [call[Server] EXCEPT !.version = job.version, !.with = Parties]
     IN Go(Server, [e EXCEPT !.pc = IF rooms[e.version].exists THEN "write" ELSE "create"])
  /\ InChat /\ UNCHANGED <<rooms, messages, joined, replaced, unheard>>
EventRoom ==
  /\ call[Server].pc = "create"
  /\ Put(call[Server].version, call[Server].with) /\ Go(Server, Step(Server, "write"))
  /\ InChat /\ UNCHANGED <<messages, joined, unheard>>
EventWrite ==
  LET v == call[Server].version IN
  /\ call[Server].pc = "write"
  /\ messages' = [messages EXCEPT ![v] = @ \cup {call[Server].with \ {Rider}}]
  /\ Go(Server, AfterEvent)
  /\ InChat /\ UNCHANGED <<rooms, joined, replaced, unheard>>
EventFails ==
  /\ call[Server].pc \in {"event", "create", "write"} /\ slips < MaxSlips /\ slips' = slips + 1
  /\ Go(Server, AfterEvent)
  /\ UNCHANGED <<scope, job, rooms, messages, sweep, joined, kept, replaced, unheard>>

\* archiveTicketRoom: found, then closed; with no room, or an error, nothing is
\* archived.
ArchiveLook ==
  /\ call[Server].pc = "look"
  /\ Go(Server, Step(Server, IF rooms[call[Server].version].exists THEN "archive" ELSE "clear"))
  /\ InChat /\ UNCHANGED <<rooms, messages, joined, replaced, unheard>>
ArchiveRoom ==
  /\ call[Server].pc = "archive"
  /\ rooms' = [rooms EXCEPT ![call[Server].version].closed = TRUE]
  /\ Go(Server, [Step(Server, "clear") EXCEPT !.closed = TRUE])
  /\ InChat /\ UNCHANGED <<messages, joined, replaced, unheard>>
ArchiveFails ==
  /\ call[Server].pc \in {"look", "archive"} /\ slips < MaxSlips /\ slips' = slips + 1
  /\ Go(Server, Step(Server, "clear"))
  /\ UNCHANGED <<scope, job, rooms, messages, sweep, joined, kept, replaced, unheard>>

\* Mutant of NextVersion: the version counts archived rooms, in both handlers.
NextVersionArchived(c) == call[c].version + (IF call[c].closed THEN 1 ELSE 0)

\* Mutant of NextVersion: a decline leaves the version alone.
NextVersionCancelOnly(c) == call[c].version + (IF call[c].op = "cancel" THEN 1 ELSE 0)

\* A tower's cancel always counts the version up, a decline only when a room
\* was archived.
NextVersion(c) ==
  call[c].version + (IF call[c].op = "cancel" \/ call[c].closed THEN 1 ELSE 0)

ClearAssignment ==
  /\ call[Server].pc = "clear"
  /\ job' = [status |-> "PENDING", assigned |-> Nobody, version |-> NextVersion(Server)]
  /\ kept' = (kept \/ (call[Server].op = "decline" /\ ~call[Server].closed))
  /\ Go(Server, NoCall)
  /\ UNCHANGED <<scope, rooms, messages, sweep, joined, replaced, unheard, slips>>

------------------------------------------------------------------------------
(* The hazard ends *)

HazardEnds ==
  /\ OnHazard /\ Live /\ job' = [job EXCEPT !.status = "CLOSED"]
  /\ UNCHANGED <<scope, rooms, messages, call, sweep, joined, kept, replaced, unheard, slips>>

\* Mutant of SweepRoom: a room is swept while its hazard lives.
SweepRoomEarly ==
  /\ OnHazard /\ rooms[0].exists /\ ~sweep.on
  /\ sweep' = [on |-> TRUE, seen |-> messages[0]]
  /\ UNCHANGED <<scope, job, rooms, messages, call, joined, kept, replaced, unheard, slips>>

\* expireChats: rooms whose hazard ended, their messages first read.
SweepRoom ==
  /\ OnHazard /\ ~Live /\ rooms[0].exists /\ ~sweep.on
  /\ sweep' = [on |-> TRUE, seen |-> messages[0]]
  /\ UNCHANGED <<scope, job, rooms, messages, call, joined, kept, replaced, unheard, slips>>

DeleteRoom ==
  /\ sweep.on /\ sweep' = NoSweep
  /\ rooms' = [rooms EXCEPT ![0] = NoRoom] /\ messages' = [messages EXCEPT ![0] = @ \ sweep.seen]
  /\ UNCHANGED <<scope, job, call, joined, kept, replaced, unheard, slips>>

------------------------------------------------------------------------------
Talk(u) ==
  \/ FindRoom(u) \/ JoinRoom(u) \/ CreateRoom(u) \/ LeaveRoom(u) \/ CheckTicket(u) \/ SendMessage(u) \/ PushMessage(u)
ServerStep ==
  \/ EventRead \/ EventRoom \/ EventWrite \/ EventFails
  \/ ArchiveLook \/ ArchiveRoom \/ ArchiveFails \/ ClearAssignment

ChatNext ==
  \/ \E u \in Talkers : Enter(u)
  \/ \E u \in Talkers : Talk(u)
  \/ \E p \in Helpers : AssignHelper(p)
  \/ CloseTicket \/ GiveBack \/ RematchTow \/ ServerStep
  \/ HazardEnds \/ SweepRoom \/ DeleteRoom

ChatSpec == ChatInit /\ [][ChatNext]_chatVars

------------------------------------------------------------------------------
\* Who may see the room of a version: the parties to the current one, who are
\* let in whenever they ask, and the participants of an archived one.
Reads(u, v) == u \in rooms[v].members \/ (v = job.version /\ u \in Parties)

\* A provider sees nothing of a time when the ticket was another's: no room has
\* two providers, and no message in a room a provider may see was sent while
\* the ticket was another provider's.  A ticket that was given back with its
\* room kept (cancelTowerSearch, or a decline that could not archive) is excused.
StrangersKeptOut ==
  ~kept /\ ~OnHazard =>
    \A v \in Versions, p \in Helpers :
      Reads(p, v) => /\ \A m \in messages[v] : m \subseteq {p}
                     /\ rooms[v].members \subseteq {Rider, p}

\* A message is pushed to the other party, or to everyone let into the hazard's
\* room, unless the room's document was created over another.
MeantAreTold == ~replaced => ~unheard

\* The rooms are as private and as complete as chatService intends: the former
\* provider of a ticket is out of its new room, and nobody in a room is skipped
\* (chatService.open, send and pushChat, and the archiving in updateDispatchStatus
\* and declineMobileFix, while calls overlap the ticket's changes of hands).
RoomsFitTheJob == StrangersKeptOut /\ MeantAreTold
==============================================================================
