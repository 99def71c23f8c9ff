------------------------------- MODULE Flags --------------------------------
(***************************************************************************)
(* Hazard flags: riders vote on another rider's report, administrators     *)
(* moderate it, its reporter retracts it, a sweep expires it, and the      *)
(* reporter's points follow the votes (flagService, flagRepository and     *)
(* utils/points).                                                          *)
(*                                                                         *)
(* A vote is cast in a transaction, and so is the reconciliation of the    *)
(* reporter's points; a status is written by an unconditional update that  *)
(* rests on an earlier read.  Weights count in halves of a vote.           *)
(***************************************************************************)
EXTENDS Integers, FiniteSets, Functions

CONSTANTS
  FlagIds,    \* the flags of one reporter; ids are never reused
  Voters,     \* riders other than the reporter
  Weights,    \* what a rider's vote may weigh: 2 halves, or 3 when trusted
  Requests,   \* slots for HTTP requests in flight
  Sweeps,     \* slots for expireFlags: the scheduler's, and POST /flags/expire
  None,       \* no flag, no voter
  Opening,    \* the points the reporter has before these flags
  MaxFaults   \* bound: requests and sweeps that die

ASSUME FlagsAssumption ==
  /\ IsFiniteSet(Voters) /\ IsFiniteSet(FlagIds)
  /\ Weights \subseteq {2, 3}
  /\ Opening \in Nat /\ MaxFaults \in Nat
  /\ None \notin FlagIds \union Voters

Threshold == 6    \* CONSENSUS_THRESHOLD, in halves

ActiveStatuses == {"SUGGESTED", "CONFIRMED", "LOCKED"}
Statuses == ActiveStatuses \union {"EXPIRED", "REJECTED"}

VARIABLES
  flag,    \* flag[f]: status, votes, voteCount, pointsAwarded, and if its TTL is over
  points,  \* users/{reporter}.points
  req,     \* req[c]: the request in flight in slot c
  sweep,   \* sweep[s]: what expireFlags has left to do in slot s
  torn,    \* flags whose last change was never reconciled, for its handler died (history)
  faults   \* how many handlers died

vars == <<flag, points, req, sweep, torn, faults>>

NoVotes == [v \in Voters |-> 0]
Unfiled == [status |-> "NONE", votes |-> NoVotes, count |-> 0, awarded |-> 0, lapsed |-> FALSE]
Idle == [kind |-> "none", pc |-> "idle", f |-> None, v |-> None, vote |-> 0, put |-> "NONE"]
Resting == [pc |-> "idle", f |-> None, left |-> {}]

Init ==
  /\ flag = [f \in FlagIds |-> Unfiled]
  /\ points = Opening
  /\ req = [c \in Requests |-> Idle]
  /\ sweep = [s \in Sweeps |-> Resting]
  /\ torn = {}
  /\ faults = 0

-----------------------------------------------------------------------------
Exists(f) == flag[f].status \in Statuses
\* Mutant of Lapsed: the query leaves pinned flags out.
LapsedUnlocked(f) == flag[f].status \in {"SUGGESTED", "CONFIRMED"} /\ flag[f].lapsed

Lapsed(f) == flag[f].status \in ActiveStatuses /\ flag[f].lapsed
At(c, pc) == req[c].pc = pc
Goto(c, next) == req' = [req EXCEPT ![c] = next]
Write(f, doc) == flag' = [flag EXCEPT ![f] = doc]

-----------------------------------------------------------------------------
(* The reporter's points: reconcilePoints and reconcileReporterAward.      *)

Ups(f) == {v \in Voters : flag[f].votes[v] > 0}
Downs(f) == {v \in Voters : flag[f].votes[v] < 0}

\* A vote of either weight counts one, for weights are floored.
Score(f) == Cardinality(Ups(f)) - Cardinality(Downs(f))
Bonus(f) == IF flag[f].status = "CONFIRMED" /\ Score(f) > 0 THEN 5 ELSE 0
Earned(f) == Score(f) + Bonus(f)
Floored(n) == IF n > 0 THEN n ELSE 0

\* Mutant of Delta: what was awarded before is not subtracted.
DeltaForgetful(f) == Earned(f)

Delta(f) == Earned(f) - flag[f].awarded

\* One transaction: the flag's ledger and the reporter's points together, or
\* nothing when the flag is gone.
Reconcile(f) ==
  IF Exists(f)
  THEN /\ Write(f, [flag[f] EXCEPT !.awarded = Earned(f)])
       /\ points' = Floored(points + Delta(f))
       /\ torn' = torn \ {f}
  ELSE UNCHANGED <<flag, points, torn>>

-----------------------------------------------------------------------------
(* Filing a flag, and time.                                                *)

Create(f) ==
  /\ flag[f] = Unfiled
  /\ Write(f, [Unfiled EXCEPT !.status = "SUGGESTED"])
  /\ UNCHANGED <<points, req, sweep, torn, faults>>

Lapse(f) ==
  /\ Exists(f) /\ ~flag[f].lapsed
  /\ Write(f, [flag[f] EXCEPT !.lapsed = TRUE])
  /\ UNCHANGED <<points, req, sweep, torn, faults>>

-----------------------------------------------------------------------------
(* POST /flags/confirm and /flags/deny: castSignedFlagVote.                *)

\* A locked flag is answered unchanged; the rider's trust gives the weight.
VoteRead(c, f, v, vote) ==
  /\ At(c, "idle") /\ Exists(f) /\ flag[f].status # "LOCKED"
  /\ Goto(c, [Idle EXCEPT !.kind = "vote", !.pc = "cast", !.f = f, !.v = v, !.vote = vote])
  /\ UNCHANGED <<flag, points, sweep, torn, faults>>

\* The status the vote moves the flag to, as of the transaction that cast it.
Verdict(vote, count, status) ==
  IF vote > 0 /\ count >= Threshold /\ status # "CONFIRMED" THEN "CONFIRMED"
  ELSE IF vote < 0 /\ count <= -Threshold /\ status = "SUGGESTED" THEN "REJECTED"
  ELSE IF vote < 0 /\ count <= -Threshold /\ status = "CONFIRMED" THEN "SUGGESTED"
  ELSE "NONE"

\* Mutant of Recount: changing a vote forgets to take the old one back.
RecountAdds(f, v, vote) == flag[f].count + vote

Recount(f, v, vote) == flag[f].count + (vote - flag[f].votes[v])

\* Mutant of AfterCast: only a vote that moves the status is reconciled.
AfterCastSettled(c, put) ==
  IF put = "NONE" THEN Idle ELSE [req[c] EXCEPT !.pc = "set", !.put = put]

AfterCast(c, put) ==
  IF put = "NONE" THEN [req[c] EXCEPT !.pc = "award"]
  ELSE [req[c] EXCEPT !.pc = "set", !.put = put]

\* castSignedVote, one transaction; the same vote again is a duplicate.
Cast(c) ==
  /\ At(c, "cast")
  /\ LET f == req[c].f
         v == req[c].v
         count == Recount(f, v, req[c].vote)
     IN IF Exists(f) /\ flag[f].votes[v] # req[c].vote
        THEN /\ Write(f, [flag[f] EXCEPT !.votes[v] = req[c].vote, !.count = count])
             /\ Goto(c, AfterCast(c, Verdict(req[c].vote, count, flag[f].status)))
        ELSE UNCHANGED flag /\ Goto(c, Idle)
  /\ UNCHANGED <<points, sweep, torn, faults>>

\* updateStatus: an update of a deleted document throws.
SetStatus(c) ==
  /\ At(c, "set")
  /\ LET f == req[c].f IN
     IF Exists(f)
     THEN /\ Write(f, [flag[f] EXCEPT !.status = req[c].put])
          /\ Goto(c, [req[c] EXCEPT !.pc = "award"])
     ELSE UNCHANGED flag /\ Goto(c, Idle)
  /\ UNCHANGED <<points, sweep, torn, faults>>

Award(c) ==
  /\ At(c, "award")
  /\ Reconcile(req[c].f)
  /\ Goto(c, Idle)
  /\ UNCHANGED <<sweep, faults>>

-----------------------------------------------------------------------------
(* PUT /flags/moderate and POST /flags/unflag.                             *)

ModerateRead(c, f, status) ==
  /\ At(c, "idle") /\ Exists(f)
  /\ Goto(c, [Idle EXCEPT !.kind = "moderate", !.pc = "set", !.f = f, !.put = status])
  /\ UNCHANGED <<flag, points, sweep, torn, faults>>

UnflagRead(c, f) ==
  /\ At(c, "idle") /\ flag[f].status \in {"SUGGESTED", "CONFIRMED"}
  /\ Goto(c, [Idle EXCEPT !.kind = "unflag", !.pc = "delete", !.f = f])
  /\ UNCHANGED <<flag, points, sweep, torn, faults>>

\* The document goes; the points it earned stay.
Delete(c) ==
  /\ At(c, "delete")
  /\ Write(req[c].f, [flag[req[c].f] EXCEPT !.status = "GONE"])
  /\ Goto(c, Idle)
  /\ UNCHANGED <<points, sweep, torn, faults>>

-----------------------------------------------------------------------------
(* expireFlags: list the flags past their TTL, then one after the other.   *)

SweepList(s) ==
  /\ sweep[s].pc = "idle"
  /\ {f \in FlagIds : Lapsed(f)} # {}
  /\ sweep' = [sweep EXCEPT ![s] = [@ EXCEPT !.pc = "set", !.left = {f \in FlagIds : Lapsed(f)}]]
  /\ UNCHANGED <<flag, points, req, torn, faults>>

SweepOn(s, left) == IF left = {} THEN Resting ELSE [pc |-> "set", f |-> None, left |-> left]

\* Mutant of SweepSet: an expired flag is taken off the list unreconciled.
SweepSetOnly(s, f) ==
  /\ sweep[s].pc = "set" /\ f \in sweep[s].left
  /\ IF Exists(f)
     THEN /\ Write(f, [flag[f] EXCEPT !.status = "EXPIRED"])
          /\ sweep' = [sweep EXCEPT ![s] = SweepOn(s, sweep[s].left \ {f})]
     ELSE UNCHANGED flag /\ sweep' = [sweep EXCEPT ![s] = Resting]
  /\ UNCHANGED <<points, req, torn, faults>>

\* A flag deleted since it was listed makes the update throw: the sweep ends.
SweepSet(s, f) ==
  /\ sweep[s].pc = "set" /\ f \in sweep[s].left
  /\ IF Exists(f)
     THEN /\ Write(f, [flag[f] EXCEPT !.status = "EXPIRED"])
          /\ sweep' = [sweep EXCEPT ![s] = [pc |-> "award", f |-> f, left |-> @.left \ {f}]]
     ELSE UNCHANGED flag /\ sweep' = [sweep EXCEPT ![s] = Resting]
  /\ UNCHANGED <<points, req, torn, faults>>

SweepAward(s) ==
  /\ sweep[s].pc = "award"
  /\ Reconcile(sweep[s].f)
  /\ sweep' = [sweep EXCEPT ![s] = SweepOn(s, @.left)]
  /\ UNCHANGED <<req, faults>>

-----------------------------------------------------------------------------
(* What a handler in flight still owes the reporter, and what dies with it. *)

OwedBy(c) == req[c].pc = "award" \/ (req[c].kind = "vote" /\ req[c].pc = "set")
OwedBySweep(s) == sweep[s].pc = "award"

\* A call threw or an instance died: the rest of the request never happens.
Abort(c) ==
  /\ ~At(c, "idle") /\ faults < MaxFaults
  /\ torn' = IF OwedBy(c) THEN torn \union {req[c].f} ELSE torn
  /\ Goto(c, Idle)
  /\ faults' = faults + 1
  /\ UNCHANGED <<flag, points, sweep>>

AbortSweep(s) ==
  /\ sweep[s].pc # "idle" /\ faults < MaxFaults
  /\ torn' = IF OwedBySweep(s) THEN torn \union {sweep[s].f} ELSE torn
  /\ sweep' = [sweep EXCEPT ![s] = Resting]
  /\ faults' = faults + 1
  /\ UNCHANGED <<flag, points, req>>

-----------------------------------------------------------------------------
Arrive(c, f) ==
  \/ \E v \in Voters, w \in Weights : VoteRead(c, f, v, w) \/ VoteRead(c, f, v, -w)
  \/ \E status \in Statuses : ModerateRead(c, f, status)
  \/ UnflagRead(c, f)

Handle(c) == Cast(c) \/ SetStatus(c) \/ Award(c) \/ Delete(c)
SweepStep(s) == SweepList(s) \/ (\E f \in FlagIds : SweepSet(s, f)) \/ SweepAward(s)

Next ==
  \/ \E f \in FlagIds : Create(f) \/ Lapse(f)
  \/ \E c \in Requests : (\E f \in FlagIds : Arrive(c, f)) \/ Handle(c) \/ Abort(c)
  \/ \E s \in Sweeps : SweepStep(s) \/ AbortSweep(s)

Spec == Init /\ [][Next]_vars

\* Every half hour the scheduler runs expireFlags to its end, or to the failure
\* of one of its calls, of which there are finitely many.
FairSpec == Spec /\ \A s \in Sweeps : WF_vars(SweepStep(s))

-----------------------------------------------------------------------------
(* What must hold.                                                         *)

Kinds == {"none", "vote", "moderate", "unflag"}
Points == {"idle", "cast", "set", "award", "delete"}
Signed == Weights \union {-w : w \in Weights}

FlagDoc ==
  [status : Statuses \union {"NONE", "GONE"}, votes : [Voters -> Signed \union {0}],
   count : Int, awarded : Int, lapsed : BOOLEAN]

RequestDoc ==
  [kind : Kinds, pc : Points, f : FlagIds \union {None}, v : Voters \union {None},
   vote : Signed \union {0}, put : Statuses \union {"NONE"}]

SweepDoc == [pc : {"idle", "set", "award"}, f : FlagIds \union {None}, left : SUBSET FlagIds]

\* Every flag, request and sweep has its shape, a flag has no history before it
\* is filed, and points are never negative.
TypeOK ==
  /\ flag \in [FlagIds -> FlagDoc]
  /\ \A f \in FlagIds : flag[f].status = "NONE" => flag[f] = Unfiled
  /\ points \in Nat
  /\ req \in [Requests -> RequestDoc]
  /\ sweep \in [Sweeps -> SweepDoc]
  /\ torn \subseteq FlagIds
  /\ faults \in 0..MaxFaults

Owed(f) ==
  \/ \E c \in Requests : req[c].f = f /\ OwedBy(c)
  \/ \E s \in Sweeps : sweep[s].f = f /\ OwedBySweep(s)

\* However votes, moderation and sweeps interleave, a flag's ledger says what
\* its votes and status earn, or a handler in flight is about to make it so;
\* only a handler that died leaves it behind, until the next one reconciles.
AwardIsCurrent ==
  \A f \in FlagIds :
    Exists(f) => flag[f].awarded = Earned(f) \/ Owed(f) \/ f \in torn

Sum(g) == FoldFunction(LAMBDA a, b : a + b, 0, g)

\* A reporter who starts with enough never to reach the floor has exactly
\* the points the ledgers of the flags say, of deleted ones too: no reconciliation
\* is applied twice or lost.  The running voteCount is the sum of the votes that
\* stand, in whatever order the transactions that changed them committed.
PointsFollowLedger ==
  /\ Opening >= Cardinality(FlagIds) * Cardinality(Voters)
       => points = Opening + Sum([f \in FlagIds |-> flag[f].awarded])
  /\ \A f \in FlagIds : flag[f].count = Sum(flag[f].votes)

\* A flag whose TTL is over is expired, rejected or deleted before long, even
\* when votes in flight bring it back and deletions break off a sweep.
LapsedFlagsClose ==
  \A f \in FlagIds : Exists(f) /\ flag[f].lapsed ~> flag[f].status \notin ActiveStatuses

=============================================================================
