---------------------------- MODULE FlagsProofs -----------------------------
(* Theorems about Flags, for any flags, voters and numbers of handlers. *)
EXTENDS Flags, FiniteSetTheorems, WellFoundedInduction, TLAPS

\* What a handler in flight remembers is what its next step needs.
Sound(q) ==
  /\ q.pc # "idle" => q.f \in FlagIds
  /\ q.pc = "cast" => q.kind = "vote" /\ q.v \in Voters /\ q.vote \in Signed
  /\ q.pc = "set" => q.put \in Statuses
  /\ q.pc = "delete" => q.kind = "unflag"

HandlersInv ==
  /\ \A c \in Requests : Sound(req[c])
  /\ \A s \in Sweeps : sweep[s].pc = "award" => sweep[s].f \in FlagIds

IInv == TypeOK /\ HandlersInv /\ AwardIsCurrent

-----------------------------------------------------------------------------
LEMMA Shapes ==
  /\ IsFiniteSet(Voters)
  /\ Unfiled \in FlagDoc
  /\ Idle \in RequestDoc /\ Sound(Idle)
  /\ Resting \in SweepDoc
<1>1. NoVotes \in [Voters -> Signed \union {0}]
  BY DEF NoVotes
<1>2. Unfiled \in FlagDoc
  BY <1>1 DEF Unfiled, FlagDoc
<1>3. Idle \in RequestDoc /\ Sound(Idle)
  BY DEF Idle, RequestDoc, Kinds, Points, Sound
<1>4. Resting \in SweepDoc
  BY DEF Resting, SweepDoc
<1>5. IsFiniteSet(Voters)
  BY FlagsAssumption
<1> QED
  BY <1>2, <1>3, <1>4, <1>5

LEMMA SignedIsInt == \A x \in Signed : x \in Int
<1> SUFFICES ASSUME NEW x \in Signed PROVE x \in Int
  OBVIOUS
<1>1. \A w \in Weights : w \in Int
  BY FlagsAssumption
<1>2. x \in Weights \/ \E w \in Weights : x = -w
  BY DEF Signed
<1> QED
  BY <1>1, <1>2

\* Points are whole: a flag earns the difference of two numbers of voters.
LEMMA EarnedIsInt ==
  ASSUME NEW f
  PROVE  Earned(f) \in Int
<1>1. Cardinality(Ups(f)) \in Nat
  <2>1. IsFiniteSet(Ups(f))
    BY Shapes, FS_Subset DEF Ups
  <2> QED
    BY <2>1, FS_CardinalityType
<1>2. Cardinality(Downs(f)) \in Nat
  <2>1. IsFiniteSet(Downs(f))
    BY Shapes, FS_Subset DEF Downs
  <2> QED
    BY <2>1, FS_CardinalityType
<1> QED
  BY <1>1, <1>2 DEF Earned, Score, Bonus

LEMMA FlooredIsNat == \A n \in Int : Floored(n) \in Nat
  BY DEF Floored

\* What a flag earns depends on its votes and its status, on nothing else.
LEMMA SameEarned ==
  ASSUME NEW f, flag'[f].votes = flag[f].votes, flag'[f].status = flag[f].status
  PROVE  Earned(f)' = Earned(f) /\ (Exists(f)' <=> Exists(f))
  BY DEF Earned, Score, Bonus, Ups, Downs, Exists

\* A flag nobody voted on earns nothing.
LEMMA FreshEarnsNothing ==
  ASSUME NEW f, flag'[f].votes = NoVotes, flag'[f].status = "SUGGESTED"
  PROVE  Earned(f)' = 0
<1>1. Ups(f)' = {} /\ Downs(f)' = {}
  BY DEF Ups, Downs, NoVotes
<1> QED
  BY <1>1, FS_EmptySet DEF Earned, Score, Bonus

-----------------------------------------------------------------------------
LEMMA InitIInv == Init => IInv
<1> SUFFICES ASSUME Init PROVE IInv
  OBVIOUS
<1>1. TypeOK
  BY Shapes, FlagsAssumption DEF Init, TypeOK
<1>2. HandlersInv
  BY Shapes DEF Init, HandlersInv, Resting
<1>3. AwardIsCurrent
  BY DEF Init, AwardIsCurrent, Exists, Unfiled, Statuses, ActiveStatuses
<1> QED
  BY <1>1, <1>2, <1>3 DEF IInv

\* A request that moves to a sound record keeps the handlers sound.
LEMMA GotoKeeps ==
  ASSUME IInv, NEW c \in Requests, NEW q \in RequestDoc, Sound(q), Goto(c, q), UNCHANGED sweep
  PROVE  req' \in [Requests -> RequestDoc] /\ HandlersInv'
  BY DEF IInv, TypeOK, HandlersInv, Goto

LEMMA SweepKeeps ==
  ASSUME IInv, NEW s \in Sweeps, NEW d \in SweepDoc, d.pc = "award" => d.f \in FlagIds,
         sweep' = [sweep EXCEPT ![s] = d], UNCHANGED req
  PROVE  sweep' \in [Sweeps -> SweepDoc] /\ HandlersInv'
  BY DEF IInv, TypeOK, HandlersInv

\* A debt stays when a handler that owes nothing moves.
LEMMA OwedKept ==
  ASSUME IInv, NEW f \in FlagIds, NEW c \in Requests, NEW q, Goto(c, q), UNCHANGED sweep,
         Owed(f), req[c].f = f => ~OwedBy(c)
  PROVE  Owed(f)'
  BY DEF IInv, TypeOK, Owed, OwedBy, OwedBySweep, Goto

LEMMA OwedKeptBySweep ==
  ASSUME IInv, NEW f \in FlagIds, NEW s \in Sweeps, NEW d, sweep' = [sweep EXCEPT ![s] = d],
         UNCHANGED req, Owed(f), sweep[s].f = f => ~OwedBySweep(s)
  PROVE  Owed(f)'
  BY DEF IInv, TypeOK, Owed, OwedBy, OwedBySweep

\* A flag that is not written to is as current as it was, if what it is owed stays.
LEMMA CurrentKept ==
  ASSUME IInv, NEW f \in FlagIds, flag'[f].votes = flag[f].votes,
         flag'[f].status = flag[f].status, flag'[f].awarded = flag[f].awarded,
         Owed(f) => Owed(f)', f \in torn => f \in torn'
  PROVE  Exists(f)' => flag'[f].awarded = Earned(f)' \/ Owed(f)' \/ f \in torn'
  BY SameEarned DEF IInv, AwardIsCurrent

-----------------------------------------------------------------------------
(* Filing a flag, and time.                                                *)

LEMMA FileStep ==
  ASSUME IInv, NEW f \in FlagIds, Create(f) \/ Lapse(f)
  PROVE  IInv'
<1>1. UNCHANGED <<points, req, sweep, torn, faults>>
  BY DEF Create, Lapse
<1>2. PICK doc \in FlagDoc :
        /\ flag' = [flag EXCEPT ![f] = doc] /\ doc.status \in Statuses
        /\ \/ doc.votes = NoVotes /\ doc.status = "SUGGESTED" /\ doc.awarded = 0
           \/ /\ doc.votes = flag[f].votes /\ doc.status = flag[f].status
              /\ doc.awarded = flag[f].awarded
  <2>1. CASE Create(f)
    <3> DEFINE doc == [Unfiled EXCEPT !.status = "SUGGESTED"]
    <3>1. doc \in FlagDoc /\ doc.status = "SUGGESTED" /\ doc.votes = NoVotes /\ doc.awarded = 0
      BY Shapes DEF FlagDoc, Unfiled, Statuses, ActiveStatuses
    <3> QED
      BY <2>1, <3>1 DEF Create, Write, Statuses, ActiveStatuses
  <2>2. CASE Lapse(f)
    <3> DEFINE doc == [flag[f] EXCEPT !.lapsed = TRUE]
    <3>0. flag[f] \in FlagDoc
      BY DEF IInv, TypeOK
    <3>1. doc \in FlagDoc /\ doc.status = flag[f].status /\ doc.votes = flag[f].votes
          /\ doc.awarded = flag[f].awarded
      BY <3>0 DEF FlagDoc
    <3> QED
      BY <2>2, <3>1 DEF Lapse, Write, Exists
  <2> QED
    BY <2>1, <2>2
<1>3. TypeOK' /\ HandlersInv'
  BY <1>1, <1>2 DEF IInv, TypeOK, HandlersInv, Statuses, ActiveStatuses
<1>4. ASSUME NEW g \in FlagIds
      PROVE  Exists(g)' => flag'[g].awarded = Earned(g)' \/ Owed(g)' \/ g \in torn'
  <2>1. Owed(g) => Owed(g)'
    BY <1>1 DEF Owed, OwedBy, OwedBySweep
  <2>2. CASE flag'[g].votes = NoVotes /\ flag'[g].status = "SUGGESTED" /\ flag'[g].awarded = 0
    BY <2>2, FreshEarnsNothing
  <2>3. CASE /\ flag'[g].votes = flag[g].votes /\ flag'[g].status = flag[g].status
             /\ flag'[g].awarded = flag[g].awarded
    BY <1>1, <2>1, <2>3, CurrentKept
  <2> QED
    BY <1>2, <2>2, <2>3 DEF IInv, TypeOK
<1> QED
  BY <1>3, <1>4 DEF IInv, AwardIsCurrent

-----------------------------------------------------------------------------
(* Requests.                                                               *)

\* A request that only moves, between points where it owes nothing.
LEMMA MoveStep ==
  ASSUME IInv, NEW c \in Requests, NEW q \in RequestDoc, Sound(q), Goto(c, q),
         UNCHANGED <<flag, points, sweep, torn, faults>>,
         ~OwedBy(c) \/ ~Exists(req[c].f)
  PROVE  IInv'
<1>1. TypeOK' /\ HandlersInv'
  BY GotoKeeps DEF IInv, TypeOK
<1>2. ASSUME NEW g \in FlagIds
      PROVE  Exists(g)' => flag'[g].awarded = Earned(g)' \/ Owed(g)' \/ g \in torn'
  <2>1. Exists(g) /\ Owed(g) => Owed(g)'
    BY OwedKept
  <2>2. Exists(g)' <=> Exists(g)
    BY DEF Exists
  <2>3. Earned(g)' = Earned(g)
    BY SameEarned
  <2> QED
    BY <2>1, <2>2, <2>3 DEF IInv, AwardIsCurrent
<1> QED
  BY <1>1, <1>2 DEF IInv, AwardIsCurrent

LEMMA ArriveStep ==
  ASSUME IInv, NEW c \in Requests, NEW f \in FlagIds, Arrive(c, f)
  PROVE  IInv'
<1>1. ASSUME NEW v \in Voters, NEW vote \in Signed, VoteRead(c, f, v, vote) PROVE IInv'
  <2> DEFINE q == [Idle EXCEPT !.kind = "vote", !.pc = "cast", !.f = f, !.v = v, !.vote = vote]
  <2>1. q \in RequestDoc /\ Sound(q)
    BY DEF Idle, RequestDoc, Kinds, Points, Sound
  <2>2. ~OwedBy(c)
    BY <1>1 DEF VoteRead, At, OwedBy
  <2> QED
    BY <1>1, <2>1, <2>2, MoveStep DEF VoteRead
<1>2. ASSUME NEW status \in Statuses, ModerateRead(c, f, status) PROVE IInv'
  <2> DEFINE q == [Idle EXCEPT !.kind = "moderate", !.pc = "set", !.f = f, !.put = status]
  <2>1. q \in RequestDoc /\ Sound(q)
    BY DEF Idle, RequestDoc, Kinds, Points, Sound
  <2>2. ~OwedBy(c)
    BY <1>2 DEF ModerateRead, At, OwedBy
  <2> QED
    BY <1>2, <2>1, <2>2, MoveStep DEF ModerateRead
<1>3. CASE UnflagRead(c, f)
  <2> DEFINE q == [Idle EXCEPT !.kind = "unflag", !.pc = "delete", !.f = f]
  <2>1. q \in RequestDoc /\ Sound(q)
    BY DEF Idle, RequestDoc, Kinds, Points, Sound
  <2>2. ~OwedBy(c)
    BY <1>3 DEF UnflagRead, At, OwedBy
  <2> QED
    BY <1>3, <2>1, <2>2, MoveStep DEF UnflagRead
<1>4. \A w \in Weights : w \in Signed /\ -w \in Signed
  BY DEF Signed
<1> QED
  BY <1>1, <1>2, <1>3, <1>4 DEF Arrive

\* A write to one flag by a handler that owes its reconciliation afterwards.
LEMMA OwingStep ==
  ASSUME IInv, NEW c \in Requests, NEW q \in RequestDoc, Sound(q), Goto(c, q),
         NEW doc \in FlagDoc, doc.status \in Statuses,
         flag' = [flag EXCEPT ![req[c].f] = doc], req[c].f \in FlagIds,
         q.f = req[c].f, q.pc = "award" \/ (q.kind = "vote" /\ q.pc = "set"),
         UNCHANGED <<points, sweep, torn, faults>>
  PROVE  IInv'
<1>1. TypeOK' /\ HandlersInv'
  BY GotoKeeps DEF IInv, TypeOK, Statuses, ActiveStatuses
<1>2. ASSUME NEW g \in FlagIds
      PROVE  Exists(g)' => flag'[g].awarded = Earned(g)' \/ Owed(g)' \/ g \in torn'
  <2>1. CASE g = req[c].f
    BY <2>1 DEF Owed, OwedBy, Goto, IInv, TypeOK
  <2>2. CASE g # req[c].f
    <3>1. flag'[g] = flag[g]
      BY <2>2 DEF IInv, TypeOK
    <3>2. Owed(g) => Owed(g)'
      BY <2>2, OwedKept
    <3> QED
      BY <3>1, <3>2, CurrentKept
  <2> QED
    BY <2>1, <2>2
<1> QED
  BY <1>1, <1>2 DEF IInv, AwardIsCurrent

LEMMA CastStep ==
  ASSUME IInv, NEW c \in Requests, Cast(c)
  PROVE  IInv'
<1> DEFINE f == req[c].f
           v == req[c].v
           count == Recount(f, v, req[c].vote)
           doc == [flag[f] EXCEPT !.votes[v] = req[c].vote, !.count = count]
           q == AfterCast(c, Verdict(req[c].vote, count, flag[f].status))
<1>1. /\ f \in FlagIds /\ v \in Voters /\ req[c].vote \in Signed /\ req[c].kind = "vote"
      /\ req[c].pc = "cast" /\ req[c] \in RequestDoc /\ flag[f] \in FlagDoc
  BY DEF Cast, At, IInv, TypeOK, HandlersInv, Sound
<1>2. UNCHANGED <<points, sweep, torn, faults>>
  BY DEF Cast
<1>3. CASE Exists(f) /\ flag[f].votes[v] # req[c].vote
  <2>1. flag' = [flag EXCEPT ![f] = doc] /\ Goto(c, q)
    BY <1>3 DEF Cast, Write
  <2>2. count \in Int
    <3>1. flag[f].votes[v] \in Signed \union {0}
      BY <1>1 DEF FlagDoc
    <3>2. flag[f].votes[v] \in Int /\ req[c].vote \in Int
      BY <1>1, <3>1, SignedIsInt
    <3>3. flag[f].count \in Int
      BY <1>1 DEF FlagDoc
    <3> QED
      BY <3>2, <3>3 DEF Recount
  <2>3. doc \in FlagDoc /\ doc.status \in Statuses
    BY <1>1, <1>3, <2>2 DEF FlagDoc, Exists
  <2>4. Verdict(req[c].vote, count, flag[f].status) \in Statuses \union {"NONE"}
    BY DEF Verdict, Statuses, ActiveStatuses
  <2>5. q \in RequestDoc /\ Sound(q) /\ q.f = f
        /\ (q.pc = "award" \/ (q.kind = "vote" /\ q.pc = "set"))
    <3> HIDE DEF count
    <3> QED
      BY <1>1, <2>4 DEF AfterCast, RequestDoc, Points, Sound
  <2> HIDE DEF doc, q
  <2> QED
    BY <1>1, <1>2, <2>1, <2>3, <2>5, OwingStep
<1>4. CASE ~(Exists(f) /\ flag[f].votes[v] # req[c].vote)
  <2>1. UNCHANGED flag /\ Goto(c, Idle)
    BY <1>4 DEF Cast
  <2>2. ~OwedBy(c)
    BY <1>1 DEF OwedBy
  <2> QED
    BY <1>2, <2>1, <2>2, Shapes, MoveStep
<1> QED
  BY <1>3, <1>4

LEMMA SetStatusStep ==
  ASSUME IInv, NEW c \in Requests, SetStatus(c)
  PROVE  IInv'
<1> DEFINE f == req[c].f
           doc == [flag[f] EXCEPT !.status = req[c].put]
           q == [req[c] EXCEPT !.pc = "award"]
<1>1. /\ f \in FlagIds /\ req[c].put \in Statuses
      /\ req[c] \in RequestDoc /\ flag[f] \in FlagDoc
  BY DEF SetStatus, At, IInv, TypeOK, HandlersInv, Sound
<1>2. UNCHANGED <<points, sweep, torn, faults>>
  BY DEF SetStatus
<1>3. CASE Exists(f)
  <2>1. flag' = [flag EXCEPT ![f] = doc] /\ Goto(c, q)
    BY <1>3 DEF SetStatus, Write
  <2>2. doc \in FlagDoc /\ doc.status \in Statuses
    BY <1>1 DEF FlagDoc
  <2>3. q \in RequestDoc /\ Sound(q) /\ q.f = f /\ q.pc = "award"
    BY <1>1 DEF RequestDoc, Points, Sound
  <2> HIDE DEF doc, q
  <2> QED
    BY <1>1, <1>2, <2>1, <2>2, <2>3, OwingStep
<1>4. CASE ~Exists(f)
  BY <1>2, <1>4, Shapes, MoveStep DEF SetStatus
<1> QED
  BY <1>3, <1>4

\* The transaction leaves the ledger of its flag current, and the points whole.
LEMMA ReconcileKeeps ==
  ASSUME IInv, NEW f \in FlagIds, Reconcile(f), UNCHANGED faults,
         req' \in [Requests -> RequestDoc], sweep' \in [Sweeps -> SweepDoc], HandlersInv',
         \A g \in FlagIds \ {f} : Owed(g) => Owed(g)'
  PROVE  IInv'
<1>1. Earned(f) \in Int /\ flag[f] \in FlagDoc
  BY EarnedIsInt DEF IInv, TypeOK
<1>2. CASE Exists(f)
  <2> DEFINE doc == [flag[f] EXCEPT !.awarded = Earned(f)]
  <2>1. /\ flag' = [flag EXCEPT ![f] = doc]
        /\ points' = Floored(points + Delta(f)) /\ torn' = torn \ {f}
    BY <1>2 DEF Reconcile, Write
  <2>2. doc \in FlagDoc /\ doc.status = flag[f].status /\ doc.votes = flag[f].votes
        /\ doc.awarded = Earned(f)
    BY <1>1 DEF FlagDoc
  <2>3. points' \in Nat
    <3>1. points \in Nat /\ flag[f].awarded \in Int
      BY <1>1 DEF IInv, TypeOK, FlagDoc
    <3>2. points + Delta(f) \in Int
      BY <1>1, <3>1 DEF Delta
    <3> QED
      BY <2>1, <3>2, FlooredIsNat
  <2> HIDE DEF doc
  <2>4. /\ flag'[f] = doc /\ \A g \in FlagIds \ {f} : flag'[g] = flag[g]
        /\ flag' \in [FlagIds -> FlagDoc]
    BY <2>1, <2>2 DEF IInv, TypeOK
  <2>5. \A g \in FlagIds : flag'[g].status = "NONE" => flag'[g] = Unfiled
    BY <1>2, <2>2, <2>4 DEF IInv, TypeOK, Exists, Statuses, ActiveStatuses
  <2>6. TypeOK'
    BY <2>1, <2>3, <2>4, <2>5 DEF IInv, TypeOK
  <2>7. ASSUME NEW g \in FlagIds
        PROVE  Exists(g)' => flag'[g].awarded = Earned(g)' \/ Owed(g)' \/ g \in torn'
    <3>1. CASE g = f
      BY <2>2, <2>4, <3>1, SameEarned
    <3>2. CASE g # f
      BY <2>1, <2>4, <3>2, CurrentKept
    <3> QED
      BY <3>1, <3>2
  <2> QED
    BY <2>6, <2>7 DEF IInv, AwardIsCurrent
<1>3. CASE ~Exists(f)
  <2>1. UNCHANGED <<flag, points, torn>>
    BY <1>3 DEF Reconcile
  <2>2. TypeOK'
    BY <2>1 DEF IInv, TypeOK
  <2>3. ASSUME NEW g \in FlagIds
        PROVE  Exists(g)' => flag'[g].awarded = Earned(g)' \/ Owed(g)' \/ g \in torn'
    <3>1. CASE g = f
      BY <1>3, <2>1, <3>1 DEF Exists
    <3>2. CASE g # f
      BY <2>1, <3>2, CurrentKept
    <3> QED
      BY <3>1, <3>2
  <2> QED
    BY <2>2, <2>3 DEF IInv, AwardIsCurrent
<1> QED
  BY <1>2, <1>3

LEMMA AwardStep ==
  ASSUME IInv, NEW c \in Requests, Award(c)
  PROVE  IInv'
<1>1. PICK f \in FlagIds : f = req[c].f
  BY DEF Award, At, IInv, HandlersInv, Sound
<1>2. Reconcile(f) /\ Goto(c, Idle) /\ UNCHANGED <<sweep, faults>>
  BY <1>1 DEF Award
<1>3. req' \in [Requests -> RequestDoc] /\ HandlersInv'
  BY <1>2, Shapes, GotoKeeps
<1>4. sweep' \in [Sweeps -> SweepDoc]
  BY <1>2 DEF IInv, TypeOK
<1>5. \A g \in FlagIds \ {f} : Owed(g) => Owed(g)'
  BY <1>1, <1>2, OwedKept
<1> QED
  BY <1>2, <1>3, <1>4, <1>5, ReconcileKeeps

LEMMA DeleteStep ==
  ASSUME IInv, NEW c \in Requests, Delete(c)
  PROVE  IInv'
<1> DEFINE f == req[c].f
           doc == [flag[f] EXCEPT !.status = "GONE"]
<1>1. f \in FlagIds /\ flag[f] \in FlagDoc /\ req[c].pc = "delete" /\ req[c].kind = "unflag"
  BY DEF Delete, At, IInv, TypeOK, HandlersInv, Sound
<1>2. /\ flag' = [flag EXCEPT ![f] = doc] /\ Goto(c, Idle)
      /\ UNCHANGED <<points, sweep, torn, faults>>
  BY DEF Delete, Write
<1>3. doc \in FlagDoc /\ doc.status = "GONE"
  BY <1>1 DEF FlagDoc
<1> HIDE DEF doc
<1>4. TypeOK' /\ HandlersInv'
  <2>1. req' \in [Requests -> RequestDoc] /\ HandlersInv'
    BY <1>2, Shapes, GotoKeeps
  <2>2. flag' \in [FlagIds -> FlagDoc]
        /\ \A g \in FlagIds : flag'[g].status = "NONE" => flag'[g] = Unfiled
    BY <1>1, <1>2, <1>3 DEF IInv, TypeOK
  <2> QED
    BY <1>2, <2>1, <2>2 DEF IInv, TypeOK
<1>5. ASSUME NEW g \in FlagIds
      PROVE  Exists(g)' => flag'[g].awarded = Earned(g)' \/ Owed(g)' \/ g \in torn'
  <2>1. CASE g = f
    BY <1>2, <1>3, <2>1 DEF IInv, TypeOK, Exists, Statuses, ActiveStatuses
  <2>2. CASE g # f
    <3>1. flag'[g] = flag[g]
      BY <1>2, <2>2 DEF IInv, TypeOK
    <3>2. Owed(g) => Owed(g)'
      BY <1>2, <2>2, OwedKept
    <3> QED
      BY <1>2, <3>1, <3>2, CurrentKept
  <2> QED
    BY <2>1, <2>2
<1> QED
  BY <1>4, <1>5 DEF IInv, AwardIsCurrent

LEMMA AbortStep ==
  ASSUME IInv, NEW c \in Requests, Abort(c)
  PROVE  IInv'
<1>1. PICK f \in FlagIds : f = req[c].f
  BY DEF Abort, At, IInv, HandlersInv, Sound
<1>2. /\ torn' = IF OwedBy(c) THEN torn \union {f} ELSE torn
      /\ Goto(c, Idle) /\ faults' \in 0..MaxFaults /\ UNCHANGED <<flag, points, sweep>>
  BY <1>1, FlagsAssumption DEF Abort, IInv, TypeOK
<1>3. TypeOK' /\ HandlersInv'
  BY <1>2, Shapes, GotoKeeps DEF IInv, TypeOK
<1>4. ASSUME NEW g \in FlagIds
      PROVE  Exists(g)' => flag'[g].awarded = Earned(g)' \/ Owed(g)' \/ g \in torn'
  <2>1. CASE g = f /\ OwedBy(c)
    BY <1>2, <2>1
  <2>2. CASE ~(g = f /\ OwedBy(c))
    <3>1. Owed(g) => Owed(g)'
      BY <1>1, <1>2, <2>2, OwedKept
    <3> QED
      BY <1>2, <3>1, CurrentKept
  <2> QED
    BY <2>1, <2>2
<1> QED
  BY <1>3, <1>4 DEF IInv, AwardIsCurrent

-----------------------------------------------------------------------------
(* The sweep.                                                              *)

LEMMA SweepOnShape ==
  ASSUME NEW s, NEW left \in SUBSET FlagIds
  PROVE  SweepOn(s, left) \in SweepDoc /\ SweepOn(s, left).pc # "award"
  BY DEF SweepOn, Resting, SweepDoc

LEMMA SweepStepKeeps ==
  ASSUME IInv, NEW s \in Sweeps, SweepStep(s)
  PROVE  IInv'
<1>1. sweep[s] \in SweepDoc
  BY DEF IInv, TypeOK
<1>2. CASE SweepList(s)
  <2> DEFINE d == [sweep[s] EXCEPT !.pc = "set", !.left = {f \in FlagIds : Lapsed(f)}]
  <2>1. d \in SweepDoc /\ d.pc = "set"
    BY <1>1 DEF SweepDoc
  <2>2. sweep' = [sweep EXCEPT ![s] = d] /\ UNCHANGED <<flag, points, req, torn, faults>>
    BY <1>2 DEF SweepList
  <2>3. ~OwedBySweep(s)
    BY <1>2 DEF SweepList, OwedBySweep
  <2> HIDE DEF d
  <2>4. TypeOK' /\ HandlersInv'
    BY <2>1, <2>2, SweepKeeps DEF IInv, TypeOK
  <2>5. ASSUME NEW g \in FlagIds
        PROVE  Exists(g)' => flag'[g].awarded = Earned(g)' \/ Owed(g)' \/ g \in torn'
    <3>1. Owed(g) => Owed(g)'
      BY <2>2, <2>3, OwedKeptBySweep
    <3> QED
      BY <2>2, <3>1, CurrentKept
  <2> QED
    BY <2>4, <2>5 DEF IInv, AwardIsCurrent
<1>3. ASSUME NEW f \in FlagIds, SweepSet(s, f) PROVE IInv'
  <2> DEFINE doc == [flag[f] EXCEPT !.status = "EXPIRED"]
             d == [pc |-> "award", f |-> f, left |-> sweep[s].left \ {f}]
  <2>1. UNCHANGED <<points, req, torn, faults>> /\ ~OwedBySweep(s)
    BY <1>3 DEF SweepSet, OwedBySweep
  <2>2. CASE Exists(f)
    <3>1. flag' = [flag EXCEPT ![f] = doc] /\ sweep' = [sweep EXCEPT ![s] = d]
      BY <1>3, <2>2 DEF SweepSet, Write, IInv, TypeOK
    <3>2. doc \in FlagDoc /\ doc.status = "EXPIRED"
      BY DEF IInv, TypeOK, FlagDoc, Statuses
    <3>3. d \in SweepDoc /\ d.f = f /\ d.pc = "award"
      BY <1>1 DEF SweepDoc
    <3> HIDE DEF doc, d
    <3>4. sweep' \in [Sweeps -> SweepDoc] /\ HandlersInv'
      BY <2>1, <3>1, <3>3, SweepKeeps
    <3>5. flag' \in [FlagIds -> FlagDoc]
          /\ \A g \in FlagIds : flag'[g].status = "NONE" => flag'[g] = Unfiled
      BY <3>1, <3>2 DEF IInv, TypeOK
    <3>6. TypeOK'
      BY <2>1, <3>4, <3>5 DEF IInv, TypeOK
    <3>7. ASSUME NEW g \in FlagIds
          PROVE  Exists(g)' => flag'[g].awarded = Earned(g)' \/ Owed(g)' \/ g \in torn'
      <4>1. CASE g = f
        BY <3>1, <3>3, <4>1 DEF Owed, OwedBySweep, IInv, TypeOK
      <4>2. CASE g # f
        <5>1. flag'[g] = flag[g]
          BY <3>1, <4>2 DEF IInv, TypeOK
        <5>2. Owed(g) => Owed(g)'
          BY <2>1, <3>1, OwedKeptBySweep
        <5> QED
          BY <2>1, <5>1, <5>2, CurrentKept
      <4> QED
        BY <4>1, <4>2
    <3> QED
      BY <3>4, <3>6, <3>7 DEF IInv, AwardIsCurrent
  <2>3. CASE ~Exists(f)
    <3>1. UNCHANGED flag /\ sweep' = [sweep EXCEPT ![s] = Resting]
      BY <1>3, <2>3 DEF SweepSet
    <3>2. TypeOK' /\ HandlersInv'
      <4>1. Resting.pc # "award"
        BY DEF Resting
      <4> QED
        BY <2>1, <3>1, <4>1, Shapes, SweepKeeps DEF IInv, TypeOK
    <3>3. ASSUME NEW g \in FlagIds
          PROVE  Exists(g)' => flag'[g].awarded = Earned(g)' \/ Owed(g)' \/ g \in torn'
      <4>1. Owed(g) => Owed(g)'
        BY <2>1, <3>1, OwedKeptBySweep
      <4> QED
        BY <2>1, <3>1, <4>1, CurrentKept
    <3> QED
      BY <3>2, <3>3 DEF IInv, AwardIsCurrent
  <2> QED
    BY <2>2, <2>3
<1>4. CASE SweepAward(s)
  <2>1. PICK f \in FlagIds : f = sweep[s].f
    BY <1>4 DEF SweepAward, IInv, HandlersInv
  <2> DEFINE d == SweepOn(s, sweep[s].left)
  <2>2. Reconcile(f) /\ sweep' = [sweep EXCEPT ![s] = d] /\ UNCHANGED <<req, faults>>
    BY <1>4, <2>1 DEF SweepAward, IInv, TypeOK
  <2>3. d \in SweepDoc /\ d.pc # "award"
    BY <1>1, SweepOnShape DEF SweepDoc
  <2> HIDE DEF d
  <2>4. sweep' \in [Sweeps -> SweepDoc] /\ HandlersInv'
    BY <2>2, <2>3, SweepKeeps
  <2>5. req' \in [Requests -> RequestDoc]
    BY <2>2 DEF IInv, TypeOK
  <2>6. \A g \in FlagIds \ {f} : Owed(g) => Owed(g)'
    BY <2>1, <2>2, OwedKeptBySweep
  <2> QED
    BY <2>2, <2>4, <2>5, <2>6, ReconcileKeeps
<1> QED
  BY <1>2, <1>3, <1>4 DEF SweepStep

LEMMA AbortSweepStep ==
  ASSUME IInv, NEW s \in Sweeps, AbortSweep(s)
  PROVE  IInv'
<1>1. /\ torn' = IF OwedBySweep(s) THEN torn \union {sweep[s].f} ELSE torn
      /\ sweep' = [sweep EXCEPT ![s] = Resting]
      /\ faults' \in 0..MaxFaults /\ UNCHANGED <<flag, points, req>>
  BY FlagsAssumption DEF AbortSweep, IInv, TypeOK
<1>2. torn' \subseteq FlagIds
  BY <1>1 DEF IInv, TypeOK, HandlersInv, OwedBySweep
<1>3. TypeOK' /\ HandlersInv'
  <2>1. Resting.pc # "award"
    BY DEF Resting
  <2> QED
    BY <1>1, <1>2, <2>1, Shapes, SweepKeeps DEF IInv, TypeOK
<1>4. ASSUME NEW g \in FlagIds
      PROVE  Exists(g)' => flag'[g].awarded = Earned(g)' \/ Owed(g)' \/ g \in torn'
  <2>1. CASE g = sweep[s].f /\ OwedBySweep(s)
    BY <1>1, <2>1
  <2>2. CASE ~(g = sweep[s].f /\ OwedBySweep(s))
    <3>1. Owed(g) => Owed(g)'
      BY <1>1, <2>2, OwedKeptBySweep
    <3> QED
      BY <1>1, <3>1, CurrentKept
  <2> QED
    BY <2>1, <2>2
<1> QED
  BY <1>3, <1>4 DEF IInv, AwardIsCurrent

-----------------------------------------------------------------------------
LEMMA NextIInv == IInv /\ [Next]_vars => IInv'
<1> SUFFICES ASSUME IInv, [Next]_vars PROVE IInv'
  OBVIOUS
<1>1. ASSUME NEW f \in FlagIds, Create(f) \/ Lapse(f) PROVE IInv'
  BY <1>1, FileStep
<1>2. ASSUME NEW c \in Requests, NEW f \in FlagIds, Arrive(c, f) PROVE IInv'
  BY <1>2, ArriveStep
<1>3. ASSUME NEW c \in Requests, Handle(c) PROVE IInv'
  BY <1>3, CastStep, SetStatusStep, AwardStep, DeleteStep DEF Handle
<1>4. ASSUME NEW c \in Requests, Abort(c) PROVE IInv'
  BY <1>4, AbortStep
<1>5. ASSUME NEW s \in Sweeps, SweepStep(s) \/ AbortSweep(s) PROVE IInv'
  BY <1>5, SweepStepKeeps, AbortSweepStep
<1>6. CASE UNCHANGED vars
  BY <1>6 DEF vars, IInv, TypeOK, HandlersInv, AwardIsCurrent, Exists, Earned, Score,
              Bonus, Ups, Downs, Owed, OwedBy, OwedBySweep
<1> QED
  BY <1>1, <1>2, <1>3, <1>4, <1>5, <1>6 DEF Next

LEMMA Invariance == Spec => []IInv
  BY InitIInv, NextIInv, PTL DEF Spec

\* Whatever riders, administrators and sweeps do at once, every document keeps
\* its shape and a reporter's points are never negative.
THEOREM Typing == Spec => []TypeOK
<1>1. IInv => TypeOK
  BY DEF IInv
<1> QED
  BY <1>1, Invariance, PTL

\* A flag's ledger is what its votes and status earn, unless a handler in flight
\* is about to reconcile it or died before it could: for any number of voters,
\* requests and sweeps (flagService and reconcileReporterAward).
THEOREM AwardNeverForgotten == Spec => []AwardIsCurrent
<1>1. IInv => AwardIsCurrent
  BY DEF IInv
<1> QED
  BY <1>1, Invariance, PTL
-----------------------------------------------------------------------------
(* Sums.  The fold walks through the domain, taking away one element after  *)
(* the other; what a walk of a part comes to is said by a function on the   *)
(* subsets of the domain.                                                   *)

Pick(s) == CHOOSE x \in s : TRUE
Rest(s) == s \ {Pick(s)}
Along(g, h, s) == IF s = {} THEN 0 ELSE g[Pick(s)] + h[Rest(s)]
IsWalk(g, h, S) == h = [s \in SUBSET S |-> Along(g, h, s)]
WalkOf(g, S) == CHOOSE h : IsWalk(g, h, S)

\* A part of the domain that is smallest among some parts.
LEMMA SmallestPart ==
  ASSUME NEW S, IsFiniteSet(S), NEW T, T \subseteq SUBSET S, T # {}
  PROVE  \E m \in T : \A y \in T : y \subseteq m => y = m
<1>1. IsWellFoundedOn(StrictSubsetOrdering(S), FiniteSubsetsOf(S))
  BY FS_StrictSubsetOrderingWellFounded
<1>2. FiniteSubsetsOf(S) = SUBSET S
  BY FS_FiniteSubsetsOfFinite
<1>3. PICK m \in T : \A y \in T : ~ (<<y, m>> \in StrictSubsetOrdering(S))
  BY <1>1, <1>2, WFMin
<1>4. QED
  BY <1>3 DEF StrictSubsetOrdering

LEMMA PickIs == ASSUME NEW s, s # {} PROVE Pick(s) \in s /\ Rest(s) \subseteq s /\ Rest(s) # s
BY DEF Pick, Rest

\* Two walks agree where both go.
LEMMA WalksAgree ==
  ASSUME NEW g, NEW S, IsFiniteSet(S), NEW A \in SUBSET S, NEW B \in SUBSET S,
         NEW h, IsWalk(g, h, A), NEW k, IsWalk(g, k, B), NEW s \in SUBSET (A \cap B)
  PROVE  h[s] = k[s]
<1> DEFINE T == {t \in SUBSET (A \cap B) : h[t] # k[t]}
<1>1. SUFFICES ASSUME T # {} PROVE FALSE
  OBVIOUS
<1>2. PICK m \in T : \A y \in T : y \subseteq m => y = m
  <2>1. T \subseteq SUBSET S
    OBVIOUS
  <2> HIDE DEF T
  <2> QED
    BY <1>1, <2>1, SmallestPart
<1>3. h[m] = Along(g, h, m) /\ k[m] = Along(g, k, m)
  BY DEF IsWalk
<1>4. m # {}
  BY <1>3 DEF Along
<1>5. Rest(m) \in SUBSET (A \cap B) /\ Rest(m) \notin T
  BY <1>2, <1>4, PickIs
<1>6. QED
  BY <1>3, <1>4, <1>5 DEF Along

LEMMA WalkExists ==
  ASSUME NEW g, NEW S, IsFiniteSet(S)
  PROVE  IsWalk(g, WalkOf(g, S), S)
<1> DEFINE T == {t \in SUBSET S : ~ \E h : IsWalk(g, h, t)}
<1>1. SUFFICES T = {}
  BY DEF WalkOf
<1>2. SUFFICES ASSUME T # {} PROVE FALSE
  OBVIOUS
<1>3. PICK m \in T : \A y \in T : y \subseteq m => y = m
  <2>1. T \subseteq SUBSET S
    OBVIOUS
  <2> HIDE DEF T
  <2> QED
    BY <1>2, <2>1, SmallestPart
<1>4. \A s \in SUBSET m : s # m => IsWalk(g, WalkOf(g, s), s)
  BY <1>3 DEF WalkOf
<1> DEFINE V(s) == IF s = {} THEN 0 ELSE g[Pick(s)] + WalkOf(g, Rest(s))[Rest(s)]
           h == [s \in SUBSET m |-> V(s)]
<1>5. ASSUME NEW s \in SUBSET m PROVE V(s) = Along(g, h, s)
  <2>1. CASE s = {}
    BY <2>1 DEF Along
  <2>2. CASE s # {}
    <3>1. Rest(s) \in SUBSET m /\ Rest(s) # m
      BY <2>2, PickIs
    <3> DEFINE r == Rest(s)
    <3>2. WalkOf(g, r)[r] = Along(g, WalkOf(g, r), r)
      BY <1>4, <3>1 DEF IsWalk
    <3>3. h[r] = V(r)
      BY <3>1
    <3>4. CASE r = {}
      BY <2>2, <3>2, <3>3, <3>4 DEF Along
    <3>5. CASE r # {}
      <4>1. Rest(r) \in SUBSET r /\ Rest(r) # m
        BY <3>1, <3>5, PickIs
      <4>2. WalkOf(g, r)[Rest(r)] = WalkOf(g, Rest(r))[Rest(r)]
        BY <1>4, <3>1, <4>1, WalksAgree
      <4> QED
        BY <2>2, <3>2, <3>3, <3>5, <4>2 DEF Along
    <3> QED
      BY <3>4, <3>5
  <2> QED
    BY <2>1, <2>2
<1>6. IsWalk(g, h, m)
  BY <1>5 DEF IsWalk
<1>7. QED
  BY <1>3, <1>6

LEMMA SumWalks == ASSUME NEW g PROVE Sum(g) = WalkOf(g, DOMAIN g)[DOMAIN g]
BY DEF Sum, FoldFunction, FoldFunctionOnSet, MapThenFoldSet, WalkOf, IsWalk, Along, Rest, Pick

\* The sum of g over a part of its domain.
Part(g, S, s) == WalkOf(g, S)[s]

LEMMA PartIs ==
  ASSUME NEW S, IsFiniteSet(S), NEW g \in [S -> Int], NEW s \in SUBSET S
  PROVE  Part(g, S, s) \in Int /\ Part(g, S, s) = IF s = {} THEN 0 ELSE g[Pick(s)] + Part(g, S, Rest(s))
<1> DEFINE T == {t \in SUBSET S : Part(g, S, t) \notin Int}
<1>1. \A t \in SUBSET S : Part(g, S, t) = IF t = {} THEN 0 ELSE g[Pick(t)] + Part(g, S, Rest(t))
  <2> DEFINE w == WalkOf(g, S)
  <2>1. IsWalk(g, w, S)
    BY WalkExists
  <2> HIDE DEF w
  <2>2. \A t \in SUBSET S : w[t] = IF t = {} THEN 0 ELSE g[Pick(t)] + w[Rest(t)]
    BY <2>1 DEF IsWalk, Along
  <2> QED
    BY <2>2 DEF Part, w
<1>2. SUFFICES ASSUME T # {} PROVE FALSE
  BY <1>1
<1>3. PICK m \in T : \A y \in T : y \subseteq m => y = m
  <2>1. T \subseteq SUBSET S
    OBVIOUS
  <2> HIDE DEF T
  <2> QED
    BY <1>2, <2>1, SmallestPart
<1>4. CASE m = {}
  BY <1>1, <1>4
<1>5. CASE m # {}
  <2>1. Pick(m) \in S /\ Rest(m) \in SUBSET S /\ Rest(m) \notin T
    BY <1>3, <1>5, PickIs
  <2> QED
    BY <1>1, <1>5, <2>1
<1>6. QED
  BY <1>4, <1>5

\* It does not matter which element is taken away first.
LEMMA PartTakes ==
  ASSUME NEW S, IsFiniteSet(S), NEW g \in [S -> Int], NEW s \in SUBSET S, NEW x \in s
  PROVE  Part(g, S, s) = g[x] + Part(g, S, s \ {x})
<1> DEFINE Bad(t) == \E y \in t : Part(g, S, t) # g[y] + Part(g, S, t \ {y})
           T == {t \in SUBSET S : Bad(t)}
<1>1. SUFFICES ASSUME T # {} PROVE FALSE
  OBVIOUS
<1>2. PICK m \in T : \A y \in T : y \subseteq m => y = m
  <2>1. T \subseteq SUBSET S
    OBVIOUS
  <2> HIDE DEF T
  <2> QED
    BY <1>1, <2>1, SmallestPart
<1>3. PICK y \in m : Part(g, S, m) # g[y] + Part(g, S, m \ {y})
  OBVIOUS
<1> DEFINE p == Pick(m)
<1>4. p \in m /\ m \in SUBSET S /\ Part(g, S, m) = g[p] + Part(g, S, m \ {p}) /\ y # p
  BY <1>3, PickIs, PartIs DEF Rest
<1> HIDE DEF p
<1>5. ASSUME NEW z \in m PROVE ~Bad(m \ {z})
  <2>1. m \ {z} \subseteq m /\ m \ {z} # m /\ m \ {z} \in SUBSET S
    BY <1>4
  <2> HIDE DEF T, Bad
  <2>2. m \ {z} \notin T
    BY <1>2, <2>1
  <2> QED
    BY <2>1, <2>2 DEF T
<1>6. /\ Part(g, S, m \ {p}) = g[y] + Part(g, S, (m \ {p}) \ {y})
      /\ Part(g, S, m \ {y}) = g[p] + Part(g, S, (m \ {y}) \ {p})
  BY <1>3, <1>4, <1>5
<1>7. (m \ {p}) \ {y} = (m \ {y}) \ {p}
  OBVIOUS
<1>8. g[y] \in Int /\ g[p] \in Int /\ Part(g, S, (m \ {y}) \ {p}) \in Int
  BY <1>3, <1>4, PartIs
<1> HIDE DEF T
<1>9. PICK a, b, c \in Int : a = g[y] /\ b = g[p] /\ c = Part(g, S, (m \ {y}) \ {p})
  BY <1>8
<1>10. Part(g, S, m \ {p}) = a + c /\ Part(g, S, m \ {y}) = b + c
  BY <1>6, <1>7, <1>9
<1>11. Part(g, S, m) = b + (a + c) /\ Part(g, S, m) # a + (b + c)
  BY <1>3, <1>4, <1>9, <1>10
<1>12. b + (a + c) = a + (b + c)
  OBVIOUS
<1>13. QED
  BY <1>11, <1>12

LEMMA PartsAgree ==
  ASSUME NEW S, IsFiniteSet(S), NEW g \in [S -> Int], NEW k \in [S -> Int], NEW s \in SUBSET S,
         \A x \in s : g[x] = k[x]
  PROVE  Part(g, S, s) = Part(k, S, s)
<1> DEFINE T == {t \in SUBSET s : Part(g, S, t) # Part(k, S, t)}
<1>1. SUFFICES ASSUME T # {} PROVE FALSE
  OBVIOUS
<1>2. PICK m \in T : \A y \in T : y \subseteq m => y = m
  <2>1. T \subseteq SUBSET S
    OBVIOUS
  <2> HIDE DEF T
  <2> QED
    BY <1>1, <2>1, SmallestPart
<1>3. CASE m = {}
  BY <1>3, PartIs
<1>4. CASE m # {}
  <2>1. Pick(m) \in s /\ Rest(m) \in SUBSET s /\ Rest(m) \notin T
    BY <1>2, <1>4, PickIs
  <2> QED
    BY <1>4, <2>1, PartIs
<1>5. QED
  BY <1>3, <1>4

\* What a sum is when one summand is written.
LEMMA SumWithout ==
  ASSUME NEW S, IsFiniteSet(S), NEW g \in [S -> Int], NEW x \in S
  PROVE  /\ Sum(g) \in Int /\ Sum(g) = g[x] + Part(g, S, S \ {x}) /\ Part(g, S, S \ {x}) \in Int
<1>1. Sum(g) = Part(g, S, S)
  BY SumWalks DEF Part
<1>2. QED
  BY <1>1, PartIs, PartTakes

LEMMA SumIsInt == ASSUME NEW S, IsFiniteSet(S), NEW g \in [S -> Int] PROVE Sum(g) \in Int
BY SumWalks, PartIs DEF Part

LEMMA SumWrites ==
  ASSUME NEW S, IsFiniteSet(S), NEW g \in [S -> Int], NEW k \in [S -> Int], NEW x \in S,
         \A y \in S \ {x} : k[y] = g[y]
  PROVE  Sum(k) = Sum(g) + (k[x] - g[x])
<1>1. Part(g, S, S \ {x}) = Part(k, S, S \ {x})
  BY PartsAgree
<1>2. QED
  BY <1>1, SumWithout

LEMMA SumOfZeros ==
  ASSUME NEW S, IsFiniteSet(S), NEW g \in [S -> Int], \A x \in S : g[x] = 0
  PROVE  Sum(g) = 0
<1> DEFINE T == {t \in SUBSET S : Part(g, S, t) # 0}
<1>1. SUFFICES ASSUME T # {} PROVE FALSE
  BY SumWalks DEF Part
<1>2. PICK m \in T : \A y \in T : y \subseteq m => y = m
  <2>1. T \subseteq SUBSET S
    OBVIOUS
  <2> HIDE DEF T
  <2> QED
    BY <1>1, <2>1, SmallestPart
<1>3. CASE m = {}
  BY <1>3, PartIs
<1>4. CASE m # {}
  <2>1. Pick(m) \in S /\ Rest(m) \in SUBSET S /\ Rest(m) \notin T
    BY <1>2, <1>4, PickIs
  <2> QED
    BY <1>4, <2>1, PartIs
<1>5. QED
  BY <1>3, <1>4

LEMMA Shares ==
  ASSUME NEW n \in Nat, NEW b \in Nat
  PROVE  (n + 1) * b = n * b + b /\ n * b \in Nat
OBVIOUS

LEMMA SumAtLeast ==
  ASSUME NEW S, IsFiniteSet(S), NEW g \in [S -> Int], NEW b \in Nat, \A x \in S : g[x] >= -b
  PROVE  Sum(g) >= -(Cardinality(S) * b)
<1> DEFINE T == {t \in SUBSET S : ~ (Part(g, S, t) >= -(Cardinality(t) * b))}
<1>1. SUFFICES ASSUME T # {} PROVE FALSE
  BY SumWalks DEF Part
<1>2. PICK m \in T : \A y \in T : y \subseteq m => y = m
  <2>1. T \subseteq SUBSET S
    OBVIOUS
  <2> HIDE DEF T
  <2> QED
    BY <1>1, <2>1, SmallestPart
<1>3. CASE m = {}
  BY <1>3, PartIs, FS_EmptySet
<1>4. CASE m # {}
  <2> DEFINE r == Rest(m)
  <2>1. Pick(m) \in m /\ r \in SUBSET S /\ r \notin T
    BY <1>2, <1>4, PickIs
  <2>2. IsFiniteSet(r) /\ IsFiniteSet(m) /\ Cardinality(r) \in Nat /\ Cardinality(m) = Cardinality(r) + 1
    <3>1. IsFiniteSet(r) /\ IsFiniteSet(m)
      BY <2>1, FS_Subset
    <3>2. Cardinality(r) \in Nat /\ Cardinality(m) \in Nat
      BY <3>1, FS_CardinalityType
    <3>3. Cardinality(r) = Cardinality(m) - 1
      BY <2>1, <3>1, FS_RemoveElement DEF Rest
    <3> QED
      BY <3>1, <3>2, <3>3
  <2>3. Part(g, S, m) = g[Pick(m)] + Part(g, S, r) /\ Part(g, S, r) \in Int
    BY <1>4, <2>1, PartIs
  <2>4. Part(g, S, r) >= -(Cardinality(r) * b) /\ g[Pick(m)] >= -b /\ g[Pick(m)] \in Int
    BY <2>1
  <2> DEFINE c == Cardinality(r)
  <2>5. c \in Nat /\ Cardinality(m) * b = c * b + b /\ c * b \in Nat
    BY <2>2, Shares
  <2>6. ~ (Part(g, S, m) >= -(Cardinality(m) * b))
    OBVIOUS
  <2> HIDE DEF r, c
  <2>7. Part(g, S, r) >= -(c * b)
    BY <2>4 DEF c
  <2> QED
    BY <2>3, <2>4, <2>5, <2>6, <2>7
<1>5. QED
  BY <1>3, <1>4
-----------------------------------------------------------------------------
(* The ledger and the points.                                              *)

Ledger == [f \in FlagIds |-> flag[f].awarded]

\* A flag never costs its reporter more than a point for every voter, so that
\* points of a reporter who can afford that never reach the floor.
AwardsBounded == \A f \in FlagIds : flag[f].awarded >= -Cardinality(Voters)

Tally == AwardsBounded /\ PointsFollowLedger

LEMMA Counts ==
  /\ IsFiniteSet(Voters) /\ IsFiniteSet(FlagIds) /\ Opening \in Nat
  /\ Cardinality(Voters) \in Nat /\ Cardinality(FlagIds) \in Nat
  /\ Cardinality(FlagIds) * Cardinality(Voters) \in Nat
<1>1. IsFiniteSet(Voters) /\ IsFiniteSet(FlagIds) /\ Opening \in Nat
  BY FlagsAssumption
<1>2. Cardinality(Voters) \in Nat /\ Cardinality(FlagIds) \in Nat
  BY <1>1, FS_CardinalityType
<1> QED
  BY <1>1, <1>2, Shares

LEMMA LedgerIs ==
  ASSUME IInv
  PROVE  /\ Ledger \in [FlagIds -> Int]
         /\ \A f \in FlagIds : Ledger[f] = flag[f].awarded /\ flag[f].votes \in [Voters -> Int]
                               /\ flag[f].count \in Int /\ flag[f].awarded \in Int
<1>1. \A f \in FlagIds : flag[f] \in FlagDoc
  BY DEF IInv, TypeOK
<1>2. \A x \in Signed \union {0} : x \in Int
  BY SignedIsInt
<1>3. ASSUME NEW f \in FlagIds
      PROVE  flag[f].votes \in [Voters -> Int] /\ flag[f].count \in Int /\ flag[f].awarded \in Int
  <2>1. flag[f].votes \in [Voters -> Signed \union {0}] /\ flag[f].count \in Int /\ flag[f].awarded \in Int
    BY <1>1 DEF FlagDoc
  <2> QED
    BY <1>2, <2>1
<1> QED
  BY <1>3 DEF Ledger

LEMMA InitTally == Init => Tally
<1> SUFFICES ASSUME Init PROVE Tally
  OBVIOUS
<1>1. IInv
  BY InitIInv
<1>2. \A f \in FlagIds : flag[f].awarded = 0 /\ flag[f].count = 0 /\ flag[f].votes = NoVotes
  BY DEF Init, Unfiled
<1>3. Sum(Ledger) = 0
  BY <1>1, <1>2, LedgerIs, Counts, SumOfZeros
<1>4. NoVotes \in [Voters -> Int] /\ \A v \in Voters : NoVotes[v] = 0
  BY DEF NoVotes
<1>5. Sum(NoVotes) = 0
  BY <1>4, Counts, SumOfZeros
<1>6. points = Opening
  BY DEF Init
<1>7. AwardsBounded
  BY <1>2, Counts DEF AwardsBounded
<1> QED
  BY <1>2, <1>3, <1>5, <1>6, <1>7, Counts DEF Tally, PointsFollowLedger, Ledger

\* A step that touches neither votes, nor counts, nor the ledger.
LEMMA TallyKept ==
  ASSUME Tally, UNCHANGED points,
         \A f \in FlagIds : /\ flag'[f].votes = flag[f].votes /\ flag'[f].count = flag[f].count
                            /\ flag'[f].awarded = flag[f].awarded
  PROVE  Tally'
<1>1. Ledger' = Ledger
  BY DEF Ledger
<1> QED
  BY <1>1 DEF Tally, AwardsBounded, PointsFollowLedger, Ledger

\* A write of one flag's status, or of its time.
LEMMA PlainWrite ==
  ASSUME IInv, Tally, NEW f \in FlagIds, NEW doc, Write(f, doc), UNCHANGED points,
         doc.votes = flag[f].votes, doc.count = flag[f].count, doc.awarded = flag[f].awarded
  PROVE  Tally'
<1>1. \A g \in FlagIds : flag'[g] = IF g = f THEN doc ELSE flag[g]
  BY DEF Write, IInv, TypeOK
<1> QED
  BY <1>1, TallyKept

LEMMA PlainSteps ==
  ASSUME IInv, Tally, NEW f \in FlagIds,
         \/ Create(f) \/ Lapse(f)
         \/ \E c \in Requests : req[c].f = f /\ (SetStatus(c) \/ Delete(c))
         \/ \E s \in Sweeps : SweepSet(s, f)
  PROVE  Tally'
<1>1. flag[f] \in FlagDoc
  BY DEF IInv, TypeOK
<1>2. CASE Create(f)
  <2> DEFINE doc == [Unfiled EXCEPT !.status = "SUGGESTED"]
  <2>1. doc.votes = flag[f].votes /\ doc.count = flag[f].count /\ doc.awarded = flag[f].awarded
    BY <1>2 DEF Create, Unfiled
  <2>2. Write(f, doc) /\ UNCHANGED points
    BY <1>2 DEF Create
  <2> HIDE DEF doc
  <2> QED
    BY <2>1, <2>2, PlainWrite
<1>3. CASE Lapse(f)
  <2> DEFINE doc == [flag[f] EXCEPT !.lapsed = TRUE]
  <2>1. doc.votes = flag[f].votes /\ doc.count = flag[f].count /\ doc.awarded = flag[f].awarded
    BY <1>1 DEF FlagDoc
  <2>2. Write(f, doc) /\ UNCHANGED points
    BY <1>3 DEF Lapse
  <2> HIDE DEF doc
  <2> QED
    BY <2>1, <2>2, PlainWrite
<1>4. ASSUME NEW st, Write(f, [flag[f] EXCEPT !.status = st]), UNCHANGED points
      PROVE  Tally'
  <2> DEFINE doc == [flag[f] EXCEPT !.status = st]
  <2>1. doc.votes = flag[f].votes /\ doc.count = flag[f].count /\ doc.awarded = flag[f].awarded
    BY <1>1 DEF FlagDoc
  <2>2. Write(f, doc) /\ UNCHANGED points
    BY <1>4
  <2> HIDE DEF doc
  <2> QED
    BY <2>1, <2>2, PlainWrite
<1>5. ASSUME UNCHANGED <<flag, points>> PROVE Tally'
  BY <1>5, TallyKept
<1>6. ASSUME NEW c \in Requests, req[c].f = f, SetStatus(c) PROVE Tally'
  BY <1>4, <1>5, <1>6 DEF SetStatus
<1>7. ASSUME NEW c \in Requests, req[c].f = f, Delete(c) PROVE Tally'
  BY <1>4, <1>7 DEF Delete
<1>8. ASSUME NEW s \in Sweeps, SweepSet(s, f) PROVE Tally'
  BY <1>4, <1>5, <1>8 DEF SweepSet
<1> QED
  BY <1>2, <1>3, <1>6, <1>7, <1>8

\* A vote that takes another one's place moves the count by their difference.
LEMMA CastTally ==
  ASSUME IInv, Tally, NEW c \in Requests, Cast(c)
  PROVE  Tally'
<1> DEFINE f == req[c].f
           v == req[c].v
           x == req[c].vote
           count == Recount(f, v, x)
           doc == [flag[f] EXCEPT !.votes[v] = x, !.count = count]
<1>1. f \in FlagIds /\ v \in Voters /\ x \in Signed /\ flag[f] \in FlagDoc /\ UNCHANGED points
  BY DEF Cast, At, IInv, TypeOK, HandlersInv, Sound
<1>2. CASE UNCHANGED flag
  BY <1>1, <1>2, TallyKept
<1>3. CASE flag' = [flag EXCEPT ![f] = doc]
  <2>1. /\ doc.votes = [flag[f].votes EXCEPT ![v] = x] /\ doc.count = count
        /\ doc.awarded = flag[f].awarded
    BY <1>1 DEF FlagDoc
  <2> HIDE DEF doc
  <2>2. \A g \in FlagIds : flag'[g] = IF g = f THEN doc ELSE flag[g]
    BY <1>1, <1>3 DEF IInv, TypeOK
  <2>3. flag[f].votes \in [Voters -> Int] /\ flag[f].count \in Int /\ x \in Int
    BY <1>1, LedgerIs, SignedIsInt
  <2> DEFINE old == flag[f].votes
             new == [old EXCEPT ![v] = x]
  <2>4. new \in [Voters -> Int] /\ new[v] = x /\ \A y \in Voters \ {v} : new[y] = old[y]
    BY <1>1, <2>3
  <2>5. Sum(new) = Sum(old) + (x - old[v])
    BY <1>1, <2>3, <2>4, Counts, SumWrites
  <2>6. flag[f].count = Sum(old)
    BY <1>1 DEF Tally, PointsFollowLedger
  <2>7. old[v] \in Int
    BY <1>1, <2>3
  <2>8. doc.count = Sum(doc.votes)
    BY <2>1, <2>3, <2>5, <2>6, <2>7 DEF Recount
  <2>9. \A g \in FlagIds : flag'[g].count = Sum(flag'[g].votes) /\ flag'[g].awarded = flag[g].awarded
    BY <2>1, <2>2, <2>8 DEF Tally, PointsFollowLedger
  <2>10. [g \in FlagIds |-> flag'[g].awarded] = [g \in FlagIds |-> flag[g].awarded]
    BY <2>9
  <2> QED
    BY <1>1, <2>9, <2>10 DEF Tally, AwardsBounded, PointsFollowLedger
<1> QED
  BY <1>2, <1>3 DEF Cast, Write

LEMMA EarnsAtLeast ==
  ASSUME NEW f
  PROVE  Earned(f) \in Int /\ Earned(f) >= -Cardinality(Voters)
<1>1. Ups(f) \in SUBSET Voters /\ Downs(f) \in SUBSET Voters
  BY DEF Ups, Downs
<1>2. IsFiniteSet(Ups(f)) /\ IsFiniteSet(Downs(f)) /\ Cardinality(Downs(f)) <= Cardinality(Voters)
  BY <1>1, Counts, FS_Subset
<1>3. Cardinality(Ups(f)) \in Nat /\ Cardinality(Downs(f)) \in Nat
  BY <1>2, FS_CardinalityType
<1> QED
  BY <1>2, <1>3, Counts DEF Earned, Score, Bonus

\* The transaction moves the points by as much as the ledger; they would only stop
\* at the floor for a reporter who cannot afford all the votes there may be.
LEMMA ReconcileTally ==
  ASSUME IInv, Tally, NEW f \in FlagIds, Reconcile(f)
  PROVE  Tally'
<1>1. flag[f] \in FlagDoc /\ points \in Nat
  BY DEF IInv, TypeOK
<1>2. CASE UNCHANGED <<flag, points>>
  BY <1>2, TallyKept
<1>3. CASE Exists(f)
  <2> DEFINE doc == [flag[f] EXCEPT !.awarded = Earned(f)]
             e == Earned(f)
  <2>1. flag' = [flag EXCEPT ![f] = doc] /\ points' = Floored(points + Delta(f))
    BY <1>3 DEF Reconcile, Write
  <2>2. doc.votes = flag[f].votes /\ doc.count = flag[f].count /\ doc.awarded = e
    BY <1>1 DEF FlagDoc
  <2> HIDE DEF doc
  <2>3. \A g \in FlagIds : flag'[g] = IF g = f THEN doc ELSE flag[g]
    BY <2>1 DEF IInv, TypeOK
  <2> DEFINE new == [g \in FlagIds |-> flag'[g].awarded]
  <2>4. e \in Int /\ e >= -Cardinality(Voters)
    BY EarnsAtLeast
  <2> HIDE DEF e
  <2>5. Ledger \in [FlagIds -> Int] /\ Ledger[f] \in Int /\ Ledger[f] = flag[f].awarded
    BY LedgerIs
  <2>6. new \in [FlagIds -> Int] /\ new[f] = e /\ \A g \in FlagIds \ {f} : new[g] = Ledger[g]
    BY <2>2, <2>3, <2>4, LedgerIs
  <2>7. \A g \in FlagIds : new[g] >= -Cardinality(Voters)
    BY <2>2, <2>3, <2>4 DEF Tally, AwardsBounded
  <2>8. \A g \in FlagIds : flag'[g].count = Sum(flag'[g].votes)
    BY <2>2, <2>3 DEF Tally, PointsFollowLedger
  <2>9. AwardsBounded'
    BY <2>7 DEF AwardsBounded
  <2> DEFINE bound == Cardinality(FlagIds) * Cardinality(Voters)
  <2>10. ASSUME Opening >= bound PROVE points' = Opening + Sum(new)
    <3>1. Sum(new) = Sum(Ledger) + (e - Ledger[f])
      BY <2>5, <2>6, Counts, SumWrites
    <3>2. Sum(new) \in Int /\ Sum(new) >= -bound /\ Sum(Ledger) \in Int
      BY <2>5, <2>6, <2>7, Counts, SumAtLeast, SumIsInt
    <3>3. points = Opening + Sum(Ledger)
      BY <2>10 DEF Tally, PointsFollowLedger, Ledger
    <3>4. Delta(f) = e - Ledger[f]
      BY <2>5 DEF Delta, e
    <3>5. bound \in Nat /\ Opening \in Nat
      BY Counts
    <3> HIDE DEF bound, new
    <3>6. points + Delta(f) = Opening + Sum(new) /\ Opening + Sum(new) \in Int /\ Opening + Sum(new) >= 0
      BY <2>4, <2>5, <2>10, <3>1, <3>2, <3>3, <3>4, <3>5
    <3> QED
      BY <2>1, <3>6 DEF Floored
  <2> HIDE DEF new
  <2> QED
    BY <2>8, <2>9, <2>10 DEF Tally, PointsFollowLedger, new
<1> QED
  BY <1>2, <1>3 DEF Reconcile

LEMMA NextTally == IInv /\ Tally /\ [Next]_vars => Tally'
<1> SUFFICES ASSUME IInv, Tally, [Next]_vars PROVE Tally'
  OBVIOUS
<1>1. ASSUME NEW f \in FlagIds, Create(f) \/ Lapse(f) PROVE Tally'
  BY <1>1, PlainSteps
<1>2. ASSUME UNCHANGED <<flag, points>> PROVE Tally'
  BY <1>2, TallyKept
<1>3. ASSUME NEW c \in Requests, NEW f \in FlagIds, Arrive(c, f) PROVE Tally'
  BY <1>2, <1>3 DEF Arrive, VoteRead, ModerateRead, UnflagRead
<1>4. ASSUME NEW c \in Requests, SetStatus(c) \/ Delete(c) PROVE Tally'
  <2>1. req[c].f \in FlagIds
    BY <1>4 DEF SetStatus, Delete, At, IInv, HandlersInv, Sound
  <2> QED
    BY <1>4, <2>1, PlainSteps
<1>5. ASSUME NEW c \in Requests, Award(c) PROVE Tally'
  <2>1. req[c].f \in FlagIds /\ Reconcile(req[c].f)
    BY <1>5 DEF Award, At, IInv, HandlersInv, Sound
  <2> QED
    BY <2>1, ReconcileTally
<1>6. ASSUME NEW c \in Requests, Handle(c) \/ Abort(c) PROVE Tally'
  BY <1>2, <1>4, <1>5, <1>6, CastTally DEF Handle, Abort
<1>7. ASSUME NEW s \in Sweeps, SweepAward(s) PROVE Tally'
  <2>1. sweep[s].f \in FlagIds /\ Reconcile(sweep[s].f)
    BY <1>7 DEF SweepAward, IInv, HandlersInv
  <2> QED
    BY <2>1, ReconcileTally
<1>8. ASSUME NEW s \in Sweeps, SweepStep(s) \/ AbortSweep(s) PROVE Tally'
  BY <1>2, <1>7, <1>8, PlainSteps DEF SweepStep, SweepList, AbortSweep
<1>9. CASE UNCHANGED vars
  BY <1>2, <1>9 DEF vars
<1> QED
  BY <1>1, <1>3, <1>6, <1>8, <1>9 DEF Next

\* No reconciliation is applied twice or lost: the points of a reporter who can
\* afford every vote against the flags are the opening ones and what the ledgers
\* say, and a flag's count is the sum of the votes that stand, for any flags,
\* voters, requests, sweeps and handlers that die (castSignedVote,
\* reconcileReporterAward).
THEOREM PointsAddUp == Spec => []PointsFollowLedger
<1>1. Tally => PointsFollowLedger
  BY DEF Tally
<1>2. Spec => []Tally
  BY InitTally, NextTally, Invariance, PTL DEF Spec
<1> QED
  BY <1>1, <1>2, PTL
=============================================================================
