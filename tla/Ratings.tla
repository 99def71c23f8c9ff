------------------------------ MODULE Ratings ------------------------------
(***************************************************************************)
(* Ratings of the two sides of a resolved ticket, the averages shown for   *)
(* them, and replies (ratingService, ratingRepository), over the records of *)
(* module Providers, which they do not change otherwise.                   *)
(***************************************************************************)
EXTENDS Providers

CONSTANTS Resolved,    \* resolved tickets: from ids to who was on them
          Scores,      \* the scores given
          MaxSubmits   \* bound: the calls of submitRating there may be

ASSUME RatingsAssumption == MaxSubmits \in Nat /\ \A k \in DOMAIN Resolved : Resolved[k].rider \in Users

VARIABLES rating,   \* ratings: from ids to records
          shown,    \* the sum and the count behind the rating of each user and provider
          stamp,    \* the scores on each ticket, "SHOP" for helperRating, "RIDER" for riderRating
          sub,      \* for each slot, its call of submitRating
          submits,  \* the calls so far
          settled   \* history: targets whose last rating was submitted and shown alone

ratingVars == <<rating, shown, stamp, sub, submits, settled>>
allVars == <<vars, ratingVars>>

Idle == [pc |-> "idle"]
RatingInit ==
  /\ Init
  /\ rating = <<>> /\ submits = 0 /\ settled = {}
  /\ shown = [t \in Users \cup DOMAIN prov |-> [sum |-> 0, count |-> 0]]
  /\ stamp = [k \in DOMAIN Resolved |-> [SHOP |-> 0, RIDER |-> 0]]
  /\ sub = [r \in Requests |-> Idle]

\* checkHelperTarget: the rider rates the operator or the shop of the ticket, or the
\* shop the bike was towed to if it did the work.  checkRiderTarget: the helper, or the
\* operator of the shop, rates the rider.
Target(k, kind, by) ==
  LET t == Resolved[k]
  IN IF kind = "RIDER"
     THEN {x \in {t.rider} : by = t.uid \/ (t.shop # Nothing /\ prov[t.shop].op = by)}
     ELSE {x \in {t.uid, t.shop} \cup (IF t.done THEN {t.destination} ELSE {}) : by = t.rider}

FindExisting(target, kind, by, k) ==
  LET found == {n \in DOMAIN rating : rating[n].target = target /\ rating[n].kind = kind
                                      /\ rating[n].by = by /\ rating[n].ticket = k}
  IN IF found = {} THEN {Nothing} ELSE found

\* The scores given to a target of a kind, by rating, and their sum and count.
ScoresOf(target, kind) ==
  [n \in {m \in DOMAIN rating : rating[m].target = target /\ rating[m].kind = kind} |-> rating[n].score]
Summed(scores) == [sum |-> FoldFunction(LAMBDA x, sum : x + sum, 0, scores),
                   count |-> Cardinality(DOMAIN scores)]

\* Mutant of Aggregate: the new score is added to the rating shown.
AggregateAdds(s) == [sum |-> shown[s.target].sum + s.score, count |-> shown[s.target].count + 1]

\* aggregate
Aggregate(s) == Summed(ScoresOf(s.target, s.kind))

Rates(r, s) == sub' = [sub EXCEPT ![r] = s]
OnTarget(t) == {q \in Requests : sub[q].pc # "idle" /\ sub[q].target = t}

\* submitRating up to its first write.
SubmitRating(r, k, kind, by, score) ==
  \E target \in Target(k, kind, by) \ {Nothing} : \E n \in FindExisting(target, kind, by, k) :
    /\ submits < MaxSubmits /\ sub[r].pc = "idle"
    /\ sub' = [q \in Requests |->
                IF q = r THEN [pc |-> "write", target |-> target, kind |-> kind, by |-> by, ticket |-> k,
                               score |-> score, n |-> n, agg |-> Nothing, alone |-> OnTarget(target) = {}]
                ELSE IF q \in OnTarget(target) THEN [sub[q] EXCEPT !.alone = FALSE] ELSE sub[q]]
    /\ submits' = submits + 1
    /\ UNCHANGED <<rating, shown, stamp, settled>>

\* create or updateScore; a reply that is there stays.
WriteRating(r) ==
  LET s == sub[r]
      n == IF s.n = Nothing THEN Cardinality(DOMAIN rating) + 1 ELSE s.n
  IN /\ s.pc = "write" /\ Rates(r, [s EXCEPT !.pc = "aggregate"])
     /\ rating' = Over(rating, n, [target |-> s.target, kind |-> s.kind, by |-> s.by, ticket |-> s.ticket,
                                   score |-> s.score, replied |-> s.n # Nothing /\ rating[n].replied])
     /\ settled' = settled \ {s.target}
     /\ UNCHANGED <<shown, stamp, submits>>

ReadAggregate(r) ==
  /\ sub[r].pc = "aggregate"
  /\ Rates(r, [sub[r] EXCEPT !.pc = "show", !.agg = Aggregate(sub[r])])
  /\ UNCHANGED <<rating, shown, stamp, submits, settled>>

\* updateRating, of the provider or of the user: a helper who is not a provider's
\* record has none, and the call throws with its rating stored.
ShowRating(r) ==
  LET s == sub[r]
  IN /\ s.pc = "show"
     /\ IF s.kind = "SHOP" /\ s.target \notin DOMAIN prov
        THEN Rates(r, Idle) /\ UNCHANGED <<shown, settled>>
        ELSE /\ Rates(r, [s EXCEPT !.pc = "stamp"])
             /\ shown' = Over(shown, s.target, s.agg)
             /\ settled' = IF s.alone THEN settled \cup {s.target} ELSE settled \ {s.target}
     /\ UNCHANGED <<rating, stamp, submits>>

StampTicket(r) ==
  /\ sub[r].pc = "stamp" /\ Rates(r, Idle)
  /\ stamp' = [stamp EXCEPT ![sub[r].ticket][sub[r].kind] = sub[r].score]
  /\ UNCHANGED <<rating, shown, submits, settled>>

\* The call throws or its instance dies.
StopsRating(r) ==
  sub[r].pc # "idle" /\ Rates(r, Idle) /\ UNCHANGED <<rating, shown, stamp, submits, settled>>

\* replyToRating
ReplyToRating(n, u) ==
  /\ rating[n].kind = "SHOP" => rating[n].target \in DOMAIN prov /\ prov[rating[n].target].op = u
  /\ rating[n].kind = "RIDER" => rating[n].target = u
  /\ rating' = [rating EXCEPT ![n].replied = TRUE]
  /\ UNCHANGED <<shown, stamp, sub, submits, settled>>

Rating ==
  \/ \E r \in IF "ratings" \in office.desks THEN Requests ELSE {}, k \in DOMAIN Resolved, kind \in {"SHOP", "RIDER"}, by \in Users, score \in Scores :
       SubmitRating(r, k, kind, by, score)
  \/ \E r \in Requests : WriteRating(r) \/ ReadAggregate(r) \/ ShowRating(r) \/ StampTicket(r) \/ StopsRating(r)
  \/ \E n \in DOMAIN rating, u \in Users : ReplyToRating(n, u)

RatingNext == (Next /\ UNCHANGED ratingVars) \/ (Rating /\ UNCHANGED vars)

RatingSpec ==
  /\ RatingInit /\ [][RatingNext]_allVars
  /\ \A r \in Slots : WF_allVars(Write(r) /\ UNCHANGED ratingVars)
  /\ \A i \in Plates \cup 0..MaxCalls : WF_allVars(GrowsStale(i) /\ UNCHANGED ratingVars)
  /\ WF_allVars(SweepStalePresence /\ UNCHANGED ratingVars)

\* A rating that nobody else's overlapped mends the average of its target, whatever
\* earlier calls left behind when they overlapped or died (submitRating, aggregate).
KindOf(target) == IF target \in DOMAIN prov THEN "SHOP" ELSE "RIDER"
RatingHeals == \A t \in settled : shown[t] = Summed(ScoresOf(t, KindOf(t)))
=============================================================================
