------------------------------ MODULE SosProofs ------------------------------
(* Theorems about Sos, for any tickets, shops, callers and numbers of faults. *)
EXTENDS Sos, FiniteSetTheorems, TLAPS

OrNone(S) == S \cup {None}
OfferDoc ==
  [at : Nat, status : {"PENDING", "ACCEPTED", "DECLINED", "EXPIRED"},
   mode : {"DIRECT", "NETWORK"}, late : BOOLEAN]
TicketDoc ==
  [kind : OrNone({"SOS", "TOW"}),
   status : OrNone({"PENDING", "MATCHED", "ARRIVED", "QUOTED", "READY"} \cup Terminal),
   shop : OrNone(Shops), callOut : OrNone(Nat), travel : OrNone(Nat), fix : OrNone(Fix),
   owed : Seq(Nat), excluded : SUBSET Shops, cancelledBy : OrNone({"rider", "shop"}),
   attempt : Nat, parent : OrNone(Ids), next : OrNone(Ids), offer : OrNone(OfferDoc),
   grace : OrNone({"running", "over"})]
RequestDoc ==
  [op : OrNone(Ops), pc : OrNone(Points),
   sos : OrNone(Ids), kind : OrNone({"SOS", "TOW"}), child : OrNone(Ids), auto : BOOLEAN,
   by : OrNone({"rider", "shop"}), offer : OrNone(OfferDoc), stale : BOOLEAN]
VisitsDoc == [prior : SUBSET Shops, own : Seq(Shops)]

\* Every ticket, request and history keeps its shape.
TypeOK ==
  /\ ticket \in [Ids -> TicketDoc]
  /\ req \in [Requests -> RequestDoc]
  /\ offers \in Nat /\ faults \in Nat /\ calm \in BOOLEAN
  /\ visits \in [Ids -> VisitsDoc] /\ overlap \in BOOLEAN

\* A ticket nobody filed is empty, and a shop that took one stamped its fees.
TicketInv ==
  \A t \in Ids :
    /\ ~Exists(t) => ticket[t] = Unused
    /\ ticket[t].shop # None => ticket[t].callOut \in Nat /\ ticket[t].travel \in Nat

\* The continuations of t that are open.
OpenChild(c, t) == ticket[c].kind = "SOS" /\ ticket[c].parent = t /\ Open(c)

Continuing(q) == q.op \in {"unfixable", "respond", "expire", "grace", "ask"} /\ q.kind = "SOS"
Filing(q) == q.pc \in {"check", "create"}

\* What a handler in flight knows of its SOS and of the ticket it files.
Sound(q) ==
  /\ q.pc = None => q = Idle
  /\ q.op = "file" => Filing(q)
  /\ q.pc # None /\ q.op # "file" => q.sos \in Ids /\ Exists(q.sos)
  /\ q.pc \in {"availability", "offer", "decline", "expire", "continue", "claim"} => q.child = None
  /\ q.pc \in {"availability", "decline", "expire", "continue", "claim"} =>
       q.op \in {"unfixable", "respond", "expire", "grace", "ask"}
  /\ q.pc \in {"offer", "decline", "expire", "assign", "accepted"} => q.offer \in OfferDoc
  /\ q.pc = "unclaim" => Continuing(q)
  /\ Filing(q) => q.kind # None
  /\ q.kind = "SOS" => Continuing(q)
  /\ Continuing(q) /\ (Filing(q) \/ q.pc = "unclaim") =>
       q.child # None /\ ticket[q.sos].next = q.child
  /\ q.pc = "check" /\ ~Continuing(q) => q.child = None
  /\ q.pc \in {"create", "assign"} => q.child # None
  /\ Filing(q) /\ q.child # None => ~Exists(q.child)
  /\ ~Filing(q) /\ q.pc # "unclaim" /\ q.child # None => Exists(q.child)
  /\ q.kind = "TOW" /\ q.op = "respond" => q.offer \in OfferDoc
  /\ q.pc = "create" /\ ~q.stale /\ ~overlap => \A t \in Ids : ~Open(t)
  /\ q.pc = "create" /\ Continuing(q) => \A c \in Ids : ~OpenChild(c, q.sos)
RequestInv == \A r \in Requests : Sound(req[r])

\* No two handlers have the same id to file, no two SOS the same continuation.
IdsApart ==
  /\ \A r, u \in Requests : r # u /\ req[r].child # None => req[r].child # req[u].child
  /\ \A t, p \in Ids : t # p /\ ticket[t].next # None => ticket[t].next # ticket[p].next

\* The two halves of OneSearch, without counting.
Single ==
  /\ overlap \/ \A t, p \in Ids : Open(t) /\ Open(p) => t = p
  /\ \A t, c, d \in Ids : OpenChild(c, t) /\ OpenChild(d, t) => c = d
ClaimsKept ==
  \A t \in Ids : \/ ticket[t].next = None \/ Exists(ticket[t].next) \/ faults > 0
                 \/ \E r \in Requests : req[r].child = ticket[t].next

IInv == TypeOK /\ TicketInv /\ RequestInv /\ IdsApart /\ Single /\ ClaimsKept

-----------------------------------------------------------------------------
LEMMA Basics ==
  /\ None \notin Ids /\ None \notin Shops /\ None \notin Nat 
  /\ None \notin Ops /\ None \notin Points /\ None \notin {"SOS", "TOW", "running"}
  /\ Ids \subseteq Nat /\ 1 \in Ids /\ IsFiniteSet(Ids) /\ Sweeper \in Requests
<1>1. IsFiniteSet(Ids)
  BY SosAssumption, FS_Interval DEF Ids
<1> QED
  BY <1>1, SosAssumption DEF Ids, Requests

LEMMA EmptyDocs ==
  Unused \in TicketDoc /\ Idle \in RequestDoc /\ [prior |-> {}, own |-> <<>>] \in VisitsDoc
  BY DEF Unused, Idle, TicketDoc, RequestDoc, VisitsDoc, OrNone

LEMMA NewDoc ==
  ASSUME NEW k \in {"SOS", "TOW"}, NEW from \in OrNone(Ids)
  PROVE  /\ New(k, from) \in TicketDoc
         /\ New(k, from).kind = k /\ New(k, from).parent = from
         /\ New(k, from).status = "PENDING" /\ New(k, from).attempt = 1
         /\ New(k, from).shop = None /\ New(k, from).next = None /\ New(k, from).excluded = {}
<1>1. PICK u, doc : u = Unused /\ doc = New(k, from)
  OBVIOUS
<1>2. u \in TicketDoc /\ u.shop = None /\ u.next = None /\ u.excluded = {}
  BY <1>1, EmptyDocs DEF Unused
<1>3. doc = [u EXCEPT !.kind = k, !.status = "PENDING", !.parent = from, !.attempt = 1]
  BY <1>1 DEF New
<1>4. doc \in TicketDoc
  BY ZenonT(40), <1>2, <1>3 DEF TicketDoc, OrNone
<1>5. /\ doc.kind = k /\ doc.parent = from /\ doc.status = "PENDING" /\ doc.attempt = 1
      /\ doc.shop = None /\ doc.next = None /\ doc.excluded = {}
  BY <1>2, <1>3 DEF TicketDoc
<1> QED
  BY <1>1, <1>4, <1>5

LEMMA Reads ==
  ASSUME IInv
  PROVE  /\ \A t \in Ids : ticket[t] \in TicketDoc
         /\ \A r \in Requests : req[r] \in RequestDoc /\ Sound(req[r])
  BY DEF IInv, TypeOK, RequestInv

LEMMA InitIInv == Init => IInv
<1> SUFFICES ASSUME Init PROVE IInv
  OBVIOUS
<1>1. /\ \A r \in Requests : req[r] = Idle
      /\ \A t \in Ids : ticket[t] = IF t = 1 THEN New("SOS", None) ELSE Unused
  BY DEF Init
<1>2. New("SOS", None) \in TicketDoc /\ New("SOS", None).next = None
      /\ New("SOS", None).shop = None /\ New("SOS", None).kind = "SOS"
      /\ New("SOS", None).parent = None
  BY NewDoc, Basics DEF OrNone, Unused
<1>3. TypeOK
  BY <1>1, <1>2, EmptyDocs DEF Init, TypeOK
<1>4. TicketInv
  <2>1. Unused.shop = None /\ "SOS" # None
    BY Basics DEF Unused
  <2> QED
    BY <1>1, <1>2, <2>1 DEF TicketInv, Exists
<1>5. \A t \in Ids : ticket[t].next = None
  BY <1>1, <1>2 DEF Unused
<1>6. IdsApart
  BY <1>1, <1>5 DEF IdsApart, Idle
<1>7. Sound(Idle)
  BY Basics DEF Sound, Continuing, Filing, Idle, Ops, Points
<1>8. RequestInv
  BY <1>1, <1>7 DEF RequestInv
<1>9. \A t \in Ids : t # 1 => ~Open(t)
  BY <1>1 DEF Open, Exists, Unused
<1>10. Single /\ ClaimsKept
  BY <1>5, <1>9 DEF Single, ClaimsKept, OpenChild
<1> QED
  BY <1>3, <1>4, <1>6, <1>8, <1>10 DEF IInv

-----------------------------------------------------------------------------
(* Steps that file no ticket and claim no continuation.                    *)

\* No ticket opens, and each keeps its kind and its parent.
Steady ==
  /\ ticket' \in [Ids -> TicketDoc] /\ TicketInv'
  /\ \A t \in Ids : /\ Exists(t)' <=> Exists(t)
                    /\ Open(t)' => Open(t)
                    /\ ticket'[t].kind = ticket[t].kind
                    /\ ticket'[t].parent = ticket[t].parent
\* And its continuation.
Tended == Steady /\ \A t \in Ids : ticket'[t].next = ticket[t].next

LEMMA Tends ==
  ASSUME IInv, NEW t \in Ids, Exists(t), NEW doc \in TicketDoc,
         ticket' = [ticket EXCEPT ![t] = doc],
         doc.kind = ticket[t].kind, doc.parent = ticket[t].parent, doc.next = ticket[t].next,
         doc.status \notin Terminal => ticket[t].status \notin Terminal,
         doc.shop # None => doc.callOut \in Nat /\ doc.travel \in Nat
  PROVE  Tended
<1>1. ticket' \in [Ids -> TicketDoc] /\ ticket'[t] = doc
      /\ \A u \in Ids : u # t => ticket'[u] = ticket[u]
  BY DEF IInv, TypeOK
<1>2. \A u \in Ids : /\ Exists(u)' <=> Exists(u)
                     /\ Open(u)' => Open(u)
                     /\ ticket'[u].kind = ticket[u].kind
                     /\ ticket'[u].parent = ticket[u].parent
                     /\ ticket'[u].next = ticket[u].next
  BY <1>1 DEF Exists, Open
<1>3. TicketInv'
  BY <1>1, <1>2 DEF IInv, TicketInv, Exists
<1> QED
  BY <1>1, <1>2, <1>3 DEF Tended, Steady

LEMMA TendsNothing ==
  ASSUME IInv, UNCHANGED ticket
  PROVE  Tended
  BY DEF IInv, TypeOK, TicketInv, Tended, Steady, Exists, Open

\* What a handler knows outlasts a step that leaves it its claim.
LEMMA StillSound ==
  ASSUME Steady, UNCHANGED overlap, NEW q \in RequestDoc, Sound(q),
         Continuing(q) /\ (Filing(q) \/ q.pc = "unclaim") => ticket'[q.sos].next = q.child
  PROVE  Sound(q)'
<1>1. \A t \in Ids : (Exists(t)' <=> Exists(t)) /\ (Open(t)' => Open(t))
  BY DEF Steady
<1>2. \A c \in Ids : OpenChild(c, q.sos)' => OpenChild(c, q.sos)
  BY DEF Steady, OpenChild
<1>3. q.child \in OrNone(Ids) /\ q.sos \in OrNone(Ids)
  BY DEF RequestDoc
<1> QED
  BY <1>1, <1>2, <1>3, Basics DEF Sound, OrNone, Continuing, Filing, Points

LEMMA SoundKept ==
  ASSUME Tended, UNCHANGED overlap, NEW q \in RequestDoc, Sound(q)
  PROVE  Sound(q)'
<1>1. Continuing(q) => q.op # "file" /\ q.op # None
  BY Basics DEF Continuing, Ops
<1>2. Continuing(q) => q.pc # None
  BY <1>1 DEF Sound, Idle
<1>3. Continuing(q) /\ (Filing(q) \/ q.pc = "unclaim") => ticket'[q.sos].next = q.child
  BY <1>1, <1>2 DEF Sound, Tended
<1> QED
  BY <1>3, StillSound DEF Tended

\* One handler goes on to q, or begins or ends, beside such a step.
Frame ==
  /\ offers' \in Nat /\ faults' \in Nat /\ faults <= faults' /\ calm' = calm
  /\ visits' \in [Ids -> VisitsDoc] /\ UNCHANGED overlap

\* An id is let go of once its ticket is there, or when the handler dies.
LetsGo(r, q) ==
  \/ q.child = req[r].child
  \/ q.child = None /\ (Exists(req[r].child) \/ req[r].child = None \/ faults' > 0)

LEMMA OneMoves ==
  ASSUME IInv, Tended, Frame, NEW r \in Requests, NEW q \in RequestDoc, Sound(q),
         req' = [req EXCEPT ![r] = q], LetsGo(r, q)
  PROVE  IInv'
<1>1. req' \in [Requests -> RequestDoc] /\ req'[r] = q
      /\ \A u \in Requests : u # r => req'[u] = req[u]
  BY DEF IInv, TypeOK
<1>2. TypeOK' /\ TicketInv'
  BY <1>1 DEF IInv, TypeOK, Tended, Steady, Frame
<1>3. RequestInv'
  <2> SUFFICES ASSUME NEW u \in Requests PROVE Sound(req[u])'
    BY DEF RequestInv
  <2>1. PICK d : d = req'[u]
    OBVIOUS
  <2>2. d \in RequestDoc /\ Sound(d)
    BY <1>1, <2>1, Reads
  <2>3. Sound(d)'
    BY <2>2, SoundKept DEF Frame
  <2> QED
    BY <2>1, <2>3
<1>4. IdsApart'
  <2>1. \A u, v \in Requests : u # v /\ req'[u].child # None => req'[u].child # req'[v].child
    BY <1>1 DEF IInv, IdsApart, LetsGo
  <2>2. \A t, p \in Ids : t # p /\ ticket'[t].next # None => ticket'[t].next # ticket'[p].next
    BY DEF IInv, IdsApart, Tended, Steady
  <2> QED
    BY <2>1, <2>2 DEF IdsApart
<1>5. Single'
  BY DEF IInv, Single, OpenChild, Tended, Steady, Frame
<1>6. ClaimsKept'
  <2> SUFFICES ASSUME NEW t \in Ids, ticket'[t].next # None, ~Exists(ticket[t].next)',
                      ~(faults' > 0)
               PROVE  \E u \in Requests : req'[u].child = ticket'[t].next
    BY DEF ClaimsKept
  <2>1. PICK n : n = ticket[t].next
    OBVIOUS
  <2>2. ticket'[t].next = n /\ n \in Ids /\ ~Exists(n)
    BY <2>1, Reads DEF Tended, Steady, TicketDoc, OrNone
  <2>3. ~(faults > 0)
    BY DEF Frame, IInv, TypeOK
  <2>4. PICK u \in Requests : req[u].child = n
    BY <2>1, <2>2, <2>3, Basics DEF IInv, ClaimsKept
  <2>5. n # None
    BY <2>2, Basics
  <2>6. CASE u = r
    BY <1>1, <2>2, <2>4, <2>5, <2>6 DEF LetsGo
  <2>7. CASE u # r
    BY <1>1, <2>2, <2>4, <2>7
  <2> QED
    BY <2>6, <2>7
<1> QED
  BY <1>2, <1>3, <1>4, <1>5, <1>6 DEF IInv

LEMMA NobodyMoves ==
  ASSUME IInv, Tended, Frame, UNCHANGED req
  PROVE  IInv'
<1>1. PICK q : q = req[Sweeper]
  OBVIOUS
<1>2. q \in RequestDoc /\ Sound(q)
  BY <1>1, Reads, Basics
<1>3. req' = [req EXCEPT ![Sweeper] = q]
  BY <1>1 DEF IInv, TypeOK
<1>4. Sweeper \in Requests /\ LetsGo(Sweeper, q)
  BY <1>1, Basics DEF LetsGo
<1> QED
  BY <1>2, <1>3, <1>4, OneMoves

LEMMA Restatus ==
  ASSUME IInv, NEW t \in Ids, Exists(t),
         NEW s \in {"MATCHED", "ARRIVED", "QUOTED", "READY"} \cup Terminal,
         ticket' = [ticket EXCEPT ![t].status = s],
         s \notin Terminal => ticket[t].status \notin Terminal
  PROVE  Tended
<1>1. PICK was, doc : was = ticket[t] /\ doc = [was EXCEPT !.status = s]
  OBVIOUS
<1>2. was \in TicketDoc /\ (was.shop # None => was.callOut \in Nat /\ was.travel \in Nat)
  BY <1>1, Reads DEF IInv, TicketInv
<1>3. doc \in TicketDoc
  BY <1>1, <1>2 DEF TicketDoc, OrNone
<1>4. /\ doc.kind = was.kind /\ doc.parent = was.parent /\ doc.next = was.next /\ doc.status = s
      /\ doc.shop = was.shop /\ doc.callOut = was.callOut /\ doc.travel = was.travel
  BY <1>1, <1>2 DEF TicketDoc
<1>5. ticket' = [ticket EXCEPT ![t] = doc]
  BY <1>1
<1> QED
  BY ZenonT(40), <1>1, <1>2, <1>3, <1>4, <1>5, Tends

LEMMA Reoffer ==
  ASSUME IInv, NEW t \in Ids, Exists(t), NEW o \in OfferDoc,
         ticket' = [ticket EXCEPT ![t].offer = o]
  PROVE  Tended
<1>1. PICK was, doc : was = ticket[t] /\ doc = [was EXCEPT !.offer = o]
  OBVIOUS
<1>2. was \in TicketDoc /\ (was.shop # None => was.callOut \in Nat /\ was.travel \in Nat)
  BY <1>1, Reads DEF IInv, TicketInv
<1>3. doc \in TicketDoc
  BY <1>1, <1>2 DEF TicketDoc, OrNone
<1>4. /\ doc.kind = was.kind /\ doc.parent = was.parent /\ doc.next = was.next
      /\ doc.status = was.status
      /\ doc.shop = was.shop /\ doc.callOut = was.callOut /\ doc.travel = was.travel
  BY <1>1, <1>2 DEF TicketDoc
<1>5. ticket' = [ticket EXCEPT ![t] = doc]
  BY <1>1
<1> QED
  BY <1>1, <1>2, <1>3, <1>4, <1>5, Tends

LEMMA Regrace ==
  ASSUME IInv, NEW t \in Ids, Exists(t), NEW g \in OrNone({"running", "over"}),
         ticket' = [ticket EXCEPT ![t].grace = g]
  PROVE  Tended
<1>1. PICK was, doc : was = ticket[t] /\ doc = [was EXCEPT !.grace = g]
  OBVIOUS
<1>2. was \in TicketDoc /\ (was.shop # None => was.callOut \in Nat /\ was.travel \in Nat)
  BY <1>1, Reads DEF IInv, TicketInv
<1>3. doc \in TicketDoc
  BY <1>1, <1>2 DEF TicketDoc
<1>4. /\ doc.kind = was.kind /\ doc.parent = was.parent /\ doc.next = was.next
      /\ doc.status = was.status
      /\ doc.shop = was.shop /\ doc.callOut = was.callOut /\ doc.travel = was.travel
  BY <1>1, <1>2 DEF TicketDoc
<1>5. ticket' = [ticket EXCEPT ![t] = doc]
  BY <1>1
<1> QED
  BY <1>1, <1>2, <1>3, <1>4, <1>5, Tends

\* What a name of no ticket tells: somebody filed this one.
LEMMA Filed ==
  ASSUME IInv, NEW t \in Ids
  PROVE  /\ ticket[t].kind \in {"SOS", "TOW"} => Exists(t)
         /\ ticket[t].offer # None \/ ticket[t].grace # None => Exists(t)
  BY Basics DEF IInv, TicketInv, Exists, Unused

LEMMA VisitStep ==
  ASSUME IInv, NEW t \in Ids, Visit(t)
  PROVE  Tended /\ Frame /\ UNCHANGED req
<1>1. PICK was : was = ticket[t]
  OBVIOUS
<1>2. was \in TicketDoc /\ (was.shop # None => was.callOut \in Nat /\ was.travel \in Nat)
  BY <1>1, Reads DEF IInv, TicketInv
<1>3. Exists(t)
  BY Filed DEF Visit, Accept, Arrive, ApproveMobileFix, Resolve, Move, SetMobileShopFix,
               DeclineMobileFix, Cancel
<1>4. ASSUME NEW from \in {"MATCHED", "QUOTED", "READY"},
             NEW to \in {"ARRIVED", "READY", "RESOLVED"}, Move(t, from, to)
      PROVE  Tended /\ Frame /\ UNCHANGED req
  <2>1. ticket[t].status = from /\ from \notin Terminal /\ ticket' = [ticket EXCEPT ![t].status = to]
    BY <1>4 DEF Move, Terminal
  <2>2. to \in {"MATCHED", "ARRIVED", "QUOTED", "READY"} \cup Terminal
    BY DEF Terminal
  <2>3. Tended
    BY <1>3, <2>1, <2>2, Restatus
  <2> QED
    BY <1>4, <2>3 DEF Move, history, Frame, IInv, TypeOK
<1>5. ASSUME NEW s \in Shops, Accept(t, s)
      PROVE  Tended /\ Frame /\ UNCHANGED req
  <2>1. PICK c, v : c = Fee[s].callOut /\ v = Fee[s].travel
    OBVIOUS
  <2>2. c \in Nat /\ v \in Nat
    BY <2>1, SosAssumption
  <2>3. PICK doc : doc = [was EXCEPT !.status = "MATCHED", !.shop = s, !.cancelledBy = None,
                                     !.callOut = c, !.travel = v]
    OBVIOUS
  <2>4. doc \in TicketDoc
    BY ZenonT(40), <1>2, <2>2, <2>3 DEF TicketDoc, OrNone
  <2>5. /\ doc.kind = was.kind /\ doc.parent = was.parent /\ doc.next = was.next
        /\ doc.callOut = c /\ doc.travel = v
    BY <1>2, <2>3 DEF TicketDoc
  <2>6. ticket' = [ticket EXCEPT ![t] = doc] /\ was.status = "PENDING"
    BY <1>1, <1>5, <2>1, <2>3 DEF Accept
  <2>7. Tended
    BY <1>1, <1>3, <2>2, <2>4, <2>5, <2>6, Tends DEF Terminal
  <2>8. visits' \in [Ids -> VisitsDoc]
    <3>1. PICK old, new : old = visits[t] /\ new = [old EXCEPT !.own = Append(old.own, s)]
      OBVIOUS
    <3>2. old \in VisitsDoc
      BY <3>1 DEF IInv, TypeOK
    <3>3. Append(old.own, s) \in Seq(Shops)
      BY <3>2 DEF VisitsDoc
    <3>4. new \in VisitsDoc
      BY <3>1, <3>2, <3>3 DEF VisitsDoc
    <3>5. visits' = [visits EXCEPT ![t] = new]
      BY <1>5, <3>1 DEF Accept
    <3> QED
      BY <3>4, <3>5 DEF IInv, TypeOK
  <2> QED
    BY <1>5, <2>7, <2>8 DEF Accept, Frame, IInv, TypeOK
<1>6. CASE SetMobileShopFix(t)
  <2>1. PICK fix \in Fix : ticket' = [ticket EXCEPT ![t].status = "QUOTED", ![t].fix = fix]
    BY <1>6 DEF SetMobileShopFix
  <2>2. PICK doc : doc = [was EXCEPT !.status = "QUOTED", !.fix = fix]
    OBVIOUS
  <2>3. doc \in TicketDoc
    BY <1>2, <2>2 DEF TicketDoc, OrNone
  <2>4. /\ doc.kind = was.kind /\ doc.parent = was.parent /\ doc.next = was.next
        /\ doc.shop = was.shop /\ doc.callOut = was.callOut /\ doc.travel = was.travel
    BY <1>2, <2>2 DEF TicketDoc
  <2>5. ticket' = [ticket EXCEPT ![t] = doc] /\ was.status = "ARRIVED"
    BY <1>1, <1>6, <2>1, <2>2 DEF SetMobileShopFix
  <2>6. Tended
    BY <1>1, <1>2, <1>3, <2>3, <2>4, <2>5, Tends DEF Terminal
  <2> QED
    BY <1>6, <2>6 DEF SetMobileShopFix, history, Frame, IInv, TypeOK
<1>7. CASE DeclineMobileFix(t)
  <2>1. PICK owed, out : /\ owed = Append(was.owed, was.callOut + was.travel)
                         /\ out = was.excluded \cup {was.shop}
    OBVIOUS
  <2>2. was.shop # None /\ was.status = "QUOTED"
    BY <1>1, <1>7 DEF DeclineMobileFix, Assigned
  <2>3. was.callOut + was.travel \in Nat
    BY <1>2, <2>2
  <2>4. owed \in Seq(Nat)
    BY <1>2, <2>1, <2>3 DEF TicketDoc
  <2>5. out \in SUBSET Shops
    BY <1>2, <2>1, <2>2 DEF TicketDoc, OrNone
  <2>6. PICK doc : doc = [was EXCEPT !.status = "PENDING", !.shop = None, !.fix = None,
                            !.callOut = None, !.travel = None, !.owed = owed, !.excluded = out]
    OBVIOUS
  <2>7. doc \in TicketDoc
    BY ZenonT(40), <1>2, <2>4, <2>5, <2>6 DEF TicketDoc, OrNone
  <2>8. doc.kind = was.kind /\ doc.parent = was.parent /\ doc.next = was.next /\ doc.shop = None
    BY <1>2, <2>6 DEF TicketDoc
  <2>9. ticket' = [ticket EXCEPT ![t] = doc]
    BY <1>1, <1>7, <2>1, <2>6 DEF DeclineMobileFix
  <2>10. Tended
    BY <1>1, <1>3, <2>2, <2>7, <2>8, <2>9, Tends DEF Terminal
  <2> QED
    BY <1>7, <2>10 DEF DeclineMobileFix, history, Frame, IInv, TypeOK
<1>8. ASSUME NEW by \in {"rider", "shop"}, Cancel(t, by)
      PROVE  Tended /\ Frame /\ UNCHANGED req
  <2>1. PICK doc : doc = [was EXCEPT !.status = "CANCELLED", !.cancelledBy = by]
    OBVIOUS
  <2>2. doc \in TicketDoc
    BY ZenonT(40), <1>2, <2>1 DEF TicketDoc, OrNone, Terminal
  <2>3. /\ doc.kind = was.kind /\ doc.parent = was.parent /\ doc.next = was.next
        /\ doc.status = "CANCELLED"
        /\ doc.shop = was.shop /\ doc.callOut = was.callOut /\ doc.travel = was.travel
    BY <1>2, <2>1 DEF TicketDoc
  <2>4. ticket' = [ticket EXCEPT ![t] = doc]
    BY <1>1, <1>8, <2>1 DEF Cancel
  <2>5. Tended
    BY <1>1, <1>2, <1>3, <2>2, <2>3, <2>4, Tends DEF Terminal
  <2> QED
    BY <1>8, <2>5 DEF Cancel, history, Frame, IInv, TypeOK
<1> QED
  BY <1>4, <1>5, <1>6, <1>7, <1>8 DEF Visit, Arrive, ApproveMobileFix, Resolve

LEMMA LapseStep ==
  ASSUME IInv, NEW t \in Ids, EndTow(t) \/ OfferLapses(t) \/ GraceEnds(t)
  PROVE  Tended /\ Frame /\ UNCHANGED req
<1>1. Tended
  <2>1. CASE EndTow(t)
    BY <2>1, Filed, Restatus DEF EndTow, Open, Terminal
  <2>2. CASE OfferLapses(t)
    <3>1. PICK o, doc : o = ticket[t].offer /\ doc = [o EXCEPT !.late = TRUE]
      OBVIOUS
    <3>2. o # None
      BY <2>2, <3>1 DEF OfferLapses, HasOffer
    <3>3. o \in OfferDoc
      BY <3>1, <3>2, Reads DEF TicketDoc, OrNone
    <3>4. doc \in OfferDoc
      BY <3>1, <3>3 DEF OfferDoc
    <3>5. ticket' = [ticket EXCEPT ![t].offer = doc]
      BY <2>2, <3>1 DEF OfferLapses
    <3> QED
      BY <3>1, <3>2, <3>4, <3>5, Filed, Reoffer
  <2>3. CASE GraceEnds(t)
    <3>1. ticket[t].grace = "running" /\ ticket' = [ticket EXCEPT ![t].grace = "over"]
      BY <2>3 DEF GraceEnds
    <3>2. Exists(t)
      BY <3>1, Basics DEF IInv, TicketInv, Unused
    <3> QED
      BY <3>1, <3>2, Regrace DEF OrNone
  <2> QED
    BY <2>1, <2>2, <2>3
<1> QED
  BY <1>1 DEF EndTow, OfferLapses, GraceEnds, history, Frame, IInv, TypeOK

-----------------------------------------------------------------------------
(* The handlers.                                                           *)

LEMMA IdleSound == Sound(Idle) /\ Idle \in RequestDoc /\ Idle.child = None
  BY Basics, EmptyDocs DEF Sound, Continuing, Filing, Idle, Ops, Points

\* A handler that is done, and one that begins on a SOS somebody filed.
LEMMA DoneKeeps ==
  ASSUME IInv, Tended, Frame, NEW r \in Requests, Done(r),
         req[r].pc \notin {"check", "create", "unclaim"} \/ req[r].child = None \/ faults' > 0
  PROVE  IInv'
<1>1. PICK q : q = req[r]
  OBVIOUS
<1>2. q \in RequestDoc /\ Sound(q)
  BY <1>1, Reads
<1>3. q.child = None \/ Exists(q.child) \/ faults' > 0
  BY <1>1, <1>2 DEF Sound, Filing
<1>4. LetsGo(r, Idle)
  BY <1>1, <1>3, IdleSound DEF LetsGo
<1> QED
  BY <1>4, IdleSound, OneMoves DEF Done

LEMMA StartKeeps ==
  ASSUME IInv, Tended, Frame, NEW r \in Requests, NEW q \in RequestDoc, Start(r, q), Sound(q),
         q.child = None
  PROVE  IInv'
<1>1. LetsGo(r, q)
  BY IdleSound DEF LetsGo, Start
<1> QED
  BY <1>1, OneMoves DEF Start

LEMMA GotoKeeps ==
  ASSUME IInv, Tended, Frame, NEW r \in Requests, NEW q \in RequestDoc, Sound(q),
         req' = [req EXCEPT ![r] = q], q.child = req[r].child
  PROVE  IInv'
  BY OneMoves DEF LetsGo

LEMMA BeginStep ==
  ASSUME IInv, NEW r \in Requests, NEW t \in Ids,
         \/ MarkUnfixable(r, t) \/ OfferRead(r, t) \/ RespondRead(r, t) \/ AskToContinue(r, t)
         \/ ExpireRead(r, t) \/ ContinueUnfixRead(r, t)
  PROVE  IInv'
<1>1. Exists(t)
  BY Filed DEF MarkUnfixable, OfferRead, RespondRead, AskToContinue, ExpireRead,
               ContinueUnfixRead, Unfixable, HasOffer
<1>2. ASSUME HasOffer(t, {"PENDING"})
      PROVE  ticket[t].offer \in OfferDoc
  BY <1>2, Reads DEF HasOffer, TicketDoc, OrNone
<1>3. PICK id : id = Idle
  OBVIOUS
<1>4. /\ id \in RequestDoc /\ id.pc = None /\ id.op = None /\ id.kind = None /\ id.child = None
      /\ id.offer = None /\ id.stale = FALSE
  BY <1>3, EmptyDocs DEF Idle
<1>5. CASE MarkUnfixable(r, t)
  <2>1. PICK q : q = [id EXCEPT !.op = "unfixable", !.pc = "availability", !.sos = t]
    OBVIOUS
  <2>2. /\ q \in RequestDoc /\ q.op = "unfixable" /\ q.pc = "availability" /\ q.sos = t
        /\ q.child = None /\ q.kind = None
    BY <1>4, <2>1 DEF RequestDoc, Ops, Points, OrNone
  <2>3. Sound(q)
    BY <1>1, <2>2, Basics DEF Sound, Continuing, Filing, Points
  <2>4. Tended
    BY <1>1, <1>5, Restatus DEF MarkUnfixable, Terminal
  <2>5. Start(r, q) /\ Frame
    BY <1>3, <1>5, <2>1 DEF MarkUnfixable, history, Frame, IInv, TypeOK
  <2> QED
    BY <2>2, <2>3, <2>4, <2>5, StartKeeps
<1>6. CASE OfferRead(r, t)
  <2>1. PICK mode \in {"DIRECT", "NETWORK"} :
          Start(r, [Idle EXCEPT !.op = "offer", !.pc = "offer", !.sos = t,
                      !.offer = [at |-> offers + 1, status |-> "PENDING", mode |-> mode,
                                 late |-> FALSE]])
    BY <1>6 DEF OfferRead
  <2>2. PICK o : o = [at |-> offers + 1, status |-> "PENDING", mode |-> mode, late |-> FALSE]
    OBVIOUS
  <2>3. o \in OfferDoc
    BY <2>2 DEF OfferDoc, IInv, TypeOK
  <2>4. PICK q : q = [id EXCEPT !.op = "offer", !.pc = "offer", !.sos = t, !.offer = o]
    OBVIOUS
  <2>5. /\ q \in RequestDoc /\ q.op = "offer" /\ q.pc = "offer" /\ q.sos = t
        /\ q.child = None /\ q.kind = None /\ q.offer = o
    BY <1>4, <2>3, <2>4 DEF RequestDoc, Ops, Points, OrNone
  <2>6. Sound(q)
    BY <1>1, <2>3, <2>5, Basics DEF Sound, Continuing, Filing, Points
  <2>7. Tended /\ Frame
    BY <1>6, TendsNothing DEF OfferRead, history, Frame, IInv, TypeOK
  <2>8. Start(r, q)
    BY <1>3, <2>1, <2>2, <2>4
  <2> QED
    BY <2>5, <2>6, <2>7, <2>8, StartKeeps
<1>7. CASE RespondRead(r, t)
  <2>1. Tended /\ Frame
    BY <1>7, TendsNothing DEF RespondRead, history, Frame, IInv, TypeOK
  <2>2. PICK o : o = ticket[t].offer
    OBVIOUS
  <2>3. o \in OfferDoc
    BY <1>2, <1>7, <2>2 DEF RespondRead
  <2>4. CASE Start(r, [Idle EXCEPT !.op = "respond", !.pc = "check", !.sos = t, !.kind = "TOW",
                                   !.by = "rider", !.offer = ticket[t].offer])
    <3>1. PICK q : q = [id EXCEPT !.op = "respond", !.pc = "check", !.sos = t, !.kind = "TOW",
                                  !.by = "rider", !.offer = o]
      OBVIOUS
    <3>2. /\ q \in RequestDoc /\ q.op = "respond" /\ q.pc = "check" /\ q.sos = t
          /\ q.child = None /\ q.kind = "TOW" /\ q.offer = o
      BY <1>4, <2>3, <3>1 DEF RequestDoc, Ops, Points, OrNone
    <3>3. Sound(q)
      BY <1>1, <2>3, <3>2, Basics DEF Sound, Continuing, Filing, Points
    <3>4. Start(r, q)
      BY <1>3, <2>2, <2>4, <3>1
    <3> QED
      BY <2>1, <3>2, <3>3, <3>4, StartKeeps
  <2>5. CASE Start(r, [Idle EXCEPT !.op = "respond", !.pc = "decline", !.sos = t,
                                   !.offer = ticket[t].offer])
    <3>1. PICK q : q = [id EXCEPT !.op = "respond", !.pc = "decline", !.sos = t, !.offer = o]
      OBVIOUS
    <3>2. /\ q \in RequestDoc /\ q.op = "respond" /\ q.pc = "decline" /\ q.sos = t
          /\ q.child = None /\ q.kind = None /\ q.offer = o
      BY <1>4, <2>3, <3>1 DEF RequestDoc, Ops, Points, OrNone
    <3>3. Sound(q)
      BY <1>1, <2>3, <3>2, Basics DEF Sound, Continuing, Filing, Points
    <3>4. Start(r, q)
      BY <1>3, <2>2, <2>5, <3>1
    <3> QED
      BY <2>1, <3>2, <3>3, <3>4, StartKeeps
  <2> QED
    BY <1>7, <2>4, <2>5 DEF RespondRead
<1>8. CASE AskToContinue(r, t)
  <2>1. PICK by \in {"rider", "shop"} :
          Start(r, [Idle EXCEPT !.op = "ask", !.pc = "continue", !.sos = t, !.by = by])
    BY <1>8, SosAssumption DEF AskToContinue
  <2>2. PICK q : q = [id EXCEPT !.op = "ask", !.pc = "continue", !.sos = t, !.by = by]
    OBVIOUS
  <2>3. /\ q \in RequestDoc /\ q.op = "ask" /\ q.pc = "continue" /\ q.sos = t
        /\ q.child = None /\ q.kind = None
    BY <1>4, <2>2 DEF RequestDoc, Ops, Points, OrNone
  <2>4. Sound(q)
    BY <1>1, <2>3, Basics DEF Sound, Continuing, Filing, Points
  <2>5. Tended /\ Frame
    <3>1. UNCHANGED <<ticket, offers, faults, history>>
      BY <1>8 DEF AskToContinue
    <3> QED
      BY <3>1, TendsNothing DEF history, Frame, IInv, TypeOK
  <2>6. Start(r, q)
    BY <1>3, <2>1, <2>2
  <2> QED
    BY <2>3, <2>4, <2>5, <2>6, StartKeeps
<1>9. CASE ExpireRead(r, t)
  <2>1. PICK o : o = ticket[t].offer
    OBVIOUS
  <2>2. o \in OfferDoc
    BY <1>2, <1>9, <2>1 DEF ExpireRead
  <2>3. PICK q : q = [id EXCEPT !.op = "expire", !.pc = "expire", !.sos = t, !.offer = o]
    OBVIOUS
  <2>4. /\ q \in RequestDoc /\ q.op = "expire" /\ q.pc = "expire" /\ q.sos = t
        /\ q.child = None /\ q.kind = None /\ q.offer = o
    BY <1>4, <2>2, <2>3 DEF RequestDoc, Ops, Points, OrNone
  <2>5. Sound(q)
    BY <1>1, <2>2, <2>4, Basics DEF Sound, Continuing, Filing, Points
  <2>6. Tended /\ Frame
    BY <1>9, TendsNothing DEF ExpireRead, history, Frame, IInv, TypeOK
  <2>7. Start(r, q)
    BY <1>3, <1>9, <2>1, <2>3 DEF ExpireRead
  <2> QED
    BY <2>4, <2>5, <2>6, <2>7, StartKeeps
<1>10. CASE ContinueUnfixRead(r, t)
  <2>1. PICK q : q = [id EXCEPT !.op = "grace", !.pc = "continue", !.sos = t, !.auto = TRUE,
                                !.by = "rider"]
    OBVIOUS
  <2>2. /\ q \in RequestDoc /\ q.op = "grace" /\ q.pc = "continue" /\ q.sos = t
        /\ q.child = None /\ q.kind = None
    BY <1>4, <2>1 DEF RequestDoc, Ops, Points, OrNone
  <2>3. Sound(q)
    BY <1>1, <2>2, Basics DEF Sound, Continuing, Filing, Points
  <2>4. Tended /\ Frame
    BY <1>10, TendsNothing DEF ContinueUnfixRead, history, Frame, IInv, TypeOK
  <2>5. Start(r, q)
    BY <1>3, <1>10, <2>1 DEF ContinueUnfixRead
  <2> QED
    BY <2>2, <2>3, <2>4, <2>5, StartKeeps
<1> QED
  BY <1>5, <1>6, <1>7, <1>8, <1>9, <1>10

LEMMA FileStep ==
  ASSUME IInv, NEW r \in Requests, File(r)
  PROVE  IInv'
<1>1. PICK id, q : id = Idle /\ q = [id EXCEPT !.op = "file", !.pc = "check", !.kind = "TOW",
                                              !.by = "rider"]
  OBVIOUS
<1>2. /\ id \in RequestDoc /\ id.sos = None /\ id.child = None
  BY <1>1, EmptyDocs DEF Idle
<1>3. /\ q \in RequestDoc /\ q.op = "file" /\ q.pc = "check" /\ q.kind = "TOW" /\ q.child = None
  BY ZenonT(40), <1>1, <1>2 DEF RequestDoc, Ops, Points, OrNone
<1>4. Sound(q)
  BY <1>3, Basics DEF Sound, Continuing, Filing, Points
<1>5. Tended /\ Frame /\ Start(r, q)
  BY <1>1, TendsNothing DEF File, history, Frame, IInv, TypeOK
<1> QED
  BY <1>3, <1>4, <1>5, StartKeeps

\* A handler that has no id goes on to the continuation.
LEMMA ToContinueKeeps ==
  ASSUME IInv, Tended, Frame, NEW r \in Requests,
         req[r].pc \in {"availability", "decline", "expire"},
         req' = [req EXCEPT ![r].pc = "continue", ![r].auto = TRUE, ![r].by = "rider"]
  PROVE  IInv'
<1>1. PICK q, d : q = req[r] /\ d = [q EXCEPT !.pc = "continue", !.auto = TRUE, !.by = "rider"]
  OBVIOUS
<1>2. q \in RequestDoc /\ Sound(q) /\ q.pc \in {"availability", "decline", "expire"}
  BY <1>1, Reads
<1>3. d \in RequestDoc
  BY ZenonT(40), <1>1, <1>2 DEF RequestDoc, Points, OrNone
<1>4. /\ d.pc = "continue" /\ d.op = q.op /\ d.sos = q.sos /\ d.kind = q.kind
      /\ d.child = q.child /\ d.offer = q.offer
  BY <1>1, <1>2 DEF RequestDoc
<1>5. q.pc # None
  BY <1>2, Basics DEF Points
<1>6. Sound(d)
  BY <1>2, <1>4, <1>5, Basics DEF Sound, Continuing, Filing, Points
<1>7. req' = [req EXCEPT ![r] = d]
  BY <1>1
<1> QED
  BY <1>1, <1>3, <1>4, <1>6, <1>7, GotoKeeps

LEMMA GotoPoint ==
  ASSUME IInv, Tended, Frame, NEW r \in Requests, NEW pc \in Points, Goto(r, pc),
         \/ req[r].pc = "assign" /\ pc = "accepted"
         \/ req[r].pc \in {"continue", "claim"} /\ pc = "clear"
         \/ req[r].pc = "continue" /\ pc = "claim"
         \/ req[r].pc = "check" /\ pc = "unclaim" /\ Continues(r)
  PROVE  IInv'
<1>1. PICK q, d : q = req[r] /\ d = [q EXCEPT !.pc = pc]
  OBVIOUS
<1>2. q \in RequestDoc /\ Sound(q)
  BY <1>1, Reads
<1>3. d \in RequestDoc
  BY <1>1, <1>2 DEF RequestDoc, OrNone
<1>4. /\ d.pc = pc /\ d.op = q.op /\ d.sos = q.sos /\ d.kind = q.kind
      /\ d.child = q.child /\ d.offer = q.offer
  BY <1>1, <1>2 DEF RequestDoc
<1>5. q.pc # None
  BY <1>1, Basics DEF Points
<1>6. Sound(d)
  <2>1. CASE q.pc = "assign" /\ pc = "accepted"
    BY <1>2, <1>4, <1>5, <2>1, Basics DEF Sound, Continuing, Filing, Points
  <2>2. CASE q.pc \in {"continue", "claim"} /\ pc = "clear"
    BY <1>2, <1>4, <1>5, <2>2, Basics DEF Sound, Continuing, Filing, Points
  <2>3. CASE q.pc = "continue" /\ pc = "claim"
    BY <1>2, <1>4, <1>5, <2>3, Basics DEF Sound, Continuing, Filing, Points
  <2>4. CASE q.pc = "check" /\ pc = "unclaim" /\ Continuing(q)
    BY <1>2, <1>4, <1>5, <2>4, Basics DEF Sound, Continuing, Filing, Points
  <2> QED
    BY <1>1, <2>1, <2>2, <2>3, <2>4 DEF Continues, Continuing
<1>7. req' = [req EXCEPT ![r] = d]
  BY <1>1 DEF Goto
<1> QED
  BY <1>1, <1>3, <1>4, <1>6, <1>7, GotoKeeps

\* The writes to the ticket of a handler that claims and files nothing.
LEMMA ToldStep ==
  ASSUME IInv, NEW r \in Requests,
         \/ Availability(r) \/ OfferWrite(r) \/ DeclineWrite(r) \/ Assign(r) \/ AcceptedWrite(r)
         \/ ExpireWrite(r) \/ ContinueRead(r) \/ ClearGrace(r)
  PROVE  IInv'
<1>1. PICK q, t : q = req[r] /\ t = req[r].sos
  OBVIOUS
<1>2. q \in RequestDoc /\ Sound(q) /\ t = q.sos
  BY <1>1, Reads
<1>3. q.pc \in {"availability", "offer", "decline", "assign", "accepted", "expire", "continue",
               "clear"}
  BY <1>1 DEF Availability, OfferWrite, DeclineWrite, Assign, AcceptedWrite, ExpireWrite,
              ContinueRead, ClearGrace, At
<1>4. t \in Ids /\ Exists(t) /\ q.pc # None
  BY <1>2, <1>3, Basics DEF Sound, Filing, Points
<1>5. Frame
  BY DEF Availability, OfferWrite, DeclineWrite, Assign, AcceptedWrite, ExpireWrite, ContinueRead,
         ClearGrace, history, Frame, IInv, TypeOK
<1>6. q.pc \in {"offer", "decline", "expire", "accepted"} => q.offer \in OfferDoc
  BY <1>2 DEF Sound
<1>7. ASSUME NEW status \in {"ACCEPTED", "DECLINED", "EXPIRED"}, q.offer \in OfferDoc
      PROVE  Answered(r, status) \in OfferDoc
  BY <1>1, <1>7 DEF Answered, OfferDoc
<1>8. req[r].pc \notin {"check", "create", "unclaim"}
  BY <1>1, <1>3
<1>9. CASE Availability(r)
  <2>1. CASE ticket' = [ticket EXCEPT ![req[r].sos].grace = "running"] /\ Done(r)
    <3>1. Tended
      BY <1>1, <1>4, <2>1, Regrace DEF OrNone
    <3> QED
      BY <1>5, <1>8, <2>1, <3>1, DoneKeeps
  <2>2. CASE /\ req' = [req EXCEPT ![r].pc = "continue", ![r].auto = TRUE, ![r].by = "rider"]
             /\ UNCHANGED ticket
    BY <1>5, <1>9, <2>2, TendsNothing, ToContinueKeeps DEF Availability, At
  <2> QED
    BY <1>9, <2>1, <2>2 DEF Availability
<1>10. CASE OfferWrite(r)
  <2>1. Tended
    BY <1>1, <1>4, <1>6, <1>10, Reoffer DEF OfferWrite, At
  <2> QED
    BY <1>5, <1>8, <1>10, <2>1, DoneKeeps DEF OfferWrite
<1>11. CASE DeclineWrite(r)
  <2>1. Tended
    BY <1>1, <1>4, <1>6, <1>7, <1>11, Reoffer DEF DeclineWrite, At
  <2> QED
    BY <1>5, <1>11, <2>1, ToContinueKeeps DEF DeclineWrite, At
<1>12. CASE Assign(r)
  <2>1. CASE Open(req[r].child) /\ Goto(r, "accepted") /\ UNCHANGED ticket
    BY <1>5, <1>12, <2>1, TendsNothing, GotoPoint DEF Assign, At, Points
  <2>2. CASE ticket' = [ticket EXCEPT ![req[r].child].status = "CANCELLED"] /\ Done(r)
    <3>1. PICK c : c = req[r].child
      OBVIOUS
    <3>2. c \in Ids /\ Exists(c)
      BY <1>1, <1>2, <1>12, <3>1 DEF Assign, At, Sound, Filing, RequestDoc, OrNone
    <3>3. Tended
      BY <2>2, <3>1, <3>2, Restatus DEF Terminal
    <3> QED
      BY <1>5, <1>8, <2>2, <3>3, DoneKeeps
  <2> QED
    BY <1>12, <2>1, <2>2 DEF Assign
<1>13. CASE AcceptedWrite(r)
  <2>1. Tended
    BY <1>1, <1>4, <1>6, <1>7, <1>13, Reoffer DEF AcceptedWrite, At
  <2> QED
    BY <1>5, <1>8, <1>13, <2>1, DoneKeeps DEF AcceptedWrite
<1>14. CASE ExpireWrite(r)
  <2>1. Tended
    BY <1>1, <1>4, <1>6, <1>7, <1>14, Reoffer DEF ExpireWrite, At
  <2> QED
    BY <1>5, <1>8, <1>14, <2>1, DoneKeeps, ToContinueKeeps DEF ExpireWrite, At
<1>15. CASE ContinueRead(r)
  <2>1. Tended /\ req[r].pc = "continue"
    BY <1>15, TendsNothing DEF ContinueRead, At
  <2>2. Done(r) \/ Answer(r) \/ Goto(r, "claim")
    BY <1>15 DEF ContinueRead
  <2>3. Done(r) \/ Goto(r, "clear") \/ Goto(r, "claim")
    BY <2>2 DEF Answer
  <2>4. "clear" \in Points /\ "claim" \in Points
    BY DEF Points
  <2> QED
    BY <1>5, <1>8, <2>1, <2>3, <2>4, DoneKeeps, GotoPoint
<1>16. CASE ClearGrace(r)
  <2>1. Tended
    BY <1>1, <1>4, <1>16, Regrace DEF ClearGrace, OrNone
  <2> QED
    BY <1>5, <1>8, <1>16, <2>1, DoneKeeps DEF ClearGrace
<1> QED
  BY <1>9, <1>10, <1>11, <1>12, <1>13, <1>14, <1>15, <1>16

\* A handler may die anywhere: its claim may then stay behind.
LEMMA AbortStep ==
  ASSUME IInv, NEW r \in Requests, Abort(r)
  PROVE  IInv'
<1>1. Tended /\ Frame /\ faults' > 0 /\ Done(r)
  BY TendsNothing DEF Abort, history, Frame, IInv, TypeOK
<1> QED
  BY <1>1, DoneKeeps

-----------------------------------------------------------------------------
(* The claim on the parent, given and taken back.                          *)

LEMMA NewIdFree ==
  ASSUME Free # {}
  PROVE  /\ NewId \in Ids /\ ~Exists(NewId)
         /\ \A p \in Ids : ticket[p].next # NewId
         /\ \A r \in Requests : req[r].child # NewId
<1>1. NewId \in Free
  BY DEF NewId
<1> QED
  BY <1>1 DEF Free

\* A write of the continuation of a SOS and nothing else.
LEMMA Reclaimed ==
  ASSUME IInv, NEW t \in Ids, Exists(t), NEW n \in OrNone(Ids),
         ticket' = [ticket EXCEPT ![t].next = n]
  PROVE  /\ Steady /\ ticket'[t].next = n
         /\ \A u \in Ids : u # t => ticket'[u] = ticket[u]
<1>1. PICK was, doc : was = ticket[t] /\ doc = [was EXCEPT !.next = n]
  OBVIOUS
<1>2. was \in TicketDoc /\ (was.shop # None => was.callOut \in Nat /\ was.travel \in Nat)
  BY <1>1, Reads DEF IInv, TicketInv
<1>3. doc \in TicketDoc
  BY <1>1, <1>2 DEF TicketDoc
<1>4. /\ doc.kind = was.kind /\ doc.parent = was.parent /\ doc.next = n /\ doc.status = was.status
      /\ doc.shop = was.shop /\ doc.callOut = was.callOut /\ doc.travel = was.travel
  BY <1>1, <1>2 DEF TicketDoc
<1>5. /\ ticket' \in [Ids -> TicketDoc] /\ ticket'[t] = doc
      /\ \A u \in Ids : u # t => ticket'[u] = ticket[u]
  BY <1>1, <1>3 DEF IInv, TypeOK
<1>6. \A u \in Ids : /\ Exists(u)' <=> Exists(u)
                     /\ Open(u)' => Open(u)
                     /\ ticket'[u].kind = ticket[u].kind
                     /\ ticket'[u].parent = ticket[u].parent
  BY <1>1, <1>4, <1>5 DEF Exists, Open
<1>7. TicketInv'
  BY <1>1, <1>2, <1>4, <1>5, <1>6 DEF IInv, TicketInv, Exists
<1> QED
  BY <1>4, <1>5, <1>6, <1>7 DEF Steady

LEMMA ClaimStep ==
  ASSUME IInv, NEW r \in Requests, Claim(r)
  PROVE  IInv'
<1>1. PICK q, t, c : q = req[r] /\ t = req[r].sos /\ c = NewId
  OBVIOUS
<1>2. q \in RequestDoc /\ Sound(q) /\ q.pc = "claim" /\ t = q.sos /\ q.pc # None
  BY <1>1, Reads, Basics DEF Claim, At, Points
<1>3. t \in Ids /\ Exists(t) /\ q.child = None
  BY <1>2 DEF Sound, Filing
<1>4. Frame
  BY DEF Claim, history, Frame, IInv, TypeOK
<1>5. CASE ticket[t].next # None /\ Answer(r) /\ UNCHANGED ticket
  <2>1. Done(r) \/ Goto(r, "clear")
    BY <1>5 DEF Answer
  <2>2. Tended /\ "clear" \in Points
    BY <1>5, TendsNothing DEF Points
  <2> QED
    BY <1>1, <1>2, <1>4, <2>1, <2>2, DoneKeeps, GotoPoint
<1>6. CASE Done(r) /\ UNCHANGED ticket
  BY <1>1, <1>2, <1>4, <1>6, TendsNothing, DoneKeeps
<1>7. CASE /\ ticket[t].next = None /\ Free # {}
           /\ ticket' = [ticket EXCEPT ![t].next = c]
           /\ req' = [req EXCEPT ![r].pc = "check", ![r].kind = "SOS", ![r].child = c]
  <2>1. c \in Ids /\ ~Exists(c) /\ c # None
        /\ (\A p \in Ids : ticket[p].next # c) /\ (\A u \in Requests : req[u].child # c)
    BY <1>1, <1>7, NewIdFree, Basics
  <2>2. /\ Steady /\ ticket'[t].next = c
        /\ \A u \in Ids : u # t => ticket'[u] = ticket[u]
    BY <1>3, <1>7, <2>1, Reclaimed DEF OrNone
  <2>3. PICK d : d = [q EXCEPT !.pc = "check", !.kind = "SOS", !.child = c]
    OBVIOUS
  <2>4. d \in RequestDoc
    BY <1>2, <2>1, <2>3 DEF RequestDoc, Points, OrNone
  <2>5. d.pc = "check" /\ d.kind = "SOS" /\ d.child = c /\ d.op = q.op /\ d.sos = t
    BY <1>2, <2>3 DEF RequestDoc
  <2>6. req' \in [Requests -> RequestDoc] /\ req'[r] = d
        /\ \A u \in Requests : u # r => req'[u] = req[u]
    BY <1>1, <1>7, <2>3, <2>4 DEF IInv, TypeOK
  <2>7. TypeOK' /\ TicketInv'
    BY <1>4, <2>2, <2>6 DEF IInv, TypeOK, Steady, Frame
  <2>8. Sound(d)'
    <3>1. d.op \in {"unfixable", "respond", "expire", "grace", "ask"}
      BY <1>2, <2>5 DEF Sound
    <3>2. Exists(t)' /\ ~Exists(c)' /\ d.pc # None /\ d.kind # None
      BY <1>3, <2>1, <2>2, <2>5, Basics DEF Steady, Points
    <3> QED
      BY <1>3, <2>1, <2>2, <2>5, <3>1, <3>2 DEF Sound, Continuing, Filing
  <2>9. ASSUME NEW u \in Requests, u # r
        PROVE  Sound(req[u])'
    <3>1. PICK e : e = req[u] /\ e = req'[u]
      BY <2>6, <2>9
    <3>2. e \in RequestDoc /\ Sound(e)
      BY <3>1, Reads
    <3>3. Continuing(e) => e.pc # None /\ e.op # "file"
      BY <3>2, Basics DEF Continuing, Sound, Idle, Ops
    <3>4. Continuing(e) /\ (Filing(e) \/ e.pc = "unclaim") => ticket'[e.sos].next = e.child
      BY <1>7, <2>2, <3>2, <3>3 DEF Sound
    <3>5. Sound(e)'
      BY <1>4, <2>2, <3>2, <3>4, StillSound DEF Frame
    <3> QED
      BY <3>1, <3>5
  <2>10. RequestInv'
    BY <2>6, <2>8, <2>9 DEF RequestInv
  <2>11. IdsApart'
    <3>1. \A u, v \in Requests : u # v /\ req'[u].child # None => req'[u].child # req'[v].child
      BY <2>1, <2>5, <2>6 DEF IInv, IdsApart
    <3>2. \A u, p \in Ids : u # p /\ ticket'[u].next # None => ticket'[u].next # ticket'[p].next
      BY <2>1, <2>2 DEF IInv, IdsApart
    <3> QED
      BY <3>1, <3>2 DEF IdsApart
  <2>12. Single'
    BY <1>4, <2>2 DEF IInv, Single, OpenChild, Steady, Frame
  <2>13. ClaimsKept'
    <3> SUFFICES ASSUME NEW p \in Ids, ticket'[p].next # None, ~Exists(ticket[p].next)',
                        ~(faults' > 0)
                 PROVE  \E u \in Requests : req'[u].child = ticket'[p].next
      BY DEF ClaimsKept
    <3>1. CASE p = t
      BY <2>2, <2>5, <2>6, <3>1
    <3>2. CASE p # t
      <4>1. PICK n : n = ticket[p].next
        OBVIOUS
      <4>2. ticket'[p].next = n /\ n \in Ids /\ ~Exists(n) /\ n # None
        BY <2>2, <3>2, <4>1, Reads, Basics DEF Steady, TicketDoc, OrNone
      <4>3. ~(faults > 0)
        BY <1>4 DEF Frame, IInv, TypeOK
      <4>4. PICK u \in Requests : req[u].child = n
        BY <4>1, <4>2, <4>3 DEF IInv, ClaimsKept
      <4>5. u # r
        BY <1>1, <1>3, <4>2, <4>4
      <4> QED
        BY <2>6, <4>2, <4>4, <4>5
    <3> QED
      BY <3>1, <3>2
  <2> QED
    BY <2>7, <2>10, <2>11, <2>12, <2>13 DEF IInv
<1> QED
  BY <1>1, <1>5, <1>6, <1>7 DEF Claim

LEMMA UnclaimStep ==
  ASSUME IInv, NEW r \in Requests, Unclaim(r)
  PROVE  IInv'
<1>1. PICK q, t : q = req[r] /\ t = req[r].sos
  OBVIOUS
<1>2. q \in RequestDoc /\ Sound(q) /\ q.pc = "unclaim" /\ t = q.sos
  BY <1>1, Reads DEF Unclaim, At
<1>3. t \in Ids /\ Exists(t) /\ q.child # None /\ ticket[t].next = q.child
  BY <1>2, Basics DEF Sound, Filing, Continuing, Points
<1>4. Frame
  BY DEF Unclaim, history, Frame, IInv, TypeOK
<1>5. /\ Steady /\ ticket'[t].next = None
      /\ \A u \in Ids : u # t => ticket'[u] = ticket[u]
  BY <1>1, <1>3, Reclaimed DEF Unclaim, OrNone
<1>6. req' \in [Requests -> RequestDoc] /\ req'[r] = Idle
      /\ \A u \in Requests : u # r => req'[u] = req[u]
  BY IdleSound DEF IInv, TypeOK, Unclaim, Done
<1>7. TypeOK' /\ TicketInv'
  BY <1>4, <1>5, <1>6 DEF IInv, TypeOK, Steady, Frame
<1>8. RequestInv'
  <2> SUFFICES ASSUME NEW u \in Requests PROVE Sound(req[u])'
    BY DEF RequestInv
  <2>1. PICK e : e = req'[u]
    OBVIOUS
  <2>2. e \in RequestDoc /\ Sound(e)
    BY <1>6, <2>1, Reads, IdleSound
  <2>3. Continuing(e) => e.pc # None /\ e.op # "file"
    BY <2>2, Basics DEF Continuing, Sound, Idle, Ops
  <2>4. e.child = q.child => u = r
    BY <1>1, <1>3, <1>6, <2>1 DEF IInv, IdsApart
  <2>5. Continuing(e) => u # r
    BY <1>6, <2>1, <2>3 DEF Idle
  <2>6. Continuing(e) /\ (Filing(e) \/ e.pc = "unclaim") => ticket'[e.sos].next = e.child
    BY <1>3, <1>5, <2>2, <2>3, <2>4, <2>5 DEF Sound
  <2>7. Sound(e)'
    BY <1>4, <1>5, <2>2, <2>6, StillSound DEF Frame
  <2> QED
    BY <2>1, <2>7
<1>9. IdsApart'
  <2>1. \A u, v \in Requests : u # v /\ req'[u].child # None => req'[u].child # req'[v].child
    BY <1>6, IdleSound DEF IInv, IdsApart
  <2>2. \A u, p \in Ids : u # p /\ ticket'[u].next # None => ticket'[u].next # ticket'[p].next
    BY <1>5 DEF IInv, IdsApart
  <2> QED
    BY <2>1, <2>2 DEF IdsApart
<1>10. Single'
  BY <1>4, <1>5 DEF IInv, Single, OpenChild, Steady, Frame
<1>11. ClaimsKept'
  <2> SUFFICES ASSUME NEW p \in Ids, ticket'[p].next # None, ~Exists(ticket[p].next)',
                      ~(faults' > 0)
               PROVE  \E u \in Requests : req'[u].child = ticket'[p].next
    BY DEF ClaimsKept
  <2>1. p # t
    BY <1>5
  <2>2. PICK n : n = ticket[p].next
    OBVIOUS
  <2>3. ticket'[p].next = n /\ n \in Ids /\ ~Exists(n) /\ n # None
    BY <1>5, <2>1, <2>2, Reads, Basics DEF Steady, TicketDoc, OrNone
  <2>4. ~(faults > 0)
    BY <1>4 DEF Frame, IInv, TypeOK
  <2>5. PICK u \in Requests : req[u].child = n
    BY <2>2, <2>3, <2>4 DEF IInv, ClaimsKept
  <2>6. u # r
    BY <1>1, <1>3, <2>1, <2>2, <2>3, <2>5 DEF IInv, IdsApart
  <2> QED
    BY <1>6, <2>3, <2>5, <2>6
<1> QED
  BY <1>7, <1>8, <1>9, <1>10, <1>11 DEF IInv

-----------------------------------------------------------------------------
(* The filing.                                                             *)

LEMMA CheckStep ==
  ASSUME IInv, NEW r \in Requests, Check(r)
  PROVE  IInv'
<1>1. PICK q, c : q = req[r] /\ c = Reserved(r)
  OBVIOUS
<1>2. q \in RequestDoc /\ Sound(q) /\ q.pc = "check"
  BY <1>1, Reads DEF Check, At
<1>3. Tended /\ Frame /\ UNCHANGED <<ticket, faults>>
  BY TendsNothing DEF Check, history, Frame, IInv, TypeOK
<1>4. CASE ~Continues(r) /\ Done(r)
  <2>1. req[r].child = None
    BY <1>1, <1>2, <1>4 DEF Sound, Continues, Continuing
  <2> QED
    BY <1>3, <1>4, <2>1, DoneKeeps
<1>5. CASE Continues(r) /\ Goto(r, "unclaim")
  <2>1. "unclaim" \in Points
    BY DEF Points
  <2> QED
    BY <1>1, <1>2, <1>3, <1>5, <2>1, GotoPoint
<1>6. CASE /\ ~LiveTicketConflict(req[r].kind) /\ (req[r].child # None \/ Free # {})
           /\ req' = [req EXCEPT ![r].pc = "create", ![r].stale = FALSE, ![r].child = c]
  <2>1. \A t \in Ids : ~Open(t)
    BY <1>6 DEF LiveTicketConflict
  <2>2. /\ c \in Ids /\ c # None /\ ~Exists(c)
        /\ \A u \in Requests : u # r => req[u].child # c
        /\ q.child # None => c = q.child
    <3>1. CASE q.child = None
      BY <1>1, <1>6, <3>1, NewIdFree, Basics DEF Reserved
    <3>2. CASE q.child # None
      <4>1. c = q.child /\ ~Exists(c)
        BY <1>1, <1>2, <3>2 DEF Reserved, Sound, Filing
      <4>2. c \in Ids
        BY <1>2, <3>2, <4>1 DEF RequestDoc, OrNone
      <4>3. \A u \in Requests : u # r => req[u].child # c
        BY <1>1, <3>2, <4>1 DEF IInv, IdsApart
      <4> QED
        BY <3>2, <4>1, <4>2, <4>3
    <3> QED
      BY <3>1, <3>2
  <2>3. PICK no \in BOOLEAN : no = FALSE
    OBVIOUS
  <2>4. PICK d : d = [q EXCEPT !.pc = "create", !.stale = no, !.child = c]
    OBVIOUS
  <2>5. d \in RequestDoc
    BY ZenonT(40), <1>2, <2>2, <2>4 DEF RequestDoc, Points, OrNone
  <2>6. d.pc = "create" /\ d.child = c /\ d.op = q.op /\ d.sos = q.sos /\ d.kind = q.kind
        /\ d.offer = q.offer
    BY <1>2, <2>4 DEF RequestDoc
  <2>7. req' \in [Requests -> RequestDoc] /\ req'[r] = d
        /\ \A u \in Requests : u # r => req'[u] = req[u]
    BY <1>1, <1>6, <2>3, <2>4, <2>5 DEF IInv, TypeOK
  <2>8. TypeOK' /\ TicketInv'
    BY <1>3, <2>7 DEF IInv, TypeOK, Tended, Steady, Frame
  <2>9. Sound(d)
    <3>1. q.pc # None /\ Filing(q) /\ Filing(d) /\ d.pc # None
      BY <1>2, <2>6, Basics DEF Filing, Points
    <3>2. Continuing(d) => Continuing(q) /\ q.child # None /\ ticket[d.sos].next = c
      BY <1>2, <2>2, <2>6, <3>1 DEF Sound, Continuing
    <3>3. \A x \in Ids : ~OpenChild(x, d.sos)
      BY <2>1 DEF OpenChild
    <3>4. d.kind # None /\ (d.kind = "SOS" => Continuing(d))
      BY <1>2, <2>6, <3>1 DEF Sound, Continuing
    <3>5. d.op # "file" => d.sos \in Ids /\ Exists(d.sos)
      BY <1>2, <2>6, <3>1 DEF Sound
    <3>6. d.kind = "TOW" /\ d.op = "respond" => d.offer \in OfferDoc
      BY <1>2, <2>6 DEF Sound
    <3> QED
      BY <2>1, <2>2, <2>6, <3>1, <3>2, <3>3, <3>4, <3>5, <3>6 DEF Sound
  <2>10. RequestInv'
    <3> SUFFICES ASSUME NEW u \in Requests PROVE Sound(req[u])'
      BY DEF RequestInv
    <3>1. PICK e : e = req'[u]
      OBVIOUS
    <3>2. e \in RequestDoc /\ Sound(e)
      BY <2>5, <2>7, <2>9, <3>1, Reads
    <3>3. Sound(e)'
      BY <1>3, <3>2, SoundKept DEF Frame
    <3> QED
      BY <3>1, <3>3
  <2>11. IdsApart'
    <3>1. \A u, v \in Requests : u # v /\ req'[u].child # None => req'[u].child # req'[v].child
      BY <2>2, <2>6, <2>7 DEF IInv, IdsApart
    <3> QED
      BY <1>3, <3>1 DEF IInv, IdsApart
  <2>12. Single'
    BY <1>3 DEF IInv, Single, OpenChild, Tended, Steady, Frame
  <2>13. ClaimsKept'
    <3> SUFFICES ASSUME NEW t \in Ids, ticket[t].next # None, ~Exists(ticket[t].next),
                        ~(faults > 0)
                 PROVE  \E u \in Requests : req'[u].child = ticket[t].next
      BY <1>3 DEF ClaimsKept, Exists
    <3>1. PICK u \in Requests : req[u].child = ticket[t].next
      BY DEF IInv, ClaimsKept
    <3>2. CASE u = r
      BY <1>1, <2>2, <2>6, <2>7, <3>1, <3>2
    <3>3. CASE u # r
      BY <2>7, <3>1, <3>3
    <3> QED
      BY <3>2, <3>3
  <2> QED
    BY <2>8, <2>10, <2>11, <2>12, <2>13 DEF IInv
<1> QED
  BY <1>1, <1>4, <1>5, <1>6 DEF Check

\* The ticket that is filed: a SOS only as a continuation.
LEMMA ChildDoc ==
  ASSUME IInv, NEW r \in Requests, At(r, "create")
  PROVE  /\ Child(r) \in TicketDoc /\ Child(r).kind \in {"SOS", "TOW"}
         /\ Child(r).next = None /\ Child(r).shop = None /\ Child(r).status = "PENDING"
         /\ Child(r).kind = "SOS" => Continues(r) /\ Child(r).parent = req[r].sos
<1>1. PICK q : q = req[r]
  OBVIOUS
<1>2. q \in RequestDoc /\ Sound(q) /\ q.pc = "create"
  BY <1>1, Reads DEF At
<1>3. Continues(r) <=> Continuing(q)
  BY <1>1 DEF Continues, Continuing
<1>4. q.kind \in {"SOS", "TOW"} /\ q.sos \in OrNone(Ids)
  BY <1>2 DEF Sound, Filing, RequestDoc, OrNone
<1>5. CASE ~Continuing(q)
  <2>1. Child(r) = New(q.kind, q.sos) /\ q.kind = "TOW"
    BY <1>1, <1>2, <1>3, <1>4, <1>5 DEF Child, Sound
  <2> QED
    BY <1>4, <2>1, NewDoc
<1>6. CASE Continuing(q)
  <2>1. q.sos \in Ids
    BY <1>2, <1>6, Basics DEF Sound, Continuing, Filing, Points
  <2>2. PICK from, n, a, out :
          /\ from = ticket[q.sos] /\ n = New("SOS", q.sos) /\ a = from.attempt + 1
          /\ out = from.excluded \cup (IF Assigned(from) THEN {from.shop} ELSE {})
    OBVIOUS
  <2>3. from \in TicketDoc
    BY <2>1, <2>2, Reads
  <2>4. a \in Nat /\ out \in SUBSET Shops
    BY <2>2, <2>3 DEF TicketDoc, Assigned, OrNone
  <2>5. /\ n \in TicketDoc /\ n.kind = "SOS" /\ n.parent = q.sos /\ n.status = "PENDING"
        /\ n.shop = None /\ n.next = None
    BY <1>4, <2>2, NewDoc
  <2>6. PICK doc : doc = [n EXCEPT !.attempt = a, !.excluded = out]
    OBVIOUS
  <2>7. doc \in TicketDoc
    BY <2>4, <2>5, <2>6 DEF TicketDoc
  <2>8. /\ doc.kind = "SOS" /\ doc.parent = q.sos /\ doc.status = "PENDING"
        /\ doc.shop = None /\ doc.next = None
    BY <2>5, <2>6 DEF TicketDoc
  <2>9. Child(r) = doc
    BY <1>1, <1>3, <1>6, <2>2, <2>6 DEF Child
  <2> QED
    BY <1>1, <1>3, <1>6, <2>7, <2>8, <2>9
<1> QED
  BY <1>5, <1>6

\* Where a handler stands once its ticket is made.
Ended(q, e) ==
  \/ e = Idle
  \/ \E pc \in {"assign", "accepted", "clear", "unclaim"} :
       /\ e = [q EXCEPT !.pc = pc]
       /\ pc \in {"assign", "accepted"} => q.op = "respond" /\ q.kind = "TOW"
       /\ pc = "clear" => q.op = "grace"
       /\ pc = "unclaim" => Continuing(q)

LEMMA CreateEnds ==
  ASSUME IInv, NEW r \in Requests, Create(r)
  PROVE  \E e : /\ Ended(req[r], e) /\ faults' \in Nat /\ faults <= faults'
               /\ req' = [u \in Requests |-> IF u = r THEN e
                                            ELSE [req[u] EXCEPT !.stale = At(u, "create")]]
<1>1. PICK q : q = req[r]
  OBVIOUS
<1>2. PICK next : next = CASE q.kind = "TOW" /\ q.op = "respond" ->
                                [q EXCEPT !.pc = IF q.offer.mode = "DIRECT" THEN "assign"
                                                 ELSE "accepted"]
                           [] q.op = "grace" -> [q EXCEPT !.pc = "clear"]
                           [] OTHER -> Idle
  OBVIOUS
<1>3. PICK failed : failed = IF Continues(r) THEN [q EXCEPT !.pc = "unclaim"] ELSE Idle
  OBVIOUS
<1>4. PICK e \in {next, failed} :
        /\ faults' = faults + (IF e = next THEN 0 ELSE 1)
        /\ req' = [u \in Requests |-> IF u = r THEN e
                                     ELSE [req[u] EXCEPT !.stale = At(u, "create")]]
  BY <1>1, <1>2, <1>3 DEF Create
<1>5. Ended(q, next)
  <2>1. CASE q.kind = "TOW" /\ q.op = "respond"
    <3>1. q.op # "grace"
      BY <2>1
    <3>2. next = [q EXCEPT !.pc = "assign"] \/ next = [q EXCEPT !.pc = "accepted"]
      BY <1>2, <2>1, <3>1
    <3> QED
      BY <2>1, <3>2 DEF Ended
  <2>2. CASE ~(q.kind = "TOW" /\ q.op = "respond") /\ q.op = "grace"
    <3>1. next = [q EXCEPT !.pc = "clear"]
      BY <1>2, <2>2
    <3> QED
      BY <2>2, <3>1 DEF Ended
  <2>3. CASE ~(q.kind = "TOW" /\ q.op = "respond") /\ q.op # "grace"
    <3>1. next = Idle
      BY <1>2, <2>3
    <3> QED
      BY <3>1 DEF Ended
  <2> QED
    BY <2>1, <2>2, <2>3
<1>6. Ended(q, failed)
  BY <1>1, <1>3 DEF Ended, Continues, Continuing
<1>7. faults' \in Nat /\ faults <= faults'
  <2>1. faults' = faults \/ faults' = faults + 1
    BY <1>4 DEF IInv, TypeOK
  <2> QED
    BY <2>1 DEF IInv, TypeOK
<1> QED
  BY <1>1, <1>4, <1>5, <1>6, <1>7

LEMMA CreateStep ==
  ASSUME IInv, NEW r \in Requests, Create(r)
  PROVE  IInv'
<1>1. PICK q, c, doc : q = req[r] /\ c = req[r].child /\ doc = Child(r)
  OBVIOUS
<1>2. q \in RequestDoc /\ Sound(q) /\ q.pc = "create" /\ c = q.child /\ At(r, "create")
  BY <1>1, Reads DEF Create, At
<1>3. c # None /\ ~Exists(c) /\ c \in Ids
  BY <1>2 DEF Sound, Filing, RequestDoc, OrNone
<1>4. /\ doc \in TicketDoc /\ doc.kind \in {"SOS", "TOW"} /\ doc.kind # None
      /\ doc.next = None /\ doc.shop = None
      /\ doc.kind = "SOS" => Continuing(q) /\ doc.parent = q.sos
  BY <1>1, <1>2, ChildDoc, Basics DEF Continues, Continuing
<1>5. PICK e : /\ Ended(q, e) /\ faults' \in Nat /\ faults <= faults'
               /\ req' = [u \in Requests |-> IF u = r THEN e
                                            ELSE [req[u] EXCEPT !.stale = At(u, "create")]]
  BY <1>1, CreateEnds
<1>6. /\ ticket' \in [Ids -> TicketDoc] /\ ticket'[c] = doc
      /\ \A t \in Ids : t # c => ticket'[t] = ticket[t]
  BY <1>1, <1>3, <1>4 DEF Create, IInv, TypeOK
<1>7. /\ overlap' \in BOOLEAN /\ offers' = offers /\ calm' = calm
      /\ ~overlap' => ~overlap /\ ~q.stale
  BY <1>1 DEF Create, IInv, TypeOK
<1>8. visits' \in [Ids -> VisitsDoc]
  <2>1. PICK prior : prior = IF Continues(r)
                             THEN visits[q.sos].prior \cup Range(visits[q.sos].own) ELSE {}
    OBVIOUS
  <2>2. prior \in SUBSET Shops
    <3>1. CASE Continues(r)
      <4>1. Continuing(q)
        BY <1>1, <3>1 DEF Continues, Continuing
      <4>2. q.sos \in Ids
        BY <1>2, <4>1, Basics DEF Sound, Continuing, Filing, Points
      <4>3. PICK v : v = visits[q.sos]
        OBVIOUS
      <4>4. v.prior \in SUBSET Shops /\ v.own \in Seq(Shops)
        BY <4>2, <4>3 DEF IInv, TypeOK, VisitsDoc
      <4>5. Range(v.own) \subseteq Shops
        BY <4>4 DEF Range
      <4> QED
        BY <2>1, <3>1, <4>3, <4>4, <4>5
    <3> QED
      BY <2>1, <3>1
  <2>3. PICK old, new : old = visits[c] /\ new = [old EXCEPT !.prior = prior]
    OBVIOUS
  <2>4. old \in VisitsDoc
    BY <1>3, <2>3 DEF IInv, TypeOK
  <2>5. new \in VisitsDoc
    BY <2>2, <2>3, <2>4 DEF VisitsDoc
  <2>6. visits' = [visits EXCEPT ![c] = new]
    BY <1>1, <2>1, <2>3 DEF Create
  <2> QED
    BY <2>5, <2>6 DEF IInv, TypeOK
<1>9. /\ Exists(c)'
      /\ \A t \in Ids : t # c => (Exists(t)' <=> Exists(t)) /\ (Open(t)' <=> Open(t))
      /\ \A x, t \in Ids : x # c => (OpenChild(x, t)' <=> OpenChild(x, t))
  BY <1>4, <1>6 DEF Exists, Open, OpenChild
<1>10. e \in RequestDoc /\ (e.child = c \/ e.child = None) /\ Sound(e)'
  <2>1. CASE e = Idle
    BY <2>1, IdleSound, Basics DEF Sound, Continuing, Filing, Idle, Ops, Points
  <2>2. ASSUME NEW pc \in {"assign", "accepted", "clear", "unclaim"},
               e = [q EXCEPT !.pc = pc],
               pc \in {"assign", "accepted"} => q.op = "respond" /\ q.kind = "TOW",
               pc = "clear" => q.op = "grace",
               pc = "unclaim" => Continuing(q)
        PROVE  e \in RequestDoc /\ (e.child = c \/ e.child = None) /\ Sound(e)'
    <3>1. e \in RequestDoc
      BY <1>2, <2>2 DEF RequestDoc, Points, OrNone
    <3>2. /\ e.pc = pc /\ e.op = q.op /\ e.sos = q.sos /\ e.kind = q.kind
          /\ e.child = c /\ e.offer = q.offer
      BY <1>2, <2>2 DEF RequestDoc
    <3>3. q.op # "file" /\ q.pc # None /\ e.pc # None
      BY <1>2, <2>2, <3>2, Basics DEF Continuing, Points
    <3>4. q.sos \in Ids /\ Exists(q.sos) /\ q.sos # c
      BY <1>2, <1>3, <3>3 DEF Sound
    <3>5. Exists(e.sos)' /\ Exists(e.child)' /\ ticket'[e.sos] = ticket[e.sos]
      BY <1>6, <1>9, <3>2, <3>4
    <3>6. Continuing(e) <=> Continuing(q)
      BY <3>2 DEF Continuing
    <3>7. Continuing(q) => ticket[q.sos].next = c
      BY <1>2 DEF Sound, Filing
    <3>8. q.kind = "SOS" => Continuing(q)
      BY <1>2 DEF Sound
    <3>9. q.kind = "TOW" /\ q.op = "respond" => q.offer \in OfferDoc
      BY <1>2 DEF Sound
    <3>10. Sound(e)'
      BY <1>3, <2>2, <3>2, <3>3, <3>4, <3>5, <3>6, <3>7, <3>8, <3>9
      DEF Sound, Filing, Continuing
    <3> QED
      BY <3>1, <3>2, <3>10
  <2> QED
    BY <1>5, <2>1, <2>2 DEF Ended
<1>11. ASSUME NEW u \in Requests, u # r
       PROVE  req'[u] \in RequestDoc /\ req'[u].child = req[u].child /\ Sound(req[u])'
  <2>1. PICK b \in BOOLEAN : b <=> At(u, "create")
    OBVIOUS
  <2>2. PICK o, d : o = req[u] /\ d = [o EXCEPT !.stale = b]
    OBVIOUS
  <2>3. o \in RequestDoc /\ Sound(o)
    BY <2>2, Reads
  <2>4. req'[u] = d
    <3>1. req'[u] = [req[u] EXCEPT !.stale = At(u, "create")]
      BY <1>5, <1>11
    <3>2. b = At(u, "create")
      BY <2>1 DEF At
    <3> QED
      BY <2>2, <3>1, <3>2
  <2>5. d \in RequestDoc
    BY <2>1, <2>2, <2>3 DEF RequestDoc
  <2>6. /\ d.op = o.op /\ d.pc = o.pc /\ d.sos = o.sos /\ d.kind = o.kind /\ d.child = o.child
        /\ d.offer = o.offer /\ (d.pc = "create" => d.stale) /\ (d.pc # "create" => ~d.stale)
        /\ d.auto = o.auto /\ d.by = o.by
    BY <2>1, <2>2, <2>3 DEF RequestDoc, At
  <2>7. d.child = None \/ (d.child \in Ids /\ d.child # c)
    BY <1>1, <1>3, <1>11, <2>2, <2>3, <2>6 DEF IInv, IdsApart, RequestDoc, OrNone
  <2>8. d.child # None => (Exists(d.child)' <=> Exists(d.child))
    BY <1>9, <2>7
  <2>9. d.pc = None => d = Idle
    <3>1. d.pc = None => o = Idle
      BY <2>3, <2>6 DEF Sound
    <3>2. d.pc = None => b = FALSE
      BY <2>1, <2>2, <2>6, Basics DEF At, Points
    <3>3. o = Idle => o.stale = FALSE
      BY DEF Idle
    <3>4. [o EXCEPT !.stale = o.stale] = o
      BY <2>3 DEF RequestDoc
    <3>5. d.pc = None => b = o.stale
      BY <3>1, <3>2, <3>3
    <3> QED
      BY <2>2, <3>1, <3>4, <3>5
  <2>10. d.pc # None /\ d.op # "file" =>
           d.sos \in Ids /\ Exists(d.sos)' /\ d.sos # c /\ ticket'[d.sos] = ticket[d.sos]
    BY <1>3, <1>6, <1>9, <2>3, <2>6 DEF Sound
  <2>11. Continuing(d) => d.pc # None /\ d.op # "file"
    BY <2>9, Basics DEF Continuing, Idle, Ops
  <2>12. Continuing(d) <=> Continuing(o)
    BY <2>6 DEF Continuing
  <2>13. Continuing(d) /\ (Filing(d) \/ d.pc = "unclaim") =>
           d.child # None /\ ticket[d.sos].next = d.child
    BY <2>3, <2>6, <2>12 DEF Sound, Filing
  <2>14. ASSUME d.pc = "create", Continuing(d), NEW x \in Ids
         PROVE  ~OpenChild(x, d.sos)'
    <3>1. d.sos \in Ids /\ ~OpenChild(x, d.sos)
      BY <2>3, <2>6, <2>10, <2>11, <2>12, <2>14 DEF Sound
    <3>2. CASE x # c
      BY <1>9, <3>1, <3>2
    <3>3. CASE x = c
      <4>1. SUFFICES ASSUME doc.kind = "SOS", doc.parent = d.sos PROVE FALSE
        BY <1>6, <3>3 DEF OpenChild
      <4>2. Continuing(q) /\ q.sos = d.sos
        BY <1>4, <4>1
      <4>3. ticket[q.sos].next = c
        BY <1>2, <4>2 DEF Sound, Filing
      <4> QED
        BY <2>7, <2>13, <2>14, <4>2, <4>3 DEF Filing
    <3> QED
      BY <3>2, <3>3
  <2>15. Sound(d)'
    <3>1. /\ d.op = "file" => Filing(d)
          /\ d.pc \in {"availability", "offer", "decline", "expire", "continue", "claim"} => d.child = None
          /\ d.pc \in {"availability", "decline", "expire", "continue", "claim"} =>
               d.op \in {"unfixable", "respond", "expire", "grace", "ask"}
          /\ d.pc \in {"offer", "decline", "expire", "assign", "accepted"} => d.offer \in OfferDoc
          /\ d.pc = "unclaim" => Continuing(d)
          /\ Filing(d) => d.kind # None
          /\ d.kind = "SOS" => Continuing(d)
      BY <2>3, <2>6, <2>12 DEF Sound, Filing
    <3>2. /\ d.pc = "check" /\ ~Continuing(d) => d.child = None
          /\ d.pc \in {"create", "assign"} => d.child # None
          /\ Filing(d) /\ d.child # None => ~Exists(d.child)'
          /\ ~Filing(d) /\ d.pc # "unclaim" /\ d.child # None => Exists(d.child)'
          /\ d.kind = "TOW" /\ d.op = "respond" => d.offer \in OfferDoc
      BY <2>3, <2>6, <2>8, <2>12 DEF Sound, Filing
    <3> QED
      BY <2>6, <2>9, <2>10, <2>11, <2>13, <2>14, <3>1, <3>2 DEF Sound
  <2> QED
    BY <2>2, <2>4, <2>5, <2>6, <2>15
<1>12. req'[r] = e
  BY <1>5
<1>13. req' \in [Requests -> RequestDoc]
  <2>1. \A u \in Requests : req'[u] \in RequestDoc
    BY <1>10, <1>11, <1>12
  <2> QED
    BY <1>5, <2>1
<1>14. TypeOK'
  BY <1>5, <1>6, <1>7, <1>8, <1>13 DEF IInv, TypeOK
<1>15. TicketInv'
  BY <1>3, <1>4, <1>6, <1>9 DEF IInv, TicketInv
<1>16. RequestInv'
  BY <1>10, <1>11, <1>12 DEF RequestInv
<1>17. IdsApart'
  <2>1. \A u \in Requests : u # r => req[u].child # c
    BY <1>1, <1>3 DEF IInv, IdsApart
  <2>2. \A u, v \in Requests : u # v /\ req'[u].child # None => req'[u].child # req'[v].child
    BY <1>10, <1>11, <1>12, <2>1 DEF IInv, IdsApart
  <2>3. \A t, p \in Ids : t # p /\ ticket'[t].next # None => ticket'[t].next # ticket'[p].next
    BY <1>4, <1>6 DEF IInv, IdsApart
  <2> QED
    BY <2>2, <2>3 DEF IdsApart
<1>18. Single'
  <2>1. overlap' \/ \A t, p \in Ids : Open(t)' /\ Open(p)' => t = p
    BY <1>2, <1>7, <1>9 DEF Sound
  <2>2. ASSUME NEW t \in Ids, NEW x \in Ids, OpenChild(c, t)', OpenChild(x, t)', x # c
        PROVE  FALSE
    <3>1. doc.kind = "SOS" /\ doc.parent = t
      BY <1>6, <2>2 DEF OpenChild
    <3>2. Continuing(q) /\ q.sos = t
      BY <1>4, <3>1
    <3> QED
      BY <1>2, <1>9, <2>2, <3>2 DEF Sound
  <2>3. \A t, x, y \in Ids : OpenChild(x, t)' /\ OpenChild(y, t)' => x = y
    BY <1>3, <1>9, <2>2 DEF IInv, Single
  <2> QED
    BY <2>1, <2>3 DEF Single
<1>19. ClaimsKept'
  <2> SUFFICES ASSUME NEW p \in Ids, ticket'[p].next # None, ~Exists(ticket[p].next)',
                      ~(faults' > 0)
               PROVE  \E u \in Requests : req'[u].child = ticket'[p].next
    BY DEF ClaimsKept
  <2>1. PICK n : n = ticket[p].next
    OBVIOUS
  <2>2. ticket'[p].next = n /\ p # c
    BY <1>4, <1>6, <2>1
  <2>3. n \in Ids /\ n # None /\ n # c /\ ~Exists(n)
    BY <1>9, <2>1, <2>2, Reads DEF TicketDoc, OrNone
  <2>4. ~(faults > 0)
    BY <1>5 DEF IInv, TypeOK
  <2>5. PICK u \in Requests : req[u].child = n
    BY <2>1, <2>3, <2>4 DEF IInv, ClaimsKept
  <2>6. u # r
    BY <1>1, <2>3, <2>5
  <2> QED
    BY <1>11, <2>2, <2>5, <2>6
<1> QED
  BY <1>14, <1>15, <1>16, <1>17, <1>18, <1>19 DEF IInv

-----------------------------------------------------------------------------
LEMMA NextIInv ==
  ASSUME IInv, [Next]_vars
  PROVE  IInv'
<1>1. CASE UNCHANGED vars
  BY <1>1, TendsNothing, NobodyMoves DEF vars, Frame, IInv, TypeOK
<1>2. ASSUME NEW t \in Ids, Visit(t) \/ EndTow(t) \/ OfferLapses(t) \/ GraceEnds(t)
      PROVE  IInv'
  BY <1>2, VisitStep, LapseStep, NobodyMoves
<1>3. ASSUME NEW r \in Callers, File(r)
      PROVE  IInv'
  BY <1>3, FileStep DEF Requests
<1>4. ASSUME NEW r \in Callers, NEW t \in Ids,
             MarkUnfixable(r, t) \/ OfferRead(r, t) \/ RespondRead(r, t) \/ AskToContinue(r, t)
      PROVE  IInv'
  BY <1>4, BeginStep DEF Requests
<1>5. ASSUME NEW r \in Requests, NEW t \in Ids, ExpireRead(r, t) \/ ContinueUnfixRead(r, t)
      PROVE  IInv'
  BY <1>5, BeginStep
<1>6. ASSUME NEW r \in Requests, Continue(r)
      PROVE  IInv'
  BY <1>6, ToldStep, ClaimStep, UnclaimStep, CheckStep, CreateStep DEF Continue
<1>7. ASSUME NEW r \in Requests, Abort(r)
      PROVE  IInv'
  BY <1>7, AbortStep
<1> QED
  BY <1>1, <1>2, <1>3, <1>4, <1>5, <1>6, <1>7 DEF Next

LEMMA Invariance == Spec => []IInv
<1>1. Init => IInv
  BY InitIInv
<1>2. IInv /\ [Next]_vars => IInv'
  BY NextIInv
<1> QED
  BY <1>1, <1>2, PTL DEF Spec

\* Tickets, handlers and histories keep their shape: no ticket is half filed.
THEOREM Typing == Spec => []TypeOK
<1>1. IInv => TypeOK
  BY DEF IInv
<1> QED
  BY <1>1, Invariance, PTL

\* A set with no two members has no more than one.
LEMMA AtMostOne ==
  ASSUME NEW S \in SUBSET Ids, \A x, y \in S : x = y
  PROVE  Cardinality(S) <= 1
<1>1. CASE S = {}
  BY <1>1, FS_EmptySet
<1>2. CASE S # {}
  <2>1. PICK x : S = {x}
    BY <1>2
  <2> QED
    BY <2>1, FS_Singleton
<1> QED
  BY <1>1, <1>2

LEMMA IInvOneSearch == IInv => OneSearch
<1> SUFFICES ASSUME IInv PROVE OneSearch
  OBVIOUS
<1>1. OneOpenTicket
  <2>1. CASE overlap
    BY <2>1 DEF OneOpenTicket
  <2>2. CASE ~overlap
    <3>1. \A x, y \in {t \in Ids : Open(t)} : x = y
      BY <2>2 DEF IInv, Single
    <3> QED
      BY <3>1, AtMostOne DEF OneOpenTicket
  <2> QED
    BY <2>1, <2>2
<1>2. ASSUME NEW t \in Ids
      PROVE  Cardinality({c \in Ids : ticket[c].kind = "SOS" /\ ticket[c].parent = t /\ Open(c)}) <= 1
  <2>1. PICK S : S = {c \in Ids : ticket[c].kind = "SOS" /\ ticket[c].parent = t /\ Open(c)}
    OBVIOUS
  <2>2. \A x, y \in S : x = y
    BY <2>1 DEF IInv, Single, OpenChild
  <2>3. Cardinality(S) <= 1
    BY <2>1, <2>2, AtMostOne
  <2> QED
    BY <2>1, <2>3
<1>3. ContinuedOnce
  BY <1>2 DEF ContinuedOnce, IInv, ClaimsKept
<1> QED
  BY <1>1, <1>3 DEF OneSearch

\* However the offered tow, the expiries, the sweep and the rider's own calls
\* interleave and wherever one dies: a rider's vehicle has one open ticket,
\* unless two filings looked before either had filed, a SOS has one open
\* continuation, and a claimed continuation is there or its handler still at
\* it, unless one died (continueSos, createDispatch).
THEOREM SearchedOnce == Spec => []OneSearch
  BY Invariance, IInvOneSearch, PTL

-----------------------------------------------------------------------------
(* No shop comes twice.                                                    *)

\* The shops that came to a ticket, or to one it continues, are remembered:
\* they are excluded, or the last of them is there now.
Came(t) == Range(visits[t].own) \cup visits[t].prior
Remembered(t) ==
  /\ ~Exists(t) => visits[t].own = <<>>
  /\ Came(t) \subseteq ticket[t].excluded \cup ({ticket[t].shop} \ {None})
  /\ ticket[t].status = "PENDING" => ticket[t].shop = None
Counted(t) ==
  /\ IsFiniteSet(Range(visits[t].own)) /\ Cardinality(Range(visits[t].own)) = Len(visits[t].own)
  /\ Range(visits[t].own) \cap visits[t].prior = {}
VisitInv == \A t \in Ids : Remembered(t) /\ Counted(t)

\* What leaves the shops that came alone.
Untouched(t) ==
  /\ visits'[t] = visits[t] /\ (Exists(t) => Exists(t)')
  /\ ticket'[t].shop = ticket[t].shop /\ ticket'[t].excluded = ticket[t].excluded
  /\ ticket'[t].status = "PENDING" => ticket[t].status = "PENDING"

LEMMA UntouchedKeeps ==
  ASSUME NEW t \in Ids, Remembered(t), Counted(t), Untouched(t)
  PROVE  Remembered(t)' /\ Counted(t)'
  BY DEF Remembered, Counted, Came, Untouched

LEMMA RangeAppend ==
  ASSUME NEW s \in Seq(Shops), NEW x \in Shops
  PROVE  Range(Append(s, x)) = Range(s) \cup {x} /\ Len(Append(s, x)) = Len(s) + 1
<1>1. DOMAIN s = 1..Len(s) /\ Len(s) \in Nat
  OBVIOUS
<1>2. /\ DOMAIN Append(s, x) = 1..(Len(s) + 1) /\ Append(s, x)[Len(s) + 1] = x
      /\ \A i \in 1..Len(s) : Append(s, x)[i] = s[i]
  OBVIOUS
<1> QED
  BY <1>1, <1>2 DEF Range

LEMMA NobodyCame == Range(<<>>) = {} /\ Len(<<>>) = 0
  BY DEF Range

LEMMA InitVisitInv == Init => VisitInv
<1> SUFFICES ASSUME Init, NEW t \in Ids PROVE Remembered(t) /\ Counted(t)
  BY DEF VisitInv
<1>1. visits[t].own = <<>> /\ visits[t].prior = {}
  BY DEF Init
<1>2. ticket[t].shop = None
  BY NewDoc, Basics DEF Init, Unused, OrNone
<1> QED
  BY <1>1, <1>2, NobodyCame, FS_EmptySet DEF Remembered, Counted, Came

LEMMA AcceptRemembers ==
  ASSUME IInv, VisitInv, NEW t \in Ids, NEW s \in Shops, Accept(t, s)
  PROVE  Remembered(t)' /\ Counted(t)'
<1>1. PICK was, old : was = ticket[t] /\ old = visits[t]
  OBVIOUS
<1>2. was \in TicketDoc /\ old.own \in Seq(Shops) /\ old \in VisitsDoc
  BY <1>1, Reads DEF IInv, TypeOK, VisitsDoc
<1>3. was.status = "PENDING" /\ s \notin was.excluded /\ was.shop = None
  BY <1>1 DEF Accept, VisitInv, Remembered
<1>4. Range(old.own) \cup old.prior \subseteq was.excluded
  BY <1>1, <1>3 DEF VisitInv, Remembered, Came
<1>5. PICK new, doc : new = visits'[t] /\ doc = ticket'[t]
  OBVIOUS
<1>6. /\ new.own = Append(old.own, s) /\ new.prior = old.prior
      /\ doc.shop = s /\ doc.excluded = was.excluded /\ doc.status = "MATCHED" /\ doc.kind = was.kind
  BY <1>1, <1>2, <1>5 DEF Accept, IInv, TypeOK, TicketDoc, VisitsDoc
<1>7. Range(new.own) = Range(old.own) \cup {s} /\ Len(new.own) = Len(old.own) + 1
  BY <1>2, <1>6, RangeAppend
<1>8. s \notin Range(old.own) /\ s \notin old.prior
  BY <1>3, <1>4
<1>9. IsFiniteSet(Range(new.own)) /\ Cardinality(Range(new.own)) = Len(new.own)
  <2>1. IsFiniteSet(Range(old.own)) /\ Cardinality(Range(old.own)) = Len(old.own)
    BY <1>1 DEF VisitInv, Counted
  <2> QED
    BY <1>7, <1>8, <2>1, FS_AddElement
<1>10. Range(new.own) \cap new.prior = {}
  BY <1>1, <1>6, <1>7, <1>8 DEF VisitInv, Counted
<1>11. Exists(t)'
  BY <1>1, <1>5, <1>6 DEF Accept, Exists
<1>12. Range(new.own) \cup new.prior \subseteq doc.excluded \cup ({doc.shop} \ {None})
  BY <1>4, <1>6, <1>7, Basics
<1> QED
  BY <1>5, <1>6, <1>9, <1>10, <1>11, <1>12 DEF Remembered, Counted, Came

LEMMA DeclineRemembers ==
  ASSUME IInv, VisitInv, NEW t \in Ids, DeclineMobileFix(t)
  PROVE  Remembered(t)' /\ Counted(t)'
<1>1. PICK was, doc : was = ticket[t] /\ doc = ticket'[t]
  OBVIOUS
<1>2. doc.shop = None /\ doc.excluded = was.excluded \cup {was.shop} /\ doc.kind = was.kind
  BY <1>1, Reads DEF DeclineMobileFix, IInv, TypeOK, TicketDoc
<1>3. Exists(t)' /\ visits' = visits
  BY <1>1, <1>2, Basics DEF DeclineMobileFix, Exists, history
<1> QED
  BY <1>1, <1>2, <1>3 DEF VisitInv, Remembered, Counted, Came

LEMMA CreateRemembers ==
  ASSUME IInv, VisitInv, NEW r \in Requests, Create(r), NEW t \in Ids
  PROVE  Remembered(t)' /\ Counted(t)'
<1>1. PICK q, c, doc : q = req[r] /\ c = req[r].child /\ doc = Child(r)
  OBVIOUS
<1>2. q \in RequestDoc /\ Sound(q) /\ q.pc = "create" /\ c = q.child /\ At(r, "create")
  BY <1>1, Reads DEF Create, At
<1>3. c # None /\ ~Exists(c) /\ c \in Ids
  BY <1>2 DEF Sound, Filing, RequestDoc, OrNone
<1>4. ticket' = [ticket EXCEPT ![c] = doc]
  BY <1>1 DEF Create
<1>5. PICK prior : prior = IF Continues(r)
                           THEN visits[q.sos].prior \cup Range(visits[q.sos].own) ELSE {}
  OBVIOUS
<1>6. visits' = [visits EXCEPT ![c].prior = prior]
  BY <1>1, <1>5 DEF Create
<1>7. CASE t # c
  BY <1>4, <1>6, <1>7, UntouchedKeeps DEF Untouched, VisitInv, IInv, TypeOK, Exists
<1>8. CASE t = c
  <2>1. doc.shop = None /\ doc.status = "PENDING" /\ doc.kind # None /\ ticket'[c] = doc
    BY <1>1, <1>2, <1>3, <1>4, ChildDoc, Basics DEF IInv, TypeOK
  <2>2. visits'[c].own = <<>> /\ visits'[c].prior = prior
    BY <1>3, <1>6 DEF VisitInv, Remembered, IInv, TypeOK, VisitsDoc
  <2>3. prior \subseteq doc.excluded
    <3>1. CASE Continues(r)
      <4>1. Continuing(q)
        BY <1>1, <3>1 DEF Continues, Continuing
      <4>2. q.sos \in Ids
        BY <1>2, <4>1, Basics DEF Sound, Continuing, Filing, Points
      <4>3. PICK from, n, a, out :
              /\ from = ticket[q.sos] /\ n = New("SOS", q.sos) /\ a = from.attempt + 1
              /\ out = from.excluded \cup (IF Assigned(from) THEN {from.shop} ELSE {})
        OBVIOUS
      <4>4. n \in TicketDoc
        BY <4>2, <4>3, NewDoc DEF OrNone
      <4>5. doc = [n EXCEPT !.attempt = a, !.excluded = out]
        BY <1>1, <3>1, <4>3 DEF Child
      <4>6. doc.excluded = out
        BY <4>4, <4>5 DEF TicketDoc
      <4>7. prior \subseteq from.excluded \cup ({from.shop} \ {None})
        BY <1>5, <3>1, <4>2, <4>3 DEF VisitInv, Remembered, Came
      <4> QED
        BY <4>3, <4>6, <4>7 DEF Assigned
    <3>2. CASE ~Continues(r)
      BY <1>5, <3>2
    <3> QED
      BY <3>1, <3>2
  <2> QED
    BY <1>8, <2>1, <2>2, <2>3, NobodyCame, FS_EmptySet DEF Remembered, Counted, Came, Exists
<1> QED
  BY <1>7, <1>8

\* A write of a ticket's status, or of what it says of its search.
LEMMA StatusUntouched ==
  ASSUME IInv, NEW x \in Ids, NEW v, v # "PENDING", UNCHANGED visits,
         ticket' = [ticket EXCEPT ![x].status = v]
  PROVE  \A t \in Ids : Untouched(t)
  BY DEF Untouched, Exists, IInv, TypeOK, TicketDoc
LEMMA OfferUntouched ==
  ASSUME IInv, NEW x \in Ids, NEW v, UNCHANGED visits, ticket' = [ticket EXCEPT ![x].offer = v]
  PROVE  \A t \in Ids : Untouched(t)
  BY DEF Untouched, Exists, IInv, TypeOK, TicketDoc
LEMMA GraceUntouched ==
  ASSUME IInv, NEW x \in Ids, NEW v, UNCHANGED visits, ticket' = [ticket EXCEPT ![x].grace = v]
  PROVE  \A t \in Ids : Untouched(t)
  BY DEF Untouched, Exists, IInv, TypeOK, TicketDoc
LEMMA NextUntouched ==
  ASSUME IInv, NEW x \in Ids, NEW v, UNCHANGED visits, ticket' = [ticket EXCEPT ![x].next = v]
  PROVE  \A t \in Ids : Untouched(t)
  BY DEF Untouched, Exists, IInv, TypeOK, TicketDoc
LEMMA NothingUntouched ==
  ASSUME UNCHANGED <<ticket, visits>>
  PROVE  \A t \in Ids : Untouched(t)
  BY DEF Untouched, Exists

LEMMA VisitUntouched ==
  ASSUME IInv, NEW x \in Ids,
         \/ Arrive(x) \/ SetMobileShopFix(x) \/ ApproveMobileFix(x) \/ Resolve(x)
         \/ \E by \in {"rider", "shop"} : Cancel(x, by)
         \/ EndTow(x) \/ OfferLapses(x) \/ GraceEnds(x)
  PROVE  \A t \in Ids : Untouched(t)
<1>1. UNCHANGED visits
  BY DEF Arrive, SetMobileShopFix, ApproveMobileFix, Resolve, Move, Cancel, EndTow, OfferLapses,
         GraceEnds, history
<1>2. CASE Arrive(x) \/ ApproveMobileFix(x) \/ Resolve(x) \/ EndTow(x)
  BY <1>1, <1>2, StatusUntouched DEF Arrive, ApproveMobileFix, Resolve, Move, EndTow
<1>3. CASE SetMobileShopFix(x)
  <2>1. PICK fix \in Fix : ticket' = [ticket EXCEPT ![x].status = "QUOTED", ![x].fix = fix]
    BY <1>3 DEF SetMobileShopFix
  <2>2. PICK doc : doc = [ticket[x] EXCEPT !.status = "QUOTED", !.fix = fix]
    OBVIOUS
  <2>3. ticket[x] \in TicketDoc
    BY DEF IInv, TypeOK
  <2>4. /\ doc.status = "QUOTED" /\ doc.kind = ticket[x].kind /\ doc.shop = ticket[x].shop
        /\ doc.excluded = ticket[x].excluded
    BY <2>2, <2>3 DEF TicketDoc
  <2>5. ticket' = [ticket EXCEPT ![x] = doc]
    BY <2>1, <2>2 DEF IInv, TypeOK
  <2> QED
    BY <1>1, <2>4, <2>5 DEF Untouched, Exists, IInv, TypeOK
<1>4. ASSUME NEW by \in {"rider", "shop"}, Cancel(x, by)
      PROVE  \A t \in Ids : Untouched(t)
  BY <1>1, <1>4 DEF Cancel, Untouched, Exists, IInv, TypeOK, TicketDoc
<1>5. CASE OfferLapses(x)
  <2>1. PICK v : v = [ticket[x].offer EXCEPT !.late = TRUE]
    OBVIOUS
  <2>2. ticket' = [ticket EXCEPT ![x].offer = v]
    BY <1>5, <2>1 DEF OfferLapses
  <2> QED
    BY <1>1, <2>2, OfferUntouched
<1>6. CASE GraceEnds(x)
  BY <1>1, <1>6, GraceUntouched DEF GraceEnds
<1> QED
  BY <1>2, <1>3, <1>4, <1>5, <1>6

LEMMA HandlerUntouched ==
  ASSUME IInv, NEW r \in Requests, Continue(r), ~Create(r)
  PROVE  \A t \in Ids : Untouched(t)
<1>1. UNCHANGED visits
  BY DEF Continue, Availability, OfferWrite, DeclineWrite, Assign, AcceptedWrite, ExpireWrite,
         ContinueRead, Claim, Check, Unclaim, ClearGrace, history
<1>2. PICK q, t : q = req[r] /\ t = req[r].sos
  OBVIOUS
<1>3. q \in RequestDoc /\ Sound(q) /\ t = q.sos
  BY <1>2, Reads
<1>4. CASE ContinueRead(r) \/ Check(r)
  BY <1>1, <1>4, NothingUntouched DEF ContinueRead, Check
<1>5. CASE \/ Availability(r) \/ OfferWrite(r) \/ DeclineWrite(r) \/ AcceptedWrite(r)
           \/ ExpireWrite(r) \/ Claim(r) \/ Unclaim(r) \/ ClearGrace(r)
  <2>1. q.pc \in {"availability", "offer", "decline", "accepted", "expire", "claim", "unclaim", "clear"}
    BY <1>2, <1>5 DEF Availability, OfferWrite, DeclineWrite, AcceptedWrite, ExpireWrite, Claim,
                      Unclaim, ClearGrace, At
  <2>2. t \in Ids
    BY <1>3, <2>1, Basics DEF Sound, Filing, Points
  <2>3. CASE OfferWrite(r) \/ DeclineWrite(r) \/ AcceptedWrite(r) \/ ExpireWrite(r)
    BY <1>1, <1>2, <2>2, <2>3, OfferUntouched DEF OfferWrite, DeclineWrite, AcceptedWrite, ExpireWrite
  <2>4. CASE Availability(r) \/ ClearGrace(r)
    BY <1>1, <1>2, <2>2, <2>4, GraceUntouched, NothingUntouched DEF Availability, ClearGrace
  <2>5. CASE Claim(r) \/ Unclaim(r)
    BY <1>1, <1>2, <2>2, <2>5, NextUntouched, NothingUntouched DEF Claim, Unclaim
  <2> QED
    BY <1>5, <2>3, <2>4, <2>5
<1>6. CASE Assign(r)
  <2>1. q.child \in Ids
    BY <1>2, <1>3, <1>6 DEF Assign, At, Sound, RequestDoc, OrNone
  <2> QED
    BY <1>1, <1>2, <1>6, <2>1, StatusUntouched, NothingUntouched DEF Assign
<1> QED
  BY <1>4, <1>5, <1>6 DEF Continue

LEMMA BeginUntouched ==
  ASSUME IInv, NEW r \in Requests,
         \/ File(r) \/ Abort(r)
         \/ \E x \in Ids : \/ MarkUnfixable(r, x) \/ OfferRead(r, x) \/ RespondRead(r, x)
                          \/ AskToContinue(r, x) \/ ExpireRead(r, x) \/ ContinueUnfixRead(r, x)
  PROVE  \A t \in Ids : Untouched(t)
<1>1. ASSUME NEW x \in Ids, MarkUnfixable(r, x)
      PROVE  \A t \in Ids : Untouched(t)
  BY <1>1, StatusUntouched DEF MarkUnfixable, history
<1>2. ASSUME NEW x \in Ids, \/ OfferRead(r, x) \/ RespondRead(r, x) \/ AskToContinue(r, x)
                            \/ ExpireRead(r, x) \/ ContinueUnfixRead(r, x)
      PROVE  UNCHANGED <<ticket, visits>>
  BY <1>2 DEF OfferRead, RespondRead, AskToContinue, ExpireRead, ContinueUnfixRead, history
<1>3. File(r) \/ Abort(r) => UNCHANGED <<ticket, visits>>
  BY DEF File, Abort, history
<1> QED
  BY <1>1, <1>2, <1>3, NothingUntouched

LEMMA NextVisitInv ==
  ASSUME IInv, VisitInv, [Next]_vars
  PROVE  VisitInv'
<1> SUFFICES ASSUME NEW t \in Ids PROVE Remembered(t)' /\ Counted(t)'
  BY DEF VisitInv
<1>1. Remembered(t) /\ Counted(t)
  BY DEF VisitInv
<1>2. CASE UNCHANGED vars
  BY <1>1, <1>2, NothingUntouched, UntouchedKeeps DEF vars
<1>3. ASSUME NEW x \in Ids, NEW s \in Shops, Accept(x, s)
      PROVE  Remembered(t)' /\ Counted(t)'
  <2>1. CASE t # x
    BY <1>1, <1>3, <2>1, UntouchedKeeps DEF Accept, Untouched, Exists, IInv, TypeOK
  <2> QED
    BY <1>3, <2>1, AcceptRemembers
<1>4. ASSUME NEW x \in Ids, DeclineMobileFix(x)
      PROVE  Remembered(t)' /\ Counted(t)'
  <2>1. CASE t # x
    BY <1>1, <1>4, <2>1, UntouchedKeeps DEF DeclineMobileFix, history, Untouched, Exists, IInv, TypeOK
  <2> QED
    BY <1>4, <2>1, DeclineRemembers
<1>5. ASSUME NEW x \in Ids,
             \/ Arrive(x) \/ SetMobileShopFix(x) \/ ApproveMobileFix(x) \/ Resolve(x)
             \/ \E by \in {"rider", "shop"} : Cancel(x, by)
             \/ EndTow(x) \/ OfferLapses(x) \/ GraceEnds(x)
      PROVE  Remembered(t)' /\ Counted(t)'
  <2>1. Untouched(t)
    BY <1>5, VisitUntouched
  <2> QED
    BY <1>1, <2>1, UntouchedKeeps
<1>6. ASSUME NEW r \in Requests,
             \/ File(r) \/ Abort(r)
             \/ \E x \in Ids : \/ MarkUnfixable(r, x) \/ OfferRead(r, x) \/ RespondRead(r, x)
                              \/ AskToContinue(r, x) \/ ExpireRead(r, x) \/ ContinueUnfixRead(r, x)
      PROVE  Remembered(t)' /\ Counted(t)'
  <2>1. Untouched(t)
    BY <1>6, BeginUntouched
  <2> QED
    BY <1>1, <2>1, UntouchedKeeps
<1>7. ASSUME NEW r \in Requests, Continue(r)
      PROVE  Remembered(t)' /\ Counted(t)'
  <2>1. CASE Create(r)
    BY <2>1, CreateRemembers
  <2>2. CASE ~Create(r)
    <3>1. Untouched(t)
      BY <1>7, <2>2, HandlerUntouched
    <3> QED
      BY <1>1, <3>1, UntouchedKeeps
  <2> QED
    BY <2>1, <2>2
<1> QED
  BY <1>2, <1>3, <1>4, <1>5, <1>6, <1>7 DEF Next, Visit, Requests

\* Neither a shop whose quote was declined nor one that could not repair comes
\* to the ticket again, or to any ticket that continues it, however far the
\* continuations go and whichever handlers die (acceptAsShop, declineMobileFix,
\* excludedShops).
THEOREM ShopsComeOnce == Spec => []NoShopTwice
<1>1. Init => VisitInv
  BY InitVisitInv
<1>2. IInv /\ VisitInv /\ [Next]_vars => VisitInv'
  BY NextVisitInv
<1>3. VisitInv => NoShopTwice
  BY DEF VisitInv, Counted, NoShopTwice
<1> QED
  BY <1>1, <1>2, <1>3, Invariance, PTL DEF Spec
=============================================================================
