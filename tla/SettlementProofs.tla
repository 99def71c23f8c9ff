-------------------------- MODULE SettlementProofs --------------------------
(* Theorems about Settlement, for any charges, amounts and numbers of slots. *)
EXTENDS Settlement, FiniteSetTheorems, SequenceTheorems, WellFoundedInduction, TLAPS

RefundStatuses == OpenRefunds \union {"REJECTED", "CONFIRMED", "FAILED"}
AskStatuses == {"PENDING", "PAID", "REJECTED"}

PayDoc == [status : ReceivedStatuses \union {"NONE", "REFUNDED"},
           refunded : Nat, at : Nat, batch : Nat]
RowDoc == [status : {"NONE", "OWED", "SETTLED"}, settled : Nat, reversed : Nat]
RefundDoc == {d \in [p : Payments, x : Nat \ {0}, status : RefundStatuses] : d.x <= Amount[d.p]}
PayoutDoc == [net : Nat, deducted : Nat, ask : Nat]
AskDoc == [status : AskStatuses, batch : Nat]

PlanDoc == [settled : Nat, status : {"OWED", "SETTLED"}]
Plans == UNION {[S -> PlanDoc] : S \in SUBSET Cash}

Ops == {"none", "requestRefund", "decideRefund", "confirmRefund", "batch", "legacy",
        "direct", "ask", "approve", "reject"}
RefundPoints == {"refund", "refundWrite", "reverse", "reverseWrite"}
Points == RefundPoints \union
  {"idle", "findOpen", "createRefund", "writeRefund", "settle", "owed", "plan", "apply",
   "legacyWrite", "directWrite", "askNet", "askOwed", "askCreate", "writeAsk"}
RequestDoc == [op : Ops, pc : Points, i : Nat, p : Nat, x : Nat,
               put : RefundStatuses \union AskStatuses \union {"NONE"},
               items : SUBSET Payments, net : Nat, owed : Nat, plan : Plans]

Shape ==
  /\ pay \in [Payments -> PayDoc]
  /\ row \in [Cash -> RowDoc]
  /\ refunds \in Seq(RefundDoc) /\ Len(refunds) <= MaxRefunds
  /\ batches \in Seq(SUBSET Payments) /\ Len(batches) <= MaxBatches
  /\ payouts \in Seq(PayoutDoc) /\ Len(payouts) = Len(batches)
  /\ asks \in Seq(AskDoc) /\ Len(asks) <= MaxWithdrawals
  /\ req \in [Requests -> RequestDoc]

\* What a request in flight still knows to be true of what it read.
Sound(q) ==
  /\ q.pc \in RefundPoints \union {"findOpen", "createRefund"} =>
       q.p \in Payments /\ q.x \in 1..Amount[q.p]
  /\ q.pc = "refundWrite" => q.net \in 1..Amount[q.p]
  /\ q.pc \in RefundPoints \union {"writeRefund"} => q.put \in RefundStatuses
  /\ q.pc = "writeAsk" => q.put \in {"PAID", "REJECTED"}
  /\ q.pc = "legacyWrite" => q.p \in Payments
  /\ q.pc = "directWrite" => \A p \in DOMAIN q.plan : q.plan[p].status = "SETTLED"
  /\ q.pc \in {"owed", "plan", "apply"} => q.items # {}
  /\ q.pc \in {"plan", "apply"} => q.owed <= q.net
  /\ q.op = "approve" => q.i \in 1..Len(asks)
RequestInv == \A r \in Requests : Sound(req[r])

\* The deduction of a batch fits in its net; its withdrawal exists.
PayoutInv ==
  \A b \in 1..Len(payouts) :
    payouts[b].deducted <= payouts[b].net /\ payouts[b].ask \in 0..Len(asks)

\* No charge names a batch that was not written.
BatchInv == \A p \in Payments : pay[p].batch \in 0..Len(batches)

IInv == Shape /\ RequestInv /\ PayoutInv /\ BatchInv /\ StampNamesBatch /\ RefundWithinAmount

-----------------------------------------------------------------------------
(* Sums and the amounts computed from them are natural numbers.             *)

LEMMA DongIsFinite ==
  ASSUME NEW S, IsFiniteSet(S), NEW f, \A p \in S : f[p] \in Nat
  PROVE  IsFiniteSet(Dong(f, S)) /\ Total(f, S) \in Nat
<1> DEFINE g == [p \in S |-> f[p]]
           Pile(p) == {p} \X (1..f[p])
           T == {Pile(p) : p \in S}
           h == [p \in S |-> Pile(p)]
<1>1. h \in Surjection(S, T)
  BY DEF Surjection
<1>2. IsFiniteSet(T)
  BY <1>1, FS_Surjection
<1>3. \A D \in T : IsFiniteSet(D)
  <2> SUFFICES ASSUME NEW p \in S PROVE IsFiniteSet(Pile(p))
    OBVIOUS
  <2>1. IsFiniteSet({p})
    BY FS_Singleton
  <2>2. f[p] \in Int /\ 1 \in Int
    OBVIOUS
  <2>3. IsFiniteSet(1..f[p])
    BY <2>2, FS_Interval
  <2> QED
    BY <2>1, <2>3, FS_Product
<1>4. IsFiniteSet(UNION T)
  BY <1>2, <1>3, FS_UNION
<1>5. Dong(f, S) = UNION T
  BY DEF Dong
<1> QED
  BY <1>4, <1>5, FS_CardinalityType DEF Total

LEMMA TotalIsNat ==
  ASSUME NEW S, IsFiniteSet(S), NEW f \in [S -> Nat]
  PROVE  Total(f, S) \in Nat
  BY DongIsFinite

LEMMA LessIsNat == \A a, b \in Nat : Less(a, b) \in Nat /\ Less(a, b) <= a
  BY DEF Less

LEMMA LeastIsNat == \A a, b \in Nat : Least(a, b) \in Nat /\ Least(a, b) <= b
  BY DEF Least

LEMMA Subsets == \A S \in SUBSET Payments : IsFiniteSet(S)
  BY FS_Subset, SettlementAssumption

\* What the handlers read has the type they expect.
LEMMA Reads ==
  ASSUME Shape
  PROVE  /\ \A p \in Payments :
              /\ pay[p] \in PayDoc /\ Amount[p] \in Nat \ {0} /\ Commission[p] \in Nat
              /\ Net(p) \in Nat /\ Refundable(p) \in 0..Amount[p]
         /\ \A p \in Cash : p \in Payments /\ row[p] \in RowDoc /\ Open(p) \in Nat
         /\ Payments \subseteq Nat
         /\ Settleable \subseteq Payments /\ OwedRows \subseteq Cash
         /\ Owed \in Nat
         /\ \A S \in SUBSET Payments : NetOf(S) \in Nat
<1>1. \A p \in Payments : pay[p] \in PayDoc /\ Amount[p] \in Nat \ {0} /\ Commission[p] \in Nat
                             /\ Commission[p] <= Amount[p]
  BY SettlementAssumption DEF Shape
<1>2. ASSUME NEW p \in Payments PROVE Net(p) \in Nat /\ Refundable(p) \in 0..Amount[p]
  <2>1. pay[p].refunded \in Nat /\ Amount[p] \in Nat /\ Amount[p] - Commission[p] \in Nat
    BY <1>1 DEF PayDoc
  <2>2. Less(Amount[p] - Commission[p], pay[p].refunded) \in Nat
    BY <2>1, LessIsNat
  <2>3. Less(Amount[p], pay[p].refunded) \in Nat /\ Less(Amount[p], pay[p].refunded) <= Amount[p]
    BY <2>1, LessIsNat
  <2> QED
    BY <2>1, <2>2, <2>3 DEF Net, Refundable
<1>3. ASSUME NEW p \in Cash PROVE p \in Payments /\ row[p] \in RowDoc /\ Open(p) \in Nat
  <2>1. p \in Payments /\ row[p] \in RowDoc
    BY SettlementAssumption DEF Shape
  <2>2. row[p].settled + row[p].reversed \in Nat /\ Commission[p] \in Nat
    BY <1>1, <2>1 DEF RowDoc
  <2> QED
    BY <2>1, <2>2, LessIsNat DEF Open
<1>4. Owed \in Nat
  <2>1. IsFiniteSet(OwedRows)
    BY Subsets, SettlementAssumption DEF OwedRows
  <2>2. [p \in OwedRows |-> Open(p)] \in [OwedRows -> Nat]
    BY <1>3 DEF OwedRows
  <2> QED
    BY <2>1, <2>2, TotalIsNat DEF Owed
<1>5. ASSUME NEW S \in SUBSET Payments PROVE NetOf(S) \in Nat
  <2>1. IsFiniteSet(S)
    BY Subsets
  <2>2. [p \in S |-> Net(p)] \in [S -> Nat]
    BY <1>2
  <2> QED
    BY <2>1, <2>2, TotalIsNat DEF NetOf
<1>6. Payments \subseteq Nat /\ Settleable \subseteq Payments /\ OwedRows \subseteq Cash
  BY SettlementAssumption DEF Settleable, OwedRows
<1> QED
  BY <1>1, <1>2, <1>3, <1>4, <1>5, <1>6

\* What planSettlement is given, it turns into rows that can be written.
LEMMA PlanIsPlan ==
  ASSUME Shape, NEW amount \in Nat
  PROVE  Plan(amount) \in Plans
<1> DEFINE older(p) == Total([o \in OwedRows |-> Open(o)], {o \in OwedRows : o < p})
<1>1. ASSUME NEW p \in OwedRows PROVE Applied(p, amount) \in Nat
  <2>1. \A S \in SUBSET OwedRows : \A q \in S : Open(q) \in Nat
    BY Reads
  <2> DEFINE S == {o \in OwedRows : o < p}
  <2>2. older(p) \in Nat
    <3>1. IsFiniteSet(S)
      BY Subsets, SettlementAssumption DEF OwedRows
    <3>2. Dong([o \in OwedRows |-> Open(o)], S) = Dong([o \in S |-> Open(o)], S)
      BY DEF Dong
    <3>3. [o \in S |-> Open(o)] \in [S -> Nat]
      BY <2>1
    <3>4. Total([o \in S |-> Open(o)], S) \in Nat
      BY <3>1, <3>3, TotalIsNat
    <3> QED
      BY <3>2, <3>4 DEF Total
  <2>3. Open(p) \in Nat
    BY Reads
  <2> HIDE DEF older
  <2>4. Less(amount, older(p)) \in Nat
    BY <2>2, LessIsNat
  <2> QED
    BY <2>3, <2>4, LeastIsNat DEF Applied, older
<1> DEFINE S == {o \in OwedRows : Applied(o, amount) > 0}
<1>2. S \in SUBSET Cash
  BY DEF OwedRows
<1>3. ASSUME NEW p \in S PROVE row[p].settled + Applied(p, amount) \in Nat
  <2>1. row[p].settled \in Nat
    BY <1>2, Reads DEF RowDoc
  <2> QED
    BY <1>1, <2>1
<1>4. Plan(amount) \in [S -> PlanDoc]
  BY <1>3 DEF Plan, PlanDoc
<1> QED
  BY <1>2, <1>4 DEF Plans

LEMMA ShareIsNat ==
  ASSUME Shape, NEW p \in Cash, NEW x \in Nat
  PROVE  ReversedShare(p, x) \in Nat
<1>1. Amount[p] \in Nat \ {0} /\ Commission[p] \in Nat /\ Open(p) \in Nat
  BY Reads
<1>2. \A n \in Nat, d \in Nat \ {0} : n \div d \in Nat
  OBVIOUS
<1>3. 2 * Commission[p] * x + Amount[p] \in Nat /\ 2 * Amount[p] \in Nat \ {0}
  BY <1>1
<1>4. (2 * Commission[p] * x + Amount[p]) \div (2 * Amount[p]) \in Nat
  BY <1>2, <1>3
<1> QED
  BY <1>1, <1>4, LeastIsNat DEF ReversedShare, Least

LEMMA PlanShape ==
  ASSUME NEW plan \in Plans, NEW p \in DOMAIN plan
  PROVE  p \in Cash /\ plan[p] \in PlanDoc
  BY DEF Plans

-----------------------------------------------------------------------------
(* Requests that move.                                                      *)

LEMMA IdleIsRequest == Idle \in RequestDoc /\ Sound(Idle)
<1>1. NoPlan \in Plans
  BY DEF NoPlan, Plans
<1> QED
  BY <1>1 DEF Idle, RequestDoc, Sound, Ops, Points, RefundPoints

\* A request that moves to a sound record leaves every request sound, however
\* many withdrawals were filed meanwhile.
LEMMA GotoSound ==
  ASSUME Shape, RequestInv, NEW r \in Requests, NEW q \in RequestDoc, Sound(q), Goto(r, q),
         asks' \in Seq(AskDoc), Len(asks) <= Len(asks')
  PROVE  req' \in [Requests -> RequestDoc] /\ RequestInv'
<1>1. req' = [req EXCEPT ![r] = q] /\ req \in [Requests -> RequestDoc]
  BY DEF Goto, Shape
<1>2. Len(asks) \in Nat /\ Len(asks') \in Nat
  BY LenProperties DEF Shape
<1>3. 1..Len(asks) \subseteq 1..Len(asks')
  BY <1>2
<1>4. ASSUME NEW s \in Requests PROVE Sound(req[s])'
  BY <1>1, <1>3 DEF Sound, RequestInv
<1> QED
  BY <1>1, <1>4 DEF RequestInv

LEMMA FinishSound ==
  ASSUME Shape, RequestInv, NEW r \in Requests, Finish(r),
         asks' \in Seq(AskDoc), Len(asks) <= Len(asks')
  PROVE  req' \in [Requests -> RequestDoc] /\ RequestInv'
  BY GotoSound, IdleIsRequest DEF Finish

LEMMA SameAsks ==
  ASSUME Shape, UNCHANGED asks
  PROVE  asks' \in Seq(AskDoc) /\ Len(asks) <= Len(asks')
  BY LenProperties DEF Shape

LEMMA QuietKeeps ==
  ASSUME IInv, Quiet, req' \in [Requests -> RequestDoc], RequestInv'
  PROVE  IInv'
  BY DEF IInv, Shape, PayoutInv, BatchInv, StampNamesBatch, RefundWithinAmount, Quiet, None

\* A step that only moves a request to a sound record.
LEMMA QuietStep ==
  ASSUME IInv, NEW r \in Requests, NEW q \in RequestDoc, Sound(q), Goto(r, q), Quiet
  PROVE  IInv'
  BY GotoSound, SameAsks, QuietKeeps DEF IInv, Quiet

LEMMA QuietFinish ==
  ASSUME IInv, NEW r \in Requests, Finish(r), Quiet
  PROVE  IInv'
  BY QuietStep, IdleIsRequest DEF Finish

LEMMA InFlight ==
  ASSUME IInv, NEW r \in Requests
  PROVE  req[r] \in RequestDoc /\ Sound(req[r])
  BY DEF IInv, Shape, RequestInv

LEMMA InitIInv == Init => IInv
<1> SUFFICES ASSUME Init PROVE IInv
  OBVIOUS
<1>1. pay \in [Payments -> PayDoc] /\ row \in [Cash -> RowDoc]
  BY DEF Init, PayDoc, RowDoc, None
<1>2. req \in [Requests -> RequestDoc] /\ RequestInv
  BY IdleIsRequest DEF Init, RequestInv
<1>3. Shape
  <2>1. \A S : <<>> \in Seq(S)
    BY EmptySeq
  <2>2. Len(<<>>) = 0
    BY EmptySeq
  <2>3. MaxRefunds >= 0 /\ MaxBatches >= 0 /\ MaxWithdrawals >= 0
    BY SettlementAssumption
  <2> QED
    BY <1>1, <1>2, <2>1, <2>2, <2>3 DEF Init, Shape
<1>4. PayoutInv /\ BatchInv
  BY EmptySeq DEF Init, PayoutInv, BatchInv, None
<1>5. StampNamesBatch
  BY EmptySeq DEF Init, StampNamesBatch, None
<1>6. RefundWithinAmount
  BY SettlementAssumption DEF Init, RefundWithinAmount
<1> QED
  BY <1>2, <1>3, <1>4, <1>5, <1>6 DEF IInv

-----------------------------------------------------------------------------
(* Arriving requests only read.                                             *)

LEMMA RefundArrives ==
  ASSUME IInv, NEW r \in Requests,
         \/ \E p \in Payments : \E x \in 1..Amount[p] : RequestRefundRead(r, p, x)
         \/ \E i \in DOMAIN refunds : \E to \in {"APPROVED", "REJECTED", "SENT", "FAILED"} :
              DecideRefundRead(r, i, to)
         \/ \E i \in DOMAIN refunds : ConfirmRefundRead(r, i)
  PROVE  IInv'
<1>0. Idle \in RequestDoc /\ Sound(Idle) /\ Idle.op = "none"
  BY IdleIsRequest DEF Idle
<1>1. ASSUME NEW p \in Payments, NEW x \in 1..Amount[p], RequestRefundRead(r, p, x) PROVE IInv'
  <2> DEFINE q == [Begin("requestRefund", "findOpen") EXCEPT !.p = p, !.x = x]
  <2>1. x \in Nat /\ p \in Nat
    BY Reads DEF IInv
  <2>2. q \in RequestDoc /\ Sound(q)
    <3>1. q \in RequestDoc
      BY <1>0, <2>1 DEF Begin, RequestDoc, Ops, Points, RefundPoints
    <3>2. Sound(q)
      BY <1>0, <2>1 DEF Begin, RequestDoc, Sound, Ops, Points, RefundPoints
    <3> QED
      BY <3>1, <3>2
  <2> QED
    BY <1>1, <2>2, QuietStep DEF RequestRefundRead
<1>2. ASSUME NEW i \in DOMAIN refunds, NEW to \in {"APPROVED", "REJECTED", "SENT", "FAILED"},
             DecideRefundRead(r, i, to)
      PROVE  IInv'
  <2> DEFINE q == [Begin("decideRefund", "writeRefund") EXCEPT !.i = i, !.put = to]
  <2>1. i \in Nat
    BY LenProperties DEF IInv, Shape
  <2>2. q \in RequestDoc /\ Sound(q)
    <3>1. q \in RequestDoc
      BY <1>0, <2>1 DEF Begin, RequestDoc, Ops, Points, RefundPoints, RefundStatuses, OpenRefunds
    <3>2. Sound(q)
      BY <1>0, <2>1 DEF Begin, RequestDoc, Sound, Ops, Points, RefundPoints, RefundStatuses, OpenRefunds
    <3> QED
      BY <3>1, <3>2
  <2> QED
    BY <1>2, <2>2, QuietStep DEF DecideRefundRead
<1>3. ASSUME NEW i \in DOMAIN refunds, ConfirmRefundRead(r, i) PROVE IInv'
  <2> DEFINE q == [Begin("confirmRefund", "refund") EXCEPT
                     !.i = i, !.p = refunds[i].p, !.x = refunds[i].x, !.put = "CONFIRMED"]
  <2>1. i \in Nat /\ refunds[i] \in RefundDoc
    BY LenProperties, ElementOfSeq DEF IInv, Shape
  <2>2. refunds[i].p \in Payments /\ refunds[i].p \in Nat /\ refunds[i].x \in Nat
        /\ refunds[i].x \in 1..Amount[refunds[i].p]
    BY <2>1, Reads DEF RefundDoc, IInv
  <2>3. q \in RequestDoc /\ Sound(q)
    <3>1. q \in RequestDoc
      BY <1>0, <2>1, <2>2 DEF Begin, RequestDoc, Ops, Points, RefundPoints, RefundStatuses
    <3>2. Sound(q)
      BY <1>0, <2>1, <2>2 DEF Begin, RequestDoc, Sound, Ops, Points, RefundPoints, RefundStatuses
    <3> QED
      BY <3>1, <3>2
  <2> QED
    BY <1>3, <2>3, QuietStep DEF ConfirmRefundRead
<1> QED
  BY <1>1, <1>2, <1>3

LEMMA SettlementArrives ==
  ASSUME IInv, NEW r \in Requests,
         \/ \E S \in SUBSET Payments : SettleSome(r, S)
         \/ \E p \in Payments : LegacyRead(r, p)
         \/ SettleDirectRead(r)
  PROVE  IInv'
<1>0. Idle \in RequestDoc /\ Sound(Idle) /\ Idle.op = "none"
  BY IdleIsRequest DEF Idle
<1>1. ASSUME NEW S \in SUBSET Payments, SettleSome(r, S) PROVE IInv'
  <2> DEFINE q == [Begin("batch", "owed") EXCEPT !.items = S, !.net = NetOf(S)]
  <2>1. NetOf(S) \in Nat /\ S # {}
    BY <1>1, Reads DEF SettleSome, IInv
  <2>2. q \in RequestDoc /\ Sound(q)
    <3>1. q \in RequestDoc
      BY <1>0, <2>1 DEF Begin, RequestDoc, Ops, Points, RefundPoints
    <3>2. Sound(q)
      BY <1>0, <2>1 DEF Begin, RequestDoc, Sound, Ops, Points, RefundPoints
    <3> QED
      BY <3>1, <3>2
  <2> QED
    BY <1>1, <2>2, QuietStep DEF SettleSome
<1>2. ASSUME NEW p \in Payments, LegacyRead(r, p) PROVE IInv'
  <2> DEFINE q == [Begin("legacy", "legacyWrite") EXCEPT !.p = p]
  <2>1. p \in Nat
    BY Reads DEF IInv
  <2>2. q \in RequestDoc /\ Sound(q)
    <3>1. q \in RequestDoc
      BY <1>0, <2>1 DEF Begin, RequestDoc, Ops, Points, RefundPoints
    <3>2. Sound(q)
      BY <1>0, <2>1 DEF Begin, RequestDoc, Sound, Ops, Points, RefundPoints
    <3> QED
      BY <3>1, <3>2
  <2> QED
    BY <1>2, <2>2, QuietStep DEF LegacyRead
<1>3. ASSUME SettleDirectRead(r) PROVE IInv'
  <2> DEFINE open == {p \in OwedRows : Open(p) > 0}
             plan == [p \in open |-> [settled |-> row[p].settled + Open(p), status |-> "SETTLED"]]
             q == [Begin("direct", "directWrite") EXCEPT !.plan = plan]
  <2>1. open \in SUBSET Cash
    BY DEF OwedRows
  <2>2. \A p \in open : row[p].settled + Open(p) \in Nat
    BY <2>1, Reads DEF IInv, RowDoc
  <2>3. plan \in Plans /\ DOMAIN plan = open
    <3>1. plan \in [open -> PlanDoc]
      BY <2>2 DEF PlanDoc
    <3> QED
      BY <2>1, <3>1 DEF Plans
  <2>4. \A p \in DOMAIN plan : plan[p].status = "SETTLED"
    BY <2>3
  <2>5. Goto(r, q) /\ Quiet
    BY <1>3 DEF SettleDirectRead
  <2> HIDE DEF plan
  <2>6. q \in RequestDoc /\ Sound(q)
    <3>1. q \in RequestDoc
      BY <1>0, <2>3, <2>4 DEF Begin, RequestDoc, Ops, Points, RefundPoints
    <3>2. Sound(q)
      BY <1>0, <2>3, <2>4 DEF Begin, RequestDoc, Sound, Ops, Points, RefundPoints
    <3> QED
      BY <3>1, <3>2
  <2> QED
    BY <2>5, <2>6, QuietStep
<1> QED
  BY <1>1, <1>2, <1>3

LEMMA WithdrawalArrives ==
  ASSUME IInv, NEW r \in Requests,
         \/ AskCount(r)
         \/ \E i \in DOMAIN asks : \E approve \in BOOLEAN : DecideRead(r, i, approve)
  PROVE  IInv'
<1>0. Idle \in RequestDoc /\ Sound(Idle) /\ Idle.op = "none"
  BY IdleIsRequest DEF Idle
<1>1. ASSUME AskCount(r) PROVE IInv'
  <2> DEFINE q == Begin("ask", "askNet")
  <2>1. q \in RequestDoc /\ Sound(q)
    <3>1. q \in RequestDoc
      BY <1>0 DEF Begin, RequestDoc, Ops, Points, RefundPoints
    <3>2. Sound(q)
      BY <1>0 DEF Begin, RequestDoc, Sound, Ops, Points, RefundPoints
    <3> QED
      BY <3>1, <3>2
  <2> QED
    BY <1>1, <2>1, QuietStep DEF AskCount
<1>2. ASSUME NEW i \in DOMAIN asks, NEW approve \in BOOLEAN, DecideRead(r, i, approve)
      PROVE  IInv'
  <2> DEFINE a == [Begin("approve", "settle") EXCEPT !.i = i]
             d == [Begin("reject", "writeAsk") EXCEPT !.i = i, !.put = "REJECTED"]
  <2>1. i \in Nat /\ i \in 1..Len(asks)
    BY LenProperties DEF IInv, Shape
  <2>2. a \in RequestDoc /\ Sound(a)
    <3>1. a \in RequestDoc
      BY <1>0, <2>1 DEF Begin, RequestDoc, Ops, Points, RefundPoints
    <3>2. Sound(a)
      BY <1>0, <2>1 DEF Begin, RequestDoc, Sound, Ops, Points, RefundPoints
    <3> QED
      BY <3>1, <3>2
  <2>3. d \in RequestDoc /\ Sound(d)
    <3>1. d \in RequestDoc
      BY <1>0, <2>1 DEF Begin, RequestDoc, Ops, Points, RefundPoints, AskStatuses
    <3>2. Sound(d)
      BY <1>0, <2>1 DEF Begin, RequestDoc, Sound, Ops, Points, RefundPoints, AskStatuses
    <3> QED
      BY <3>1, <3>2
  <2>4. Quiet /\ (Goto(r, a) \/ Goto(r, d))
    BY <1>2 DEF DecideRead
  <2> QED
    BY <2>2, <2>3, <2>4, QuietStep
<1> QED
  BY <1>1, <1>2

-----------------------------------------------------------------------------
(* The steps of a request.                                                  *)

LEMMA ExceptInSeq ==
  ASSUME NEW S, NEW s \in Seq(S), NEW i \in Nat, NEW e, i \in 1..Len(s) => e \in S
  PROVE  [s EXCEPT ![i] = e] \in Seq(S) /\ Len([s EXCEPT ![i] = e]) = Len(s)
<1>1. CASE i \in 1..Len(s)
  BY <1>1, ExceptSeq
<1>2. CASE i \notin 1..Len(s)
  <2>1. [s EXCEPT ![i] = e] = s
    BY <1>2, LenProperties
  <2> QED
    BY <2>1
<1> QED
  BY <1>1, <1>2

\* A step that writes refund requests and no other document.
LEMMA RefundsKeep ==
  ASSUME IInv, UNCHANGED <<pay, row, batches, payouts, asks>>,
         refunds' \in Seq(RefundDoc), Len(refunds') <= MaxRefunds,
         req' \in [Requests -> RequestDoc], RequestInv'
  PROVE  IInv'
  BY DEF IInv, Shape, PayoutInv, BatchInv, StampNamesBatch, RefundWithinAmount

LEMMA RefundRequestStep ==
  ASSUME IInv, NEW r \in Requests, FindOpenRefund(r) \/ CreateRefund(r) \/ WriteRefund(r)
  PROVE  IInv'
<1>0. req[r] \in RequestDoc /\ Sound(req[r])
  BY InFlight
<1>r. refunds \in Seq(RefundDoc) /\ Len(refunds) <= MaxRefunds /\ Len(refunds) \in Nat
  BY LenProperties DEF IInv, Shape
<1>1. CASE FindOpenRefund(r)
  <2> DEFINE q == [req[r] EXCEPT !.pc = "createRefund"]
  <2>1. req[r].pc = "findOpen" /\ Quiet /\ (Finish(r) \/ Goto(r, q))
    BY <1>1 DEF FindOpenRefund, At
  <2>2. q \in RequestDoc /\ Sound(q)
    BY <1>0, <2>1 DEF RequestDoc, Sound, Points, RefundPoints
  <2> QED
    BY <2>1, <2>2, QuietStep, QuietFinish
<1>2. CASE CreateRefund(r)
  <2> DEFINE d == [p |-> req[r].p, x |-> req[r].x, status |-> "REQUESTED"]
  <2>1. req[r].p \in Payments /\ req[r].x \in 1..Amount[req[r].p]
    BY <1>0, <1>2 DEF CreateRefund, At, Sound
  <2>2. Amount[req[r].p] \in Nat
    BY <2>1, Reads DEF IInv
  <2>3. d \in RefundDoc
    BY <2>1, <2>2 DEF RefundDoc, RefundStatuses, OpenRefunds
  <2>4. refunds' = refunds \/ (Len(refunds) # MaxRefunds /\ refunds' = Append(refunds, d))
    BY <1>2 DEF CreateRefund
  <2> HIDE DEF d
  <2>5. refunds' \in Seq(RefundDoc) /\ Len(refunds') <= MaxRefunds
    <3>1. Append(refunds, d) \in Seq(RefundDoc) /\ Len(Append(refunds, d)) = Len(refunds) + 1
      BY <1>r, <2>3, AppendProperties
    <3> QED
      BY <1>r, <2>4, <3>1, SettlementAssumption
  <2>6. req' \in [Requests -> RequestDoc] /\ RequestInv'
    BY <1>2, FinishSound, SameAsks DEF CreateRefund, IInv
  <2> QED
    BY <1>2, <2>5, <2>6, RefundsKeep DEF CreateRefund
<1>3. CASE WriteRefund(r)
  <2> DEFINE i == req[r].i
             d == [refunds[i] EXCEPT !.status = req[r].put]
  <2>1. req[r].put \in RefundStatuses /\ i \in Nat
    BY <1>0, <1>3 DEF WriteRefund, At, Sound, RequestDoc
  <2>2. i \in 1..Len(refunds) => d \in RefundDoc
    <3> SUFFICES ASSUME i \in 1..Len(refunds) PROVE d \in RefundDoc
      OBVIOUS
    <3>1. refunds[i] \in RefundDoc
      BY <1>r, ElementOfSeq
    <3> QED
      BY <2>1, <3>1 DEF RefundDoc
  <2>3. refunds' = [refunds EXCEPT ![i] = d]
    BY <1>3 DEF WriteRefund
  <2> HIDE DEF d, i
  <2>4. refunds' \in Seq(RefundDoc) /\ Len(refunds') = Len(refunds)
    BY <1>r, <2>1, <2>2, <2>3, ExceptInSeq DEF i
  <2>5. req' \in [Requests -> RequestDoc] /\ RequestInv'
    BY <1>3, FinishSound, SameAsks DEF WriteRefund, IInv
  <2> QED
    BY <1>3, <1>r, <2>4, <2>5, RefundsKeep DEF WriteRefund
<1> QED
  BY <1>1, <1>2, <1>3

\* A step that writes one charge's refund fields or its legacy stamp.
LEMMA ChargeKeeps ==
  ASSUME IInv, UNCHANGED <<row, refunds, batches, payouts, asks>>,
         NEW p \in Payments, NEW d \in PayDoc, pay' = [pay EXCEPT ![p] = d],
         d.batch = pay[p].batch, d.refunded <= Amount[p],
         d.status = "REFUNDED" <=> d.refunded = Amount[p],
         req' \in [Requests -> RequestDoc], RequestInv'
  PROVE  IInv'
<1>1. pay' \in [Payments -> PayDoc]
  BY DEF IInv, Shape
<1>2. \A q \in Payments : pay'[q].batch = pay[q].batch
  BY DEF IInv, Shape
<1>3. BatchInv' /\ StampNamesBatch'
  BY <1>2 DEF IInv, BatchInv, StampNamesBatch
<1>4. RefundWithinAmount'
  BY DEF IInv, Shape, RefundWithinAmount
<1> QED
  BY <1>1, <1>3, <1>4 DEF IInv, Shape, PayoutInv

\* A step that writes one ledger row.
LEMMA RowKeeps ==
  ASSUME IInv, UNCHANGED <<pay, refunds, batches, payouts, asks>>,
         row' \in [Cash -> RowDoc],
         req' \in [Requests -> RequestDoc], RequestInv'
  PROVE  IInv'
  BY DEF IInv, Shape, PayoutInv, BatchInv, StampNamesBatch, RefundWithinAmount

LEMMA ConfirmRefundStep ==
  ASSUME IInv, NEW r \in Requests,
         RefundRead(r) \/ RefundWrite(r) \/ ReverseRead(r) \/ ReverseWrite(r)
  PROVE  IInv'
<1>0. req[r] \in RequestDoc /\ Sound(req[r])
  BY InFlight
<1> DEFINE p == req[r].p
<1>p. p \in Payments /\ req[r].x \in 1..Amount[p] /\ req[r].put \in RefundStatuses
      /\ pay[p] \in PayDoc /\ Amount[p] \in Nat \ {0} /\ Refundable(p) \in 0..Amount[p]
  <2>1. req[r].pc \in RefundPoints
    BY DEF RefundRead, RefundWrite, ReverseRead, ReverseWrite, At, RefundPoints
  <2>2. p \in Payments /\ req[r].x \in 1..Amount[p] /\ req[r].put \in RefundStatuses
    BY <1>0, <2>1 DEF Sound
  <2> QED
    BY <2>2, Reads DEF IInv
<1>1. CASE RefundRead(r)
  <2> DEFINE total == pay[p].refunded + req[r].x
             q == [req[r] EXCEPT !.pc = "refundWrite", !.net = total]
  <2>1. Quiet /\ (Finish(r) \/ (req[r].x <= Refundable(p) /\ Goto(r, q)))
    BY <1>1 DEF RefundRead
  <2>2. CASE req[r].x <= Refundable(p) /\ Goto(r, q)
    <3>1. pay[p].refunded \in Nat
      BY <1>p DEF PayDoc
    <3>2. total \in 1..Amount[p] /\ total \in Nat
      BY <1>p, <2>2, <3>1 DEF Refundable, Less
    <3> HIDE DEF total
    <3>3. q \in RequestDoc /\ Sound(q)
      BY <1>0, <1>p, <3>2 DEF RequestDoc, Sound, Points, RefundPoints
    <3> QED
      BY <2>1, <2>2, <3>3, QuietStep
  <2> QED
    BY <2>1, <2>2, QuietFinish
<1>2. CASE RefundWrite(r)
  <2> DEFINE st == IF req[r].net >= Amount[p] THEN "REFUNDED" ELSE "PARTIAL"
             d == [pay[p] EXCEPT !.refunded = req[r].net, !.status = st]
             q == [req[r] EXCEPT !.pc = "reverse", !.net = 0]
  <2>1. req[r].net \in 1..Amount[p]
    BY <1>0, <1>2 DEF RefundWrite, At, Sound
  <2>2. d \in PayDoc /\ d.batch = pay[p].batch /\ d.refunded = req[r].net
        /\ (d.status = "REFUNDED" <=> req[r].net >= Amount[p])
    <3>1. st \in {"REFUNDED", "PARTIAL"} /\ (st = "REFUNDED" <=> req[r].net >= Amount[p])
      OBVIOUS
    <3>2. req[r].net \in Nat
      BY <1>0 DEF RequestDoc
    <3> HIDE DEF st
    <3>3. d \in PayDoc /\ d.batch = pay[p].batch /\ d.refunded = req[r].net /\ d.status = st
      BY <1>p, <3>1, <3>2 DEF PayDoc, ReceivedStatuses
    <3> QED
      BY <3>1, <3>3
  <2>3. pay' = [pay EXCEPT ![p] = d]
    BY <1>2 DEF RefundWrite
  <2>4. q \in RequestDoc /\ Sound(q)
    BY <1>0, <1>2, <1>p DEF RefundWrite, At, RequestDoc, Sound, Points, RefundPoints
  <2>5. req' \in [Requests -> RequestDoc] /\ RequestInv'
    BY <1>2, <2>4, GotoSound, SameAsks DEF RefundWrite, IInv
  <2>6. d.refunded <= Amount[p] /\ (d.status = "REFUNDED" <=> d.refunded = Amount[p])
    BY <1>p, <2>1, <2>2
  <2> HIDE DEF d
  <2> QED
    BY <1>2, <1>p, <2>2, <2>3, <2>5, <2>6, ChargeKeeps DEF RefundWrite
<1>3. CASE ReverseRead(r)
  <2> DEFINE back == row[p].reversed + ReversedShare(p, req[r].x)
             q == [req[r] EXCEPT !.pc = "reverseWrite", !.owed = back]
             d == [req[r] EXCEPT !.pc = "writeRefund"]
  <2>1. Quiet /\ (Goto(r, d) \/ (p \in Cash /\ Goto(r, q))) /\ req[r].pc = "reverse"
    BY <1>3 DEF ReverseRead, At
  <2>2. d \in RequestDoc /\ Sound(d)
    BY <1>0, <1>p DEF RequestDoc, Sound, Points, RefundPoints
  <2>3. ASSUME p \in Cash PROVE q \in RequestDoc /\ Sound(q)
    <3>1. row[p].reversed \in Nat
      BY <2>3, Reads DEF IInv, RowDoc
    <3>2. ReversedShare(p, req[r].x) \in Nat
      BY <2>3, <1>p, ShareIsNat DEF IInv
    <3>3. back \in Nat
      BY <3>1, <3>2
    <3> HIDE DEF back
    <3> QED
      BY <1>0, <1>p, <3>3 DEF RequestDoc, Sound, Points, RefundPoints
  <2> HIDE DEF q, d
  <2> QED
    BY <2>1, <2>2, <2>3, QuietStep
<1>4. CASE ReverseWrite(r)
  <2> DEFINE q == [req[r] EXCEPT !.pc = "writeRefund", !.owed = 0]
  <2>1. req[r].owed \in Nat
    BY <1>0 DEF RequestDoc
  <2>2. row' \in [Cash -> RowDoc]
    BY <1>4, <2>1 DEF ReverseWrite, IInv, Shape, RowDoc
  <2>3. q \in RequestDoc /\ Sound(q)
    BY <1>0, <1>p, <1>4 DEF ReverseWrite, At, RequestDoc, Sound, Points, RefundPoints
  <2>4. req' \in [Requests -> RequestDoc] /\ RequestInv'
    BY <1>4, <2>3, GotoSound, SameAsks DEF ReverseWrite, IInv
  <2> QED
    BY <1>4, <2>2, <2>4, RowKeeps DEF ReverseWrite
<1> QED
  BY <1>1, <1>2, <1>3, <1>4

LEMMA SettleReadStep ==
  ASSUME IInv, NEW r \in Requests, SettleAll(r) \/ OwedRead(r) \/ PlanRead(r)
  PROVE  IInv'
<1>0. req[r] \in RequestDoc /\ Sound(req[r])
  BY InFlight
<1>1. CASE SettleAll(r)
  <2> DEFINE q == [req[r] EXCEPT !.pc = "owed", !.items = Settleable, !.net = NetOf(Settleable)]
  <2>1. Quiet /\ (Finish(r) \/ (Settleable # {} /\ Goto(r, q)))
    BY <1>1 DEF SettleAll
  <2>2. Settleable \in SUBSET Payments /\ NetOf(Settleable) \in Nat
    BY Reads DEF IInv
  <2>3. Settleable # {} => q \in RequestDoc /\ Sound(q)
    BY <1>0, <2>2 DEF RequestDoc, Sound, Points, RefundPoints
  <2> HIDE DEF q
  <2> QED
    BY <2>1, <2>3, QuietStep, QuietFinish
<1>2. CASE OwedRead(r)
  <2> DEFINE deducted == Least(Owed, req[r].net)
             q == [req[r] EXCEPT !.owed = deducted, !.pc = IF deducted > 0 THEN "plan" ELSE "apply"]
  <2>1. Quiet /\ Goto(r, q) /\ req[r].pc = "owed"
    BY <1>2 DEF OwedRead, At
  <2>2. deducted \in Nat /\ deducted <= req[r].net
    BY <1>0, Reads, LeastIsNat DEF IInv, RequestDoc
  <2> HIDE DEF deducted
  <2>3. q \in RequestDoc /\ Sound(q)
    BY <1>0, <2>1, <2>2 DEF RequestDoc, Sound, Points, RefundPoints
  <2> QED
    BY <2>1, <2>3, QuietStep
<1>3. CASE PlanRead(r)
  <2> DEFINE plan == Plan(req[r].owed)
             q == [req[r] EXCEPT !.pc = "apply", !.plan = plan]
  <2>1. Quiet /\ Goto(r, q) /\ req[r].pc = "plan"
    BY <1>3 DEF PlanRead, At
  <2>2. plan \in Plans
    BY <1>0, PlanIsPlan DEF IInv, RequestDoc
  <2> HIDE DEF plan
  <2>3. q \in RequestDoc /\ Sound(q)
    BY <1>0, <2>1, <2>2 DEF RequestDoc, Sound, Points, RefundPoints
  <2> QED
    BY <2>1, <2>3, QuietStep
<1> QED
  BY <1>1, <1>2, <1>3

LEMMA CloseStep ==
  ASSUME IInv, NEW r \in Requests, LegacyWrite(r) \/ SettleDirectWrite(r)
  PROVE  IInv'
<1>0. req[r] \in RequestDoc /\ Sound(req[r])
  BY InFlight
<1>1. CASE LegacyWrite(r)
  <2> DEFINE p == req[r].p
             d == IF pay[p].at = MaxStamps THEN pay[p] ELSE [pay[p] EXCEPT !.at = pay[p].at + 1]
  <2>1. p \in Payments
    BY <1>0, <1>1 DEF LegacyWrite, At, Sound
  <2>2. pay[p] \in PayDoc
    BY <2>1, Reads DEF IInv
  <2>3. d \in PayDoc /\ d.batch = pay[p].batch /\ d.refunded = pay[p].refunded
        /\ d.status = pay[p].status
    BY <2>2 DEF PayDoc
  <2>4. pay' = [pay EXCEPT ![p] = d]
    <3>1. pay' = IF pay[p].at = MaxStamps THEN pay ELSE [pay EXCEPT ![p].at = pay[p].at + 1]
      BY <1>1 DEF LegacyWrite
    <3> HIDE DEF p
    <3> QED
      BY <2>1, <3>1 DEF IInv, Shape
  <2>5. pay[p].refunded <= Amount[p] /\ (pay[p].status = "REFUNDED" <=> pay[p].refunded = Amount[p])
    BY <2>1 DEF IInv, RefundWithinAmount
  <2>6. req' \in [Requests -> RequestDoc] /\ RequestInv'
    BY <1>1, FinishSound, SameAsks DEF LegacyWrite, IInv
  <2> HIDE DEF d, p
  <2> QED
    BY <1>1, <2>1, <2>3, <2>4, <2>5, <2>6, ChargeKeeps DEF LegacyWrite
<1>2. CASE SettleDirectWrite(r)
  <2> DEFINE plan == req[r].plan
  <2>1. plan \in Plans /\ \A o \in DOMAIN plan : plan[o].status = "SETTLED"
    BY <1>0, <1>2 DEF SettleDirectWrite, At, Sound, RequestDoc
  <2>2. PICK p \in DOMAIN plan :
          /\ row' = [row EXCEPT ![p].settled = plan[p].settled, ![p].status = plan[p].status]
          /\ IF DOMAIN plan \ {p} = {} THEN Finish(r)
             ELSE Goto(r, [req[r] EXCEPT !.plan = [o \in DOMAIN plan \ {p} |-> plan[o]]])
    BY <1>2 DEF SettleDirectWrite
  <2> DEFINE left == DOMAIN plan \ {p}
             rest == [o \in left |-> plan[o]]
             q == [req[r] EXCEPT !.plan = rest]
  <2>3. \A o \in DOMAIN plan : o \in Cash /\ plan[o] \in PlanDoc
    BY <2>1, PlanShape
  <2>4. row' \in [Cash -> RowDoc]
    <3>1. plan[p].settled \in Nat /\ plan[p].status \in {"OWED", "SETTLED"}
      BY <2>3 DEF PlanDoc
    <3> HIDE DEF plan
    <3> QED
      BY <2>2, <3>1 DEF IInv, Shape, RowDoc
  <2>5. rest \in Plans /\ DOMAIN rest = left
    <3>1. left \in SUBSET Cash /\ rest \in [left -> PlanDoc]
      BY <2>3
    <3> QED
      BY <3>1 DEF Plans
  <2>6. \A o \in DOMAIN rest : rest[o].status = "SETTLED"
    BY <2>1, <2>5
  <2>7. Finish(r) \/ Goto(r, q)
    BY <2>2
  <2>8. req[r].pc = "directWrite" /\ UNCHANGED <<pay, refunds, batches, payouts, asks>>
    BY <1>2 DEF SettleDirectWrite, At
  <2> HIDE DEF rest
  <2>9. q \in RequestDoc /\ Sound(q)
    BY <1>0, <2>5, <2>6, <2>8 DEF RequestDoc, Sound, RefundPoints
  <2>10. req' \in [Requests -> RequestDoc] /\ RequestInv'
    BY <2>7, <2>8, <2>9, GotoSound, FinishSound, SameAsks DEF IInv
  <2> QED
    BY <2>4, <2>8, <2>10, RowKeeps
<1> QED
  BY <1>1, <1>2

\* What a settlement transaction that goes through writes.
Settles(r) ==
  /\ At(r, "apply") /\ Applicable(r) /\ Len(batches) < MaxBatches
  /\ batches' = Append(batches, req[r].items)
  /\ payouts' = Append(payouts, [net |-> req[r].net, deducted |-> req[r].owed,
                                 ask |-> IF req[r].op = "approve" THEN req[r].i ELSE 0])
  /\ pay' = Stamp(req[r].items, Len(batches) + 1)
  /\ row' = [p \in Cash |-> IF p \in DOMAIN req[r].plan
               THEN [row[p] EXCEPT !.settled = req[r].plan[p].settled,
                                   !.status = req[r].plan[p].status]
               ELSE row[p]]
  /\ UNCHANGED <<refunds, asks>>

LEMMA SettlesKeeps ==
  ASSUME IInv, NEW r \in Requests, Settles(r), req' \in [Requests -> RequestDoc], RequestInv'
  PROVE  IInv'
<1> DEFINE items == req[r].items
           n == Len(batches) + 1
           ask == IF req[r].op = "approve" THEN req[r].i ELSE 0
           d == [net |-> req[r].net, deducted |-> req[r].owed, ask |-> ask]
<1>0. req[r] \in RequestDoc /\ Sound(req[r]) /\ req[r].pc = "apply"
  BY InFlight DEF Settles, At
<1>1. items \in SUBSET Payments /\ req[r].owed <= req[r].net /\ req[r].owed \in Nat
      /\ req[r].net \in Nat /\ req[r].plan \in Plans /\ req[r].i \in Nat
  BY <1>0 DEF RequestDoc, Sound
<1>2. /\ batches \in Seq(SUBSET Payments) /\ payouts \in Seq(PayoutDoc) /\ asks \in Seq(AskDoc)
      /\ Len(batches) \in Nat /\ Len(asks) \in Nat /\ Len(payouts) = Len(batches)
      /\ DOMAIN batches = 1..Len(batches)
  BY LenProperties DEF IInv, Shape
<1>n. n \in Nat /\ n = Len(batches) + 1 /\ n <= MaxBatches
  <2>1. Len(batches) < MaxBatches /\ MaxBatches \in Nat
    BY SettlementAssumption DEF Settles
  <2> QED
    BY <1>2, <2>1
<1>3. /\ batches' \in Seq(SUBSET Payments) /\ Len(batches') = n /\ DOMAIN batches' = 1..n
      /\ \A b \in 1..n : batches'[b] = IF b = n THEN items ELSE batches[b]
  <2>1. batches' = Append(batches, items)
    BY DEF Settles
  <2>2. Append(batches, items) \in Seq(SUBSET Payments)
        /\ Len(Append(batches, items)) = n
        /\ \A b \in 1..n : Append(batches, items)[b] = IF b = n THEN items ELSE batches[b]
    BY <1>1, <1>2, AppendProperties
  <2> HIDE DEF n, items
  <2>3. DOMAIN Append(batches, items) = 1..n
    BY <2>2, LenProperties
  <2> QED
    BY <2>1, <2>2, <2>3
<1>4. ask \in 0..Len(asks) /\ ask \in Nat
  BY <1>0, <1>1, <1>2 DEF Sound
<1> HIDE DEF ask
<1>5. d \in PayoutDoc /\ d.deducted <= d.net /\ d.ask = ask
  BY <1>1, <1>4 DEF PayoutDoc
<1>6. payouts' = Append(payouts, d)
  BY DEF ask, Settles
<1> HIDE DEF d, n
<1>7. /\ payouts' \in Seq(PayoutDoc) /\ Len(payouts') = n
      /\ \A b \in 1..n : payouts'[b] = IF b = n THEN d ELSE payouts[b]
  BY <1>2, <1>5, <1>6, <1>n, AppendProperties
<1>8. \A p \in Payments :
        /\ pay'[p] = IF p \in items THEN [pay[p] EXCEPT !.at = pay[p].at + 1, !.batch = n] ELSE pay[p]
        /\ pay'[p] \in PayDoc /\ pay'[p].status = pay[p].status
        /\ pay'[p].refunded = pay[p].refunded
        /\ pay'[p].batch = IF p \in items THEN n ELSE pay[p].batch
  <2> SUFFICES ASSUME NEW p \in Payments
               PROVE  /\ pay'[p] = IF p \in items THEN [pay[p] EXCEPT !.at = pay[p].at + 1, !.batch = n] ELSE pay[p]
                      /\ pay'[p] \in PayDoc /\ pay'[p].status = pay[p].status
                      /\ pay'[p].refunded = pay[p].refunded
                      /\ pay'[p].batch = IF p \in items THEN n ELSE pay[p].batch
    OBVIOUS
  <2>1. pay[p] \in PayDoc /\ n \in Nat
    BY <1>n, Reads DEF IInv
  <2>2. pay'[p] = IF p \in items THEN [pay[p] EXCEPT !.at = pay[p].at + 1, !.batch = n] ELSE pay[p]
    BY DEF Stamp, Settles, n
  <2> HIDE DEF items
  <2>3. CASE p \in items
    <3>1. pay[p].at + 1 \in Nat
      BY <2>1 DEF PayDoc
    <3> DEFINE m == pay[p].at + 1
    <3> HIDE DEF m
    <3>2. pay'[p] = [pay[p] EXCEPT !.at = m, !.batch = n] /\ m \in Nat
      BY <2>2, <2>3, <3>1 DEF m
    <3> QED
      BY <2>1, <2>2, <2>3, <3>2 DEF PayDoc
  <2> QED
    BY <2>1, <2>2, <2>3
<1>9. pay' \in [Payments -> PayDoc]
  BY <1>8 DEF Stamp, Settles
<1>10. row' \in [Cash -> RowDoc]
  <2> SUFFICES ASSUME NEW p \in Cash PROVE row'[p] \in RowDoc
    BY DEF Settles
  <2>1. row[p] \in RowDoc
    BY Reads DEF IInv
  <2>2. CASE p \in DOMAIN req[r].plan
    <3>1. req[r].plan[p] \in PlanDoc
      BY <1>1, <2>2, PlanShape
    <3> QED
      BY <2>1, <2>2, <3>1 DEF RowDoc, PlanDoc, Settles
  <2> QED
    BY <2>1, <2>2 DEF Settles
<1>11. Shape'
  BY <1>n, <1>3, <1>7, <1>9, <1>10 DEF IInv, Shape, Settles
<1>12. PayoutInv'
  <2> SUFFICES ASSUME NEW b \in 1..n
               PROVE  payouts'[b].deducted <= payouts'[b].net /\ payouts'[b].ask \in 0..Len(asks)
    BY <1>7 DEF PayoutInv, Settles
  <2>1. CASE b = n
    BY <1>4, <1>5, <1>7, <2>1
  <2>2. CASE b # n
    <3>1. b \in 1..Len(payouts)
      BY <1>2, <1>n, <2>2
    <3> QED
      BY <1>7, <2>2, <3>1 DEF IInv, PayoutInv
  <2> QED
    BY <2>1, <2>2
<1>13. \A p \in items : pay[p].batch = 0
  BY <1>1 DEF Applicable, Stamped, None, Settles
<1>14. \A p \in Payments : pay[p].batch \in 0..Len(batches)
  BY DEF IInv, BatchInv
<1>b. \A p \in Payments : pay'[p].batch = IF p \in items THEN n ELSE pay[p].batch
  BY <1>8
<1> HIDE DEF items
<1>15. BatchInv'
  <2> SUFFICES ASSUME NEW p \in Payments PROVE pay'[p].batch \in 0..n
    BY <1>3 DEF BatchInv
  <2> QED
    BY <1>2, <1>b, <1>14, <1>n
<1>16. StampNamesBatch'
  <2> SUFFICES ASSUME NEW p \in Payments, NEW b \in 1..n
               PROVE  p \in batches'[b] <=> pay'[p].batch = b
    BY <1>3 DEF StampNamesBatch
  <2>1. CASE b = n
    <3>1. batches'[b] = items /\ pay[p].batch # n
      BY <1>2, <1>n, <1>3, <1>14, <2>1
    <3> QED
      BY <1>b, <2>1, <3>1
  <2>2. CASE b # n
    <3>1. b \in 1..Len(batches) /\ batches'[b] = batches[b]
      BY <1>2, <1>n, <1>3, <2>2
    <3>2. p \in batches[b] <=> pay[p].batch = b
      BY <1>2, <3>1 DEF IInv, StampNamesBatch
    <3> QED
      BY <1>n, <1>b, <1>13, <2>2, <3>1, <3>2
  <2> QED
    BY <2>1, <2>2
<1>17. RefundWithinAmount'
  BY <1>8 DEF IInv, RefundWithinAmount
<1> QED
  BY <1>11, <1>12, <1>15, <1>16, <1>17 DEF IInv

LEMMA ApplyStep ==
  ASSUME IInv, NEW r \in Requests, Apply(r)
  PROVE  IInv'
<1> DEFINE q == [Begin("approve", "writeAsk") EXCEPT
                   !.i = req[r].i, !.p = Len(batches) + 1, !.put = "PAID"]
<1>1. UNCHANGED asks
  BY DEF Apply
<1>2. CASE Quiet /\ Finish(r)
  BY <1>2, QuietFinish
<1>3. CASE Applicable(r) /\ Len(batches) < MaxBatches
  <2>1. Finish(r) \/ (req[r].op = "approve" /\ Goto(r, q))
    BY <1>3 DEF Apply
  <2>2. ASSUME req[r].op = "approve" PROVE q \in RequestDoc /\ Sound(q)
    <3>1. req[r].i \in Nat /\ req[r].i \in 1..Len(asks)
      BY <2>2, InFlight DEF RequestDoc, Sound
    <3>2. Len(batches) + 1 \in Nat
      BY LenProperties DEF IInv, Shape
    <3>3. Idle \in RequestDoc
      BY IdleIsRequest
    <3>4. q \in RequestDoc
      BY <3>1, <3>2, <3>3 DEF Begin, RequestDoc, Ops, Points, RefundPoints, AskStatuses
    <3>5. Sound(q)
      BY <2>2, <3>1 DEF Begin, Sound, RefundPoints, Idle
    <3> QED
      BY <3>4, <3>5
  <2>3. req' \in [Requests -> RequestDoc] /\ RequestInv'
    BY <1>1, <2>1, <2>2, GotoSound, FinishSound, SameAsks DEF IInv
  <2>4. CASE Finish(r) /\ UNCHANGED <<pay, row, batches, payouts>>
    BY <2>4, QuietFinish DEF Apply, Quiet
  <2> QED
    BY <1>3, <2>3, <2>4, SettlesKeeps DEF Apply, Settles
<1> QED
  BY <1>2, <1>3 DEF Apply, Quiet

LEMMA WithdrawalStep ==
  ASSUME IInv, NEW r \in Requests,
         AskNet(r) \/ AskOwed(r) \/ AskCreate(r) \/ WriteAsk(r)
  PROVE  IInv'
<1>0. req[r] \in RequestDoc /\ Sound(req[r])
  BY InFlight
<1>a. asks \in Seq(AskDoc) /\ Len(asks) <= MaxWithdrawals /\ Len(asks) \in Nat
  BY LenProperties DEF IInv, Shape
<1>1. CASE AskNet(r)
  <2> DEFINE q == [req[r] EXCEPT !.pc = "askOwed", !.net = NetOf(Settleable)]
  <2>1. NetOf(Settleable) \in Nat
    BY Reads DEF IInv
  <2>2. q \in RequestDoc /\ Sound(q)
    <3>1. q \in RequestDoc
      BY <1>0, <2>1 DEF RequestDoc, Points, RefundPoints
    <3>2. Sound(q)
      BY <1>0, <2>1 DEF RequestDoc, Sound, Points, RefundPoints
    <3> QED
      BY <3>1, <3>2
  <2> QED
    BY <1>1, <2>2, QuietStep DEF AskNet
<1>2. CASE AskOwed(r)
  <2> DEFINE q == Begin("ask", "askCreate")
  <2>1. q \in RequestDoc /\ Sound(q)
    <3>1. q \in RequestDoc
      BY IdleIsRequest DEF Begin, RequestDoc, Ops, Points, RefundPoints, Idle
    <3>2. Sound(q)
      BY IdleIsRequest DEF Begin, RequestDoc, Sound, Ops, Points, RefundPoints, Idle
    <3> QED
      BY <3>1, <3>2
  <2>2. Quiet /\ (Finish(r) \/ Goto(r, q))
    BY <1>2 DEF AskOwed
  <2> QED
    BY <2>1, <2>2, QuietStep, QuietFinish
\* A step that files or decides a withdrawal and writes nothing else.
<1>k. ASSUME UNCHANGED <<pay, row, refunds, batches, payouts>>, Finish(r),
             asks' \in Seq(AskDoc), Len(asks) <= Len(asks'), Len(asks') <= MaxWithdrawals
      PROVE  IInv'
  <2>1. req' \in [Requests -> RequestDoc] /\ RequestInv'
    BY <1>k, FinishSound DEF IInv
  <2>2. Len(asks') \in Nat
    BY <1>k, LenProperties
  <2>3. PayoutInv'
    BY <1>a, <1>k, <2>2 DEF IInv, PayoutInv
  <2>4. Shape' /\ BatchInv' /\ StampNamesBatch' /\ RefundWithinAmount'
    BY <1>k, <2>1 DEF IInv, Shape, BatchInv, StampNamesBatch, RefundWithinAmount
  <2> QED
    BY <2>1, <2>3, <2>4 DEF IInv
<1>3. CASE AskCreate(r)
  <2> DEFINE d == [status |-> "PENDING", batch |-> None]
  <2>1. d \in AskDoc
    BY DEF AskDoc, AskStatuses, None
  <2>2. asks' = asks \/ (Len(asks) # MaxWithdrawals /\ asks' = Append(asks, d))
    BY <1>3 DEF AskCreate
  <2> HIDE DEF d
  <2>3. Append(asks, d) \in Seq(AskDoc) /\ Len(Append(asks, d)) = Len(asks) + 1
    BY <1>a, <2>1, AppendProperties
  <2>4. asks' \in Seq(AskDoc) /\ Len(asks) <= Len(asks') /\ Len(asks') <= MaxWithdrawals
    BY <1>a, <2>2, <2>3, SettlementAssumption
  <2> QED
    BY <1>3, <1>k, <2>4 DEF AskCreate
<1>4. CASE WriteAsk(r)
  <2> DEFINE d == [status |-> req[r].put, batch |-> req[r].p]
             i == req[r].i
  <2>1. d \in AskDoc /\ i \in Nat
    BY <1>0, <1>4 DEF WriteAsk, At, Sound, RequestDoc, AskDoc, AskStatuses
  <2>2. asks' = [asks EXCEPT ![i] = d]
    BY <1>4 DEF WriteAsk
  <2> HIDE DEF d, i
  <2>3. asks' \in Seq(AskDoc) /\ Len(asks') = Len(asks)
    BY <1>a, <2>1, <2>2, ExceptInSeq
  <2> QED
    BY <1>4, <1>a, <1>k, <2>3 DEF WriteAsk
<1> QED
  BY <1>1, <1>2, <1>3, <1>4

\* A charge is received, or its ledger row appears.
LEMMA ChargeStep ==
  ASSUME IInv, NEW p \in Payments, Receive(p) \/ LedgerCreate(p)
  PROVE  IInv'
<1>0. req' \in [Requests -> RequestDoc] /\ RequestInv'
  <2>1. UNCHANGED <<req, asks>>
    BY DEF Receive, LedgerCreate
  <2> QED
    BY <2>1 DEF IInv, Shape, RequestInv, Sound
<1>1. CASE Receive(p)
  <2> DEFINE st == IF p \in Cash THEN "CONFIRMED" ELSE "HELD"
             d == [pay[p] EXCEPT !.status = st]
  <2>1. pay[p] \in PayDoc /\ pay[p].status = "NONE" /\ st \in {"CONFIRMED", "HELD"}
    BY <1>1, Reads DEF IInv, Receive
  <2>2. pay' = [pay EXCEPT ![p] = d]
    BY <1>1 DEF Receive
  <2> HIDE DEF st
  <2>3. d \in PayDoc /\ d.batch = pay[p].batch /\ d.refunded = pay[p].refunded /\ d.status = st
    BY <2>1 DEF PayDoc, ReceivedStatuses
  <2>4. pay[p].refunded <= Amount[p] /\ pay[p].refunded # Amount[p]
    BY <2>1 DEF IInv, RefundWithinAmount
  <2> HIDE DEF d
  <2> QED
    BY <1>0, <1>1, <2>1, <2>2, <2>3, <2>4, ChargeKeeps DEF Receive
<1>2. CASE LedgerCreate(p)
  <2>1. row' \in [Cash -> RowDoc]
    BY <1>2 DEF LedgerCreate, IInv, Shape, RowDoc
  <2> QED
    BY <1>0, <1>2, <2>1, RowKeeps DEF LedgerCreate
<1> QED
  BY <1>1, <1>2

LEMMA Invariance == Spec => []IInv
<1>1. IInv /\ [Next]_vars => IInv'
  <2> SUFFICES ASSUME IInv, [Next]_vars PROVE IInv'
    OBVIOUS
  <2>1. CASE UNCHANGED vars
    <3>1. Shape' /\ PayoutInv' /\ BatchInv' /\ StampNamesBatch' /\ RefundWithinAmount'
      BY <2>1 DEF vars, IInv, Shape, PayoutInv, BatchInv, StampNamesBatch, RefundWithinAmount
    <3>2. RequestInv'
      BY <2>1 DEF vars, IInv, RequestInv, Sound
    <3> QED
      BY <3>1, <3>2 DEF IInv
  <2>2. ASSUME NEW p \in Payments, Receive(p) \/ LedgerCreate(p) PROVE IInv'
    BY <2>2, ChargeStep
  <2>3. ASSUME NEW r \in Requests, Arrive(r) PROVE IInv'
    BY <2>3, RefundArrives, SettlementArrives, WithdrawalArrives DEF Arrive
  <2>4. ASSUME NEW r \in Requests, Handle(r) PROVE IInv'
    BY <2>4, RefundRequestStep, ConfirmRefundStep, SettleReadStep, ApplyStep, CloseStep,
       WithdrawalStep DEF Handle
  <2>5. ASSUME NEW r \in Requests, Abort(r) PROVE IInv'
    BY <2>5, QuietFinish DEF Abort
  <2> QED
    BY <2>1, <2>2, <2>3, <2>4, <2>5 DEF Next
<1> QED
  BY <1>1, InitIInv, PTL DEF Spec

-----------------------------------------------------------------------------
(* What follows.                                                            *)

\* Every document the refund, payout and withdrawal handlers write has its
\* shape, whatever they read before; no batch deducts more than its net.
THEOREM Typing == Spec => []TypeOK
<1>1. IInv => TypeOK
  <2> SUFFICES ASSUME IInv PROVE TypeOK
    OBVIOUS
  <2>1. Len(batches) \in Nat /\ Len(batches) <= MaxBatches /\ MaxBatches \in Nat
        /\ DOMAIN batches = 1..Len(batches) /\ DOMAIN payouts = 1..Len(batches)
        /\ DOMAIN refunds = 1..Len(refunds) /\ DOMAIN asks = 1..Len(asks) /\ Len(asks) \in Nat
    BY LenProperties, SettlementAssumption DEF IInv, Shape
  <2>2. pay \in [Payments -> [status : ReceivedStatuses \union {"NONE", "REFUNDED"},
                               refunded : Nat, at : Nat, batch : 0..MaxBatches]]
    <3>1. ASSUME NEW p \in Payments
          PROVE  pay[p] \in PayDoc /\ pay[p].batch \in 0..MaxBatches
      BY <2>1, Reads DEF IInv, BatchInv
    <3> QED
      BY <3>1 DEF PayDoc, IInv, Shape
  <2>3. \A i \in DOMAIN refunds :
          /\ refunds[i].p \in Payments /\ refunds[i].x \in 1..Amount[refunds[i].p]
          /\ refunds[i].status \in OpenRefunds \union {"REJECTED", "CONFIRMED", "FAILED"}
    <3> SUFFICES ASSUME NEW i \in 1..Len(refunds)
                 PROVE  /\ refunds[i].p \in Payments /\ refunds[i].x \in 1..Amount[refunds[i].p]
                        /\ refunds[i].status \in RefundStatuses
      BY <2>1 DEF RefundStatuses
    <3>1. refunds[i] \in RefundDoc
      BY ElementOfSeq DEF IInv, Shape
    <3>2. refunds[i].p \in Payments /\ refunds[i].x \in Nat \ {0} /\ refunds[i].status \in RefundStatuses
          /\ refunds[i].x <= Amount[refunds[i].p]
      BY <3>1 DEF RefundDoc
    <3>3. Amount[refunds[i].p] \in Nat
      BY <3>2, Reads DEF IInv
    <3> QED
      BY <3>2, <3>3
  <2>4. \A b \in DOMAIN payouts :
          /\ payouts[b].net \in Nat /\ payouts[b].deducted \in 0..payouts[b].net
          /\ payouts[b].ask = 0 \/ payouts[b].ask \in DOMAIN asks
    <3> SUFFICES ASSUME NEW b \in 1..Len(payouts)
                 PROVE  /\ payouts[b].net \in Nat /\ payouts[b].deducted \in 0..payouts[b].net
                        /\ payouts[b].ask = 0 \/ payouts[b].ask \in 1..Len(asks)
      BY <2>1 DEF IInv, Shape
    <3>1. payouts[b] \in PayoutDoc
      BY ElementOfSeq DEF IInv, Shape
    <3>2. payouts[b].deducted <= payouts[b].net /\ payouts[b].ask \in 0..Len(asks)
      BY DEF IInv, PayoutInv
    <3>3. payouts[b].net \in Nat /\ payouts[b].deducted \in Nat
      BY <3>1 DEF PayoutDoc
    <3> QED
      BY <2>1, <3>2, <3>3
  <2>5. \A i \in DOMAIN asks : asks[i].status \in {"PENDING", "PAID", "REJECTED"}
    <3> SUFFICES ASSUME NEW i \in 1..Len(asks) PROVE asks[i].status \in AskStatuses
      BY <2>1 DEF AskStatuses
    <3>1. asks[i] \in AskDoc
      BY ElementOfSeq DEF IInv, Shape
    <3> QED
      BY <3>1 DEF AskDoc
  <2> QED
    BY <2>1, <2>2, <2>3, <2>4, <2>5 DEF TypeOK, IInv, Shape, RowDoc
<1> QED
  BY <1>1, Invariance, PTL

\* A charge is in the batch it is stamped with and in no other: the
\* transaction of applySettlement looks at every charge again.
THEOREM StampedOnce == Spec => []StampNamesBatch
<1>1. IInv => StampNamesBatch
  BY DEF IInv
<1> QED
  BY <1>1, Invariance, PTL

\* No interleaving of requests, confirmations and retries refunds more of a
\* charge than the rider paid.
THEOREM RefundsBounded == Spec => []RefundWithinAmount
<1>1. IInv => RefundWithinAmount
  BY DEF IInv
<1> QED
  BY <1>1, Invariance, PTL

\* Only four handlers write a ledger row, and only five write a charge.
LEMMA Writers ==
  ASSUME Next
  PROVE  /\ \/ UNCHANGED row
            \/ \E p \in Payments : LedgerCreate(p)
            \/ \E r \in Requests : ReverseWrite(r) \/ SettleDirectWrite(r) \/ Settles(r)
         /\ \/ UNCHANGED <<pay, batches>>
            \/ \E p \in Payments : Receive(p)
            \/ \E r \in Requests : RefundWrite(r) \/ LegacyWrite(r) \/ Settles(r)
<1>1. ASSUME NEW p \in Payments, Receive(p) \/ LedgerCreate(p)
      PROVE  /\ UNCHANGED row \/ LedgerCreate(p)
             /\ UNCHANGED <<pay, batches>> \/ Receive(p)
  BY <1>1 DEF Receive, LedgerCreate
<1>2. ASSUME NEW r \in Requests, Arrive(r) \/ Abort(r) PROVE UNCHANGED <<pay, row, batches>>
  BY <1>2 DEF Arrive, Abort, Quiet, RequestRefundRead, DecideRefundRead, ConfirmRefundRead,
              SettleSome, LegacyRead, SettleDirectRead, AskCount, DecideRead
<1>3. ASSUME NEW r \in Requests, Apply(r)
      PROVE  Settles(r) \/ UNCHANGED <<pay, row, batches>>
  BY <1>3 DEF Apply, Settles
<1>4. ASSUME NEW r \in Requests, Handle(r), ~Apply(r)
      PROVE  /\ UNCHANGED row \/ ReverseWrite(r) \/ SettleDirectWrite(r)
             /\ UNCHANGED <<pay, batches>> \/ RefundWrite(r) \/ LegacyWrite(r)
  BY <1>4 DEF Handle, Quiet, FindOpenRefund, CreateRefund, WriteRefund, RefundRead, RefundWrite,
              ReverseRead, ReverseWrite, SettleAll, OwedRead, PlanRead, LegacyWrite,
              SettleDirectWrite, AskNet, AskOwed, AskCreate, WriteAsk
<1> QED
  BY <1>1, <1>2, <1>3, <1>4 DEF Next

\* A ledger row that a settlement or a transfer closed stays closed: a plan
\* made from a stale read is refused by the transaction, and a direct transfer
\* only closes rows.
THEOREM ClosedRows == Spec => SettledStaysSettled
<1>1. IInv /\ [Next]_vars => [SettledStaysSettledStep]_vars
  <2> SUFFICES ASSUME IInv, Next PROVE SettledStaysSettledStep
    OBVIOUS
  <2> SUFFICES ASSUME NEW p \in Cash, row[p].status = "SETTLED" PROVE row'[p].status = "SETTLED"
    BY DEF SettledStaysSettledStep
  <2>0. row \in [Cash -> RowDoc] /\ row[p] \in RowDoc
    BY DEF IInv, Shape
  <2>1. CASE UNCHANGED row
    BY <2>1
  <2>2. ASSUME NEW o \in Payments, LedgerCreate(o) PROVE row'[p].status = "SETTLED"
    BY <2>0, <2>2 DEF LedgerCreate
  <2>3. ASSUME NEW r \in Requests, ReverseWrite(r) PROVE row'[p].status = "SETTLED"
    BY <2>0, <2>3 DEF ReverseWrite, RowDoc
  <2>4. ASSUME NEW r \in Requests, SettleDirectWrite(r) PROVE row'[p].status = "SETTLED"
    <3>1. req[r].pc = "directWrite"
      BY <2>4 DEF SettleDirectWrite, At
    <3>2. \A o \in DOMAIN req[r].plan : req[r].plan[o].status = "SETTLED"
      BY <3>1, InFlight DEF Sound
    <3>3. PICK o \in DOMAIN req[r].plan :
            row' = [row EXCEPT ![o].settled = req[r].plan[o].settled,
                               ![o].status = req[r].plan[o].status]
      BY <2>4 DEF SettleDirectWrite
    <3> QED
      BY <2>0, <3>2, <3>3 DEF RowDoc
  <2>5. ASSUME NEW r \in Requests, Settles(r) PROVE row'[p].status = "SETTLED"
    <3>1. p \notin DOMAIN req[r].plan
      BY <2>5 DEF Settles, Applicable
    <3> QED
      BY <2>5, <3>1 DEF Settles
  <2> QED
    BY <2>1, <2>2, <2>3, <2>4, <2>5, Writers
<1> QED
  BY <1>1, Invariance, PTL DEF Spec, SettledStaysSettled

-----------------------------------------------------------------------------
(* The settlement implements its promise.                                   *)

ReceivedCharges == {p \in Payments : Received(p)}
Times == [p \in Payments |-> pay[p].at]


LEMMA PromiseInit == Init => Promise!Init
<1> SUFFICES ASSUME Init PROVE ReceivedCharges = {} /\ Times = [p \in Payments |-> 0] /\ batches = <<>>
  BY DEF Promise!Init, ReceivedCharges, Times
<1> QED
  BY DEF Init, ReceivedCharges, Times, Received, ReceivedStatuses

LEMMA PromiseStep ==
  ASSUME IInv, [Next]_vars
  PROVE  [Promise!Next]_<<ReceivedCharges, Times, batches>>
<1>0. \A p \in Payments : pay[p] \in PayDoc
  BY Reads DEF IInv
<1>m. ASSUME \A o \in Payments : pay'[o].at = pay[o].at, UNCHANGED batches
      PROVE  Promise!Next
  <2>1. Promise!Move(ReceivedCharges')
    BY <1>m DEF Promise!Move, ReceivedCharges, Times
  <2>2. ReceivedCharges' \in SUBSET Payments
    BY DEF ReceivedCharges
  <2> QED
    BY <2>1, <2>2 DEF Promise!Next
<1>p. ASSUME NEW S \in SUBSET Payments,
             \A o \in Payments : pay'[o].at = IF o \in S THEN pay[o].at + 1 ELSE pay[o].at
      PROVE  Promise!Pay(S)
  BY <1>p DEF Promise!Pay, Times
<1>1. CASE UNCHANGED <<pay, batches>>
  BY <1>1 DEF ReceivedCharges, Times, Received
<1>2. ASSUME NEW p \in Payments, Receive(p) PROVE Promise!Next
  <2>1. \A o \in Payments : pay'[o].at = pay[o].at
    BY <1>0, <1>2 DEF Receive, IInv, Shape, PayDoc
  <2> QED
    BY <1>2, <1>m, <2>1 DEF Receive
<1>3. ASSUME NEW r \in Requests, RefundWrite(r) PROVE Promise!Next
  <2>1. \A o \in Payments : pay'[o].at = pay[o].at
    BY <1>0, <1>3 DEF RefundWrite, IInv, Shape, PayDoc
  <2> QED
    BY <1>3, <1>m, <2>1 DEF RefundWrite
<1>4. ASSUME NEW r \in Requests, LegacyWrite(r) PROVE Promise!Next
  <2>1. PICK p \in Payments : p = req[r].p
    BY <1>4, InFlight DEF LegacyWrite, At, Sound
  <2>2. /\ pay' = IF pay[p].at = MaxStamps THEN pay ELSE [pay EXCEPT ![p].at = pay[p].at + 1]
        /\ UNCHANGED batches
    BY <1>4, <2>1 DEF LegacyWrite
  <2>3. CASE pay[p].at = MaxStamps
    BY <1>m, <2>2, <2>3
  <2>4. CASE pay[p].at # MaxStamps
    <3>1. \A o \in Payments : /\ pay'[o].status = pay[o].status
                               /\ pay'[o].at = IF o \in {p} THEN pay[o].at + 1 ELSE pay[o].at
      BY <1>0, <2>1, <2>2, <2>4 DEF IInv, Shape, PayDoc
    <3>2. Promise!Pay({p})
      BY <1>p, <3>1
    <3>3. ReceivedCharges' = ReceivedCharges
      BY <3>1 DEF ReceivedCharges, Received
    <3>4. Promise!PayOne(p)
      BY <2>2, <3>2, <3>3 DEF Promise!PayOne, ReceivedCharges
    <3> QED
      BY <2>1, <3>4 DEF Promise!Next
  <2> QED
    BY <2>3, <2>4
<1>5. ASSUME NEW r \in Requests, Settles(r) PROVE Promise!Next
  <2>1. PICK S \in SUBSET Payments : S = req[r].items /\ S # {}
    BY <1>5, InFlight DEF Settles, At, Sound, RequestDoc
  <2>2. batches' = Append(batches, S)
    BY <1>5, <2>1 DEF Settles
  <2>3. \A o \in S : Received(o) /\ pay[o].at = 0
    <3>1. \A o \in S : Received(o) /\ ~(pay[o].at > 0)
      BY <1>5, <2>1 DEF Settles, Applicable, Stamped
    <3>2. \A o \in S : pay[o].at \in Nat
      BY <1>0, <2>1 DEF PayDoc
    <3> QED
      BY <3>1, <3>2
  <2>4. S \subseteq ReceivedCharges \intersect Promise!Unpaid
    BY <2>1, <2>3 DEF ReceivedCharges, Promise!Unpaid
  <2>5. \A o \in Payments : /\ pay'[o].status = pay[o].status
                             /\ pay'[o].at = IF o \in S THEN pay[o].at + 1 ELSE pay[o].at
    BY <1>0, <1>5, <2>1 DEF Settles, Stamp, PayDoc
  <2>6. Promise!Pay(S)
    BY <1>p, <2>1, <2>5
  <2>7. ReceivedCharges' = ReceivedCharges
    BY <2>5 DEF ReceivedCharges, Received
  <2>8. Promise!Settle(S)
    BY <2>1, <2>2, <2>4, <2>6, <2>7 DEF Promise!Settle, ReceivedCharges
  <2> QED
    BY <2>1, <2>8 DEF Promise!Next
<1> QED
  BY <1>1, <1>2, <1>3, <1>4, <1>5, Writers DEF vars, ReceivedCharges, Times, Received

\* However requests interleave, die and retry, what happens to the charges and
\* the batches is what module PayoutBatches promises: a batch pays at once all it
\* lists, nothing that was paid before, and is never edited; a charge paid already
\* is paid again by an administrator's stamp alone, each such payout a step.
THEOREM KeepsPromise == Spec => ImplementsPromise
<1>1. IInv /\ [Next]_vars =>
        [Promise!Next]_<<{p \in Payments : Received(p)}, [p \in Payments |-> pay[p].at], batches>>
  BY PromiseStep DEF ReceivedCharges, Times
<1> QED
  BY <1>1, PromiseInit, Invariance, PTL DEF Spec, ImplementsPromise, Promise!Spec
-----------------------------------------------------------------------------
(* Sums, counted dong by dong.                                              *)

LEMMA TotalOfNone == \A f : Total(f, {}) = 0
<1> SUFFICES ASSUME NEW f PROVE Total(f, {}) = 0
  OBVIOUS
<1>1. Dong(f, {}) = {}
  BY DEF Dong
<1> QED
  BY <1>1, FS_EmptySet DEF Total

LEMMA SameTotal ==
  ASSUME NEW S, NEW f, NEW g, \A p \in S : f[p] = g[p]
  PROVE  Total(f, S) = Total(g, S)
<1>1. Dong(f, S) = Dong(g, S)
  BY DEF Dong
<1> QED
  BY <1>1 DEF Total

LEMMA TotalMore ==
  ASSUME NEW S, IsFiniteSet(S), NEW f, NEW g, NEW R \in SUBSET S,
         \A p \in S : g[p] \in Nat, \A p \in R : f[p] \in Nat /\ f[p] <= g[p]
  PROVE  Total(f, R) <= Total(g, S)
<1>1. Dong(f, R) \subseteq Dong(g, S)
  <2> SUFFICES ASSUME NEW p \in R, NEW z \in {p} \X (1..f[p]) PROVE z \in Dong(g, S)
    BY DEF Dong
  <2>1. 1..f[p] \subseteq 1..g[p]
    OBVIOUS
  <2>2. z \in {p} \X (1..g[p])
    BY <2>1
  <2> QED
    BY <2>2 DEF Dong
<1>2. IsFiniteSet(Dong(g, S))
  BY DongIsFinite
<1> QED
  BY <1>1, <1>2, FS_Subset DEF Total

LEMMA FirstOnes == \A n \in Nat : IsFiniteSet(1..n) /\ Cardinality(1..n) = n
<1> SUFFICES ASSUME NEW n \in Nat PROVE IsFiniteSet(1..n) /\ Cardinality(1..n) = n
  OBVIOUS
<1>1. n \in Int /\ 1 \in Int
  OBVIOUS
<1>2. IsFiniteSet(1..n) /\ Cardinality(1..n) = IF 1 > n THEN 0 ELSE n - 1 + 1
  BY <1>1, FS_Interval
<1> QED
  BY <1>2

LEMMA TotalWith ==
  ASSUME NEW S, IsFiniteSet(S), NEW f, NEW x, x \notin S, \A p \in S \union {x} : f[p] \in Nat
  PROVE  Total(f, S \union {x}) = Total(f, S) + f[x]
<1> DEFINE pile == {x} \X (1..f[x])
<1>1. Dong(f, S \union {x}) = Dong(f, S) \union pile
  BY DEF Dong
<1>2. Dong(f, S) \intersect pile = {}
  BY DEF Dong
<1>3. IsFiniteSet(pile) /\ Cardinality(pile) = f[x]
  <2>1. IsFiniteSet({x}) /\ Cardinality({x}) = 1
    BY FS_Singleton
  <2>2. f[x] \in Nat
    OBVIOUS
  <2>3. IsFiniteSet(1..f[x]) /\ Cardinality(1..f[x]) = f[x]
    BY <2>2, FirstOnes
  <2>4. Cardinality(pile) = 1 * Cardinality(1..f[x]) /\ IsFiniteSet(pile)
    BY <2>1, <2>3, FS_Product
  <2> QED
    BY <2>2, <2>3, <2>4
<1>4. IsFiniteSet(Dong(f, S)) /\ Total(f, S) \in Nat
  BY DongIsFinite
<1>5. Cardinality(Dong(f, S) \intersect pile) = 0
  BY <1>2, FS_EmptySet
<1> HIDE DEF pile
<1>6. Cardinality(Dong(f, S) \union pile) = Cardinality(Dong(f, S)) + Cardinality(pile) - 0
  BY <1>3, <1>4, <1>5, FS_Union
<1>7. f[x] \in Nat
  OBVIOUS
<1>8. Total(f, S) = Cardinality(Dong(f, S)) /\ Total(f, S \union {x}) = Cardinality(Dong(f, S) \union pile)
  BY <1>1 DEF Total
<1> QED
  BY <1>3, <1>4, <1>6, <1>7, <1>8

LEMMA TotalTakes ==
  ASSUME NEW S, IsFiniteSet(S), NEW f, NEW x \in S, \A p \in S : f[p] \in Nat
  PROVE  Total(f, S) = Total(f, S \ {x}) + f[x] /\ Total(f, S \ {x}) \in Nat /\ Total(f, S) \in Nat
<1> DEFINE R == S \ {x}
<1>1. IsFiniteSet(R) /\ R \union {x} = S /\ x \notin R
  BY FS_RemoveElement
<1>2. Total(f, R \union {x}) = Total(f, R) + f[x]
  BY <1>1, TotalWith
<1>3. Total(f, R) \in Nat /\ Total(f, S) \in Nat
  BY <1>1, DongIsFinite
<1> QED
  BY <1>1, <1>2, <1>3

\* Some part of a finite set is smallest among those that there are.
LEMMA SmallestPart ==
  ASSUME NEW S, IsFiniteSet(S), NEW T, T \subseteq SUBSET S, T # {}
  PROVE  \E m \in T : \A y \in T : y \subseteq m => y = m
<1>1. IsWellFoundedOn(StrictSubsetOrdering(S), FiniteSubsetsOf(S))
  BY FS_StrictSubsetOrderingWellFounded
<1>2. FiniteSubsetsOf(S) = SUBSET S
  BY FS_FiniteSubsetsOfFinite
<1>3. PICK m \in T : \A y \in T : ~ (<<y, m>> \in StrictSubsetOrdering(S))
  BY <1>1, <1>2, WFMin
<1>4. QED
  BY <1>3 DEF StrictSubsetOrdering

LEMMA SumOfTotals ==
  ASSUME NEW S, IsFiniteSet(S), NEW f, NEW g, NEW h,
         \A p \in S : f[p] \in Nat /\ g[p] \in Nat /\ h[p] = f[p] + g[p]
  PROVE  Total(h, S) = Total(f, S) + Total(g, S)
<1> DEFINE T == {t \in SUBSET S : Total(h, t) # Total(f, t) + Total(g, t)}
<1>1. SUFFICES ASSUME T # {} PROVE FALSE
  OBVIOUS
<1>2. PICK m \in T : \A y \in T : y \subseteq m => y = m
  <2>1. T \subseteq SUBSET S
    OBVIOUS
  <2> HIDE DEF T
  <2> QED
    BY <1>1, <2>1, SmallestPart
<1>3. CASE m = {}
  <2>1. Total(f, m) = 0 /\ Total(g, m) = 0 /\ Total(h, m) = 0
    BY <1>3, TotalOfNone
  <2> QED
    BY <2>1
<1>4. CASE m # {}
  <2>1. PICK x \in m : TRUE
    BY <1>4
  <2>2. IsFiniteSet(m) /\ m \ {x} \in SUBSET S /\ m \ {x} \notin T
    BY <1>2, <2>1, FS_Subset
  <2>3. /\ Total(f, m) = Total(f, m \ {x}) + f[x] /\ Total(f, m \ {x}) \in Nat
        /\ Total(g, m) = Total(g, m \ {x}) + g[x] /\ Total(g, m \ {x}) \in Nat
        /\ Total(h, m) = Total(h, m \ {x}) + h[x]
    BY <2>2, TotalTakes
  <2>4. Total(h, m \ {x}) = Total(f, m \ {x}) + Total(g, m \ {x})
    BY <2>2
  <2>5. f[x] \in Nat /\ g[x] \in Nat /\ h[x] = f[x] + g[x]
    OBVIOUS
  <2>6. Total(h, m) # Total(f, m) + Total(g, m)
    OBVIOUS
  <2> QED
    BY <2>3, <2>4, <2>5, <2>6
<1>5. QED
  BY <1>3, <1>4

LEMMA Youngest ==
  ASSUME NEW S, IsFiniteSet(S), \A x \in S : x \in Nat, S # {}
  PROVE  \E x \in S : \A y \in S : y <= x
<1> DEFINE T == {t \in SUBSET S : t # {} /\ ~ \E x \in t : \A y \in t : y <= x}
<1>1. SUFFICES ASSUME T # {} PROVE FALSE
  OBVIOUS
<1>2. PICK m \in T : \A y \in T : y \subseteq m => y = m
  <2>1. T \subseteq SUBSET S
    OBVIOUS
  <2> HIDE DEF T
  <2> QED
    BY <1>1, <2>1, SmallestPart
<1>3. PICK x \in m : TRUE
  OBVIOUS
<1>4. m \ {x} \notin T /\ m \ {x} \in SUBSET S
  BY <1>2
<1>5. CASE m \ {x} = {}
  BY <1>3, <1>5
<1>6. CASE m \ {x} # {}
  <2>1. PICK z \in m \ {x} : \A y \in m \ {x} : y <= z
    BY <1>4, <1>6
  <2> QED
    BY <1>3, <2>1
<1>7. QED
  BY <1>5, <1>6

-----------------------------------------------------------------------------
(* What planSettlement spreads over the rows is all it was asked to.        *)

LEMMA LeastOfTwo ==
  \A a, b, c \in Nat : Least(a, b) + Least(c, Less(a, b)) = Least(a, b + c)
BY DEF Least, Less

LEMMA AppliedIsNat ==
  ASSUME Shape, NEW amount \in Nat, NEW p \in OwedRows
  PROVE  Applied(p, amount) \in Nat /\ Applied(p, amount) <= Open(p) /\ Open(p) \in Nat
<1> DEFINE o == [q \in OwedRows |-> Open(q)]
           older == {q \in OwedRows : q < p}
<1>1. IsFiniteSet(older) /\ \A q \in older : o[q] \in Nat
  BY Reads, Subsets, SettlementAssumption DEF OwedRows
<1>2. Total(o, older) \in Nat
  BY <1>1, DongIsFinite
<1>3. Open(p) \in Nat
  BY Reads
<1> HIDE DEF o, older
<1>4. Less(amount, Total(o, older)) \in Nat
  BY <1>2, LessIsNat
<1> QED
  BY <1>3, <1>4 DEF Applied, Least, o, older

\* Oldest first: what the oldest rows get is the amount, or all that is open of them.
LEMMA OldestFirst ==
  ASSUME Shape, NEW amount \in Nat
  PROVE  Total([p \in OwedRows |-> Applied(p, amount)], OwedRows) = Least(amount, Owed)
<1> DEFINE a == [p \in OwedRows |-> Applied(p, amount)]
           o == [p \in OwedRows |-> Open(p)]
           Old(s) == \A p \in s : \A q \in OwedRows : q < p => q \in s
           T == {s \in SUBSET OwedRows : Old(s) /\ Total(a, s) # Least(amount, Total(o, s))}
<1>1. /\ IsFiniteSet(OwedRows) /\ OwedRows \subseteq Nat
      /\ \A p \in OwedRows : a[p] \in Nat /\ o[p] \in Nat
      /\ \A p \in OwedRows : a[p] = Least(o[p], Less(amount, Total(o, {q \in OwedRows : q < p})))
  <2>1. IsFiniteSet(OwedRows) /\ OwedRows \subseteq Nat
    BY Reads, Subsets, SettlementAssumption DEF OwedRows
  <2>2. \A p \in OwedRows : a[p] \in Nat /\ o[p] \in Nat
    BY AppliedIsNat
  <2>3. \A p \in OwedRows : a[p] = Least(o[p], Less(amount, Total(o, {q \in OwedRows : q < p})))
    BY DEF Applied
  <2> QED
    BY <2>1, <2>2, <2>3
<1>f. IsFiniteSet(OwedRows)
  BY <1>1
<1>2. SUFFICES T = {}
  <2>1. Old(OwedRows)
    OBVIOUS
  <2> QED
    BY <2>1 DEF Owed
<1> HIDE DEF a, o
<1>3. SUFFICES ASSUME T # {} PROVE FALSE
  OBVIOUS
<1>4. PICK m \in T : \A y \in T : y \subseteq m => y = m
  <2>1. T \subseteq SUBSET OwedRows
    OBVIOUS
  <2> HIDE DEF T, Old
  <2> QED
    BY <1>f, <1>3, <2>1, SmallestPart
<1>5. CASE m = {}
  <2>1. Total(a, m) = 0 /\ Total(o, m) = 0
    BY <1>5, TotalOfNone
  <2>2. Least(amount, 0) = 0
    BY DEF Least
  <2> QED
    BY <2>1, <2>2
<1>6. CASE m # {}
  <2>1. m \in SUBSET OwedRows /\ IsFiniteSet(m) /\ Old(m) /\ \A y \in m : y \in Nat
    BY <1>1, FS_Subset
  <2>2. PICK x \in m : \A y \in m : y <= x
    BY <1>6, <2>1, Youngest
  <2> DEFINE r == m \ {x}
  <2>3. Old(r) /\ r \in SUBSET OwedRows
    <3> SUFFICES ASSUME NEW p \in r, NEW q \in OwedRows, q < p PROVE q \in r
      BY <2>1
    <3>1. q \in m /\ p <= x /\ q \in Nat /\ p \in Nat /\ x \in Nat
      BY <1>1, <2>1, <2>2
    <3> QED
      BY <3>1
  <2>4. r = {q \in OwedRows : q < x}
    <3>1. \A q \in r : q < x
      BY <2>1, <2>2
    <3>2. \A q \in OwedRows : q < x => q \in r
      BY <1>1, <2>1
    <3> QED
      BY <2>1, <3>1, <3>2
  <2>5. Total(a, r) = Least(amount, Total(o, r))
    BY <1>4, <2>3
  <2>6. /\ Total(a, m) = Total(a, r) + a[x] /\ Total(a, r) \in Nat
        /\ Total(o, m) = Total(o, r) + o[x] /\ Total(o, r) \in Nat
    BY <1>1, <2>1, TotalTakes
  <2>7. a[x] = Least(o[x], Less(amount, Total(o, r))) /\ o[x] \in Nat
    BY <1>1, <2>1, <2>4
  <2>8. Total(a, m) # Least(amount, Total(o, m))
    OBVIOUS
  <2> HIDE DEF r
  <2>9. PICK b, c \in Nat : b = Total(o, r) /\ c = o[x]
    BY <2>6, <2>7
  <2>10. Total(a, m) = Least(amount, b) + Least(c, Less(amount, b)) /\ Total(o, m) = b + c
    BY <2>5, <2>6, <2>7, <2>9
  <2>11. Total(a, m) = Least(amount, Total(o, m))
    BY <2>10, LeastOfTwo
  <2> QED
    BY <2>8, <2>11
<1>7. QED
  BY <1>5, <1>6

\* No row is left with less than it had, or with more than is open of it, and what
\* the rows gain is what was asked for.
Gain(plan) == Total([p \in DOMAIN plan |-> plan[p].settled - row[p].settled], DOMAIN plan)
Fits(plan) ==
  \A p \in DOMAIN plan :
    /\ p \in Cash /\ plan[p].settled \in Nat /\ row[p].settled <= plan[p].settled
    /\ plan[p].settled + row[p].reversed <= Commission[p]

RowsInv == \A p \in Cash : row[p].settled + row[p].reversed <= Commission[p]

LEMMA OpenIs ==
  ASSUME Shape, RowsInv, NEW p \in Cash
  PROVE  /\ row[p].settled \in Nat /\ row[p].reversed \in Nat /\ Commission[p] \in Nat
         /\ Open(p) = Commission[p] - (row[p].settled + row[p].reversed)
<1>1. row[p].settled \in Nat /\ row[p].reversed \in Nat /\ Commission[p] \in Nat
  BY Reads DEF RowDoc
<1>2. row[p].settled + row[p].reversed <= Commission[p]
  BY DEF RowsInv
<1> QED
  BY <1>1, <1>2 DEF Open, Less

LEMMA PlanFits ==
  ASSUME Shape, RowsInv, NEW amount \in Nat, amount <= Owed
  PROVE  Fits(Plan(amount)) /\ Gain(Plan(amount)) = amount
<1> DEFINE D == {o \in OwedRows : Applied(o, amount) > 0}
           plan == Plan(amount)
           a == [p \in OwedRows |-> Applied(p, amount)]
<1>1. DOMAIN plan = D /\ \A p \in D : plan[p].settled = row[p].settled + Applied(p, amount)
  BY DEF Plan
<1>2. D \subseteq OwedRows /\ OwedRows \subseteq Cash
  BY DEF OwedRows
<1>3. \A p \in D : Applied(p, amount) \in Nat /\ Applied(p, amount) <= Open(p) /\ Open(p) \in Nat
  BY AppliedIsNat
<1>4. \A p \in D : /\ row[p].settled \in Nat /\ row[p].reversed \in Nat /\ Commission[p] \in Nat
                   /\ Open(p) = Commission[p] - (row[p].settled + row[p].reversed)
  BY <1>2, OpenIs
<1> HIDE DEF plan
<1>5. Fits(plan)
  <2> SUFFICES ASSUME NEW p \in D
               PROVE  /\ p \in Cash /\ plan[p].settled \in Nat /\ row[p].settled <= plan[p].settled
                      /\ plan[p].settled + row[p].reversed <= Commission[p]
    BY <1>1 DEF Fits
  <2>1. plan[p].settled = row[p].settled + Applied(p, amount)
    BY <1>1
  <2>2. Applied(p, amount) \in Nat /\ Applied(p, amount) <= Open(p)
    BY <1>3
  <2>3. /\ row[p].settled \in Nat /\ row[p].reversed \in Nat /\ Commission[p] \in Nat
        /\ Open(p) = Commission[p] - (row[p].settled + row[p].reversed)
    BY <1>4
  <2> HIDE DEF D
  <2> QED
    BY <1>2, <2>1, <2>2, <2>3
<1>6. Gain(plan) = Total(a, D)
  <2> DEFINE d == [p \in D |-> plan[p].settled - row[p].settled]
  <2>1. \A p \in D : d[p] = a[p]
    BY <1>1, <1>2, <1>3, <1>4
  <2>2. Total(d, D) = Total(a, D)
    BY <2>1, SameTotal
  <2> QED
    BY <1>1, <2>2 DEF Gain
<1>7. Dong(a, D) = Dong(a, OwedRows)
  <2>1. \A p \in OwedRows : a[p] \in Nat
    BY AppliedIsNat
  <2>2. \A p \in OwedRows \ D : a[p] = 0
    BY <2>1
  <2> HIDE DEF a, D
  <2>3. \A p \in OwedRows \ D : {p} \X (1..a[p]) = {}
    BY <2>2
  <2> QED
    BY <1>2, <2>3 DEF Dong
<1>8. Total(a, D) = amount
  <2>1. Total(a, OwedRows) = Least(amount, Owed)
    BY OldestFirst
  <2>2. Least(amount, Owed) = amount
    BY Reads DEF Least
  <2> QED
    BY <1>7, <2>1, <2>2 DEF Total
<1> QED
  BY <1>5, <1>6, <1>8 DEF plan

-----------------------------------------------------------------------------
(* The books, while calls come one after another.                           *)

\* What the one request in flight still holds true.
OpenRefundsOf(p) == {i \in DOMAIN refunds : refunds[i].p = p /\ refunds[i].status \in OpenRefunds}
PendingAsks == {i \in DOMAIN asks : asks[i].status = "PENDING"}
Holds(q) ==
  /\ q.pc = "createRefund" => OpenRefundsOf(q.p) = {}
  /\ q.pc = "writeRefund" /\ q.put \in OpenRefunds =>
       q.i \in DOMAIN refunds /\ refunds[q.i].status \in OpenRefunds
  /\ q.pc \in RefundPoints => q.put = "CONFIRMED"
  /\ q.pc = "reverseWrite" => q.p \in Cash /\ row[q.p].settled + q.owed <= Commission[q.p]
  /\ q.pc \in {"settle", "owed", "plan"} => q.plan = NoPlan
  /\ q.pc = "plan" => q.owed <= Owed
  /\ q.pc \in {"apply", "directWrite"} => Fits(q.plan)
  /\ q.pc = "apply" => q.owed <= Gain(q.plan)
  /\ q.pc \in {"askNet", "askOwed", "askCreate"} => PendingAsks = {}

Deducted == Total([b \in DOMAIN payouts |-> payouts[b].deducted], DOMAIN payouts)
Collected == Total([p \in Cash |-> row[p].settled], Cash)

Books == RowsInv /\ Deducted <= Collected /\ OneOpenAsk /\ \A r \in Requests : Holds(req[r])

Serial == \E r : Requests = {r}

LEMMA BooksAre == LedgerAddsUp <=> RowsInv /\ Deducted <= Collected
BY DEF LedgerAddsUp, RowsInv, Deducted, Collected

LEMMA InitBooks == Init => Books
<1> SUFFICES ASSUME Init PROVE Books
  OBVIOUS
<1>1. row = [p \in Cash |-> [status |-> "NONE", settled |-> 0, reversed |-> 0]]
      /\ refunds = <<>> /\ payouts = <<>> /\ asks = <<>> /\ req = [r \in Requests |-> Idle]
  BY DEF Init
<1>2. RowsInv
  BY <1>1, SettlementAssumption DEF RowsInv
<1>3. DOMAIN payouts = {} /\ DOMAIN refunds = {} /\ DOMAIN asks = {}
  BY <1>1
<1>4. Deducted = 0
  BY <1>3, TotalOfNone DEF Deducted
<1>5. Collected \in Nat
  <2> DEFINE f == [p \in Cash |-> row[p].settled]
  <2>1. f \in [Cash -> Nat]
    BY <1>1
  <2>2. Total(f, Cash) \in Nat
    BY <2>1, Subsets, SettlementAssumption, TotalIsNat
  <2> QED
    BY <2>2 DEF Collected
<1>6. OneOpenAsk
  BY <1>3 DEF OneOpenAsk
<1>7. \A r \in Requests : Holds(req[r])
  BY <1>1 DEF Holds, Idle, RefundPoints
<1> QED
  BY <1>2, <1>4, <1>5, <1>6, <1>7 DEF Books

\* A step of the request in flight: what is left to show of it.
LEMMA BooksAfter ==
  ASSUME Serial, Shape, NEW r \in Requests, NEW q, Goto(r, q), Holds(q)',
         RowsInv', (Deducted <= Collected)', OneOpenAsk'
  PROVE  Books'
<1>1. req'[r] = q
  BY DEF Goto, Shape
<1>2. \A s \in Requests : s = r
  BY DEF Serial
<1>3. ASSUME NEW s \in Requests PROVE Holds(req[s])'
  BY <1>1, <1>2
<1> QED
  BY <1>3 DEF Books

LEMMA SameBooks ==
  ASSUME Books, UNCHANGED <<row, refunds, payouts, asks>>
  PROVE  RowsInv' /\ (Deducted <= Collected)' /\ OneOpenAsk' /\ \A q : Holds(q) => Holds(q)'
<1>1. RowsInv' /\ (Deducted <= Collected)' /\ OneOpenAsk'
  BY DEF Books, RowsInv, Deducted, Collected, OneOpenAsk
<1>2. Owed' = Owed
  BY DEF Owed, OwedRows, Open
<1>3. PendingAsks' = PendingAsks /\ \A p : OpenRefundsOf(p)' = OpenRefundsOf(p)
  BY DEF PendingAsks, OpenRefundsOf
<1>4. \A plan : (Fits(plan) => Fits(plan)') /\ Gain(plan)' = Gain(plan)
  BY DEF Fits, Gain
<1>5. ASSUME NEW q, Holds(q) PROVE Holds(q)'
  BY <1>2, <1>3, <1>4, <1>5 DEF Holds
<1> QED
  BY <1>1, <1>5

\* A step that reads, or writes a charge.
LEMMA QuietBooks ==
  ASSUME Serial, Shape, Books, NEW r \in Requests, NEW q, Goto(r, q), Holds(q),
         UNCHANGED <<row, refunds, payouts, asks>>
  PROVE  Books'
BY SameBooks, BooksAfter

LEMMA HoldsAtRest ==
  ASSUME NEW q, q.pc \in {"idle", "findOpen", "legacyWrite", "writeAsk"}
  PROVE  Holds(q)
BY DEF Holds, RefundPoints

LEMMA IdleHolds == Holds(Idle) /\ Holds(Idle)'
BY DEF Holds, Idle, RefundPoints

LEMMA FinishBooks ==
  ASSUME Serial, Shape, Books, NEW r \in Requests, Finish(r), UNCHANGED <<row, refunds, payouts, asks>>
  PROVE  Books'
BY QuietBooks, IdleHolds DEF Finish

LEMMA NothingPlanned == Fits(NoPlan) /\ Gain(NoPlan) = 0
<1>1. DOMAIN NoPlan = {}
  BY DEF NoPlan
<1> QED
  BY <1>1, TotalOfNone DEF Fits, Gain

\* Charges arrive, and the ledger gets their rows, whatever a request has read.
LEMMA ChargeBooks ==
  ASSUME IInv, Books, NEW p \in Payments, Receive(p) \/ LedgerCreate(p)
  PROVE  Books'
<1>1. CASE Receive(p)
  <2>1. UNCHANGED <<row, refunds, payouts, asks, req>>
    BY <1>1 DEF Receive
  <2>2. \A r \in Requests : Holds(req[r]) /\ req'[r] = req[r]
    BY <2>1 DEF Books
  <2> QED
    BY <2>1, <2>2, SameBooks DEF Books
<1>2. CASE LedgerCreate(p)
  <2>1. /\ UNCHANGED <<refunds, payouts, asks, req>>
        /\ p \in Cash /\ row[p].status = "NONE" /\ row' = [row EXCEPT ![p].status = "OWED"]
    BY <1>2 DEF LedgerCreate
  <2>2. \A o \in Cash : /\ row'[o].settled = row[o].settled /\ row'[o].reversed = row[o].reversed
                        /\ row'[o].status = IF o = p THEN "OWED" ELSE row[o].status
    <3>1. row \in [Cash -> RowDoc]
      BY DEF IInv, Shape
    <3> QED
      BY <2>1, <3>1 DEF RowDoc
  <2>3. RowsInv'
    BY <2>2 DEF Books, RowsInv
  <2>4. Deducted' = Deducted /\ Collected' = Collected
    <3>1. [o \in Cash |-> row'[o].settled] = [o \in Cash |-> row[o].settled]
      BY <2>2
    <3> QED
      BY <2>1, <3>1 DEF Deducted, Collected
  <2>5. OneOpenAsk'
    BY <2>1 DEF Books, OneOpenAsk
  <2>6. Owed <= Owed' /\ Owed' \in Nat
    <3> DEFINE f == [o \in OwedRows |-> Open(o)]
               S == {o \in Cash : row'[o].status = "OWED"}
               g == [o \in S |-> Less(Commission[o], row'[o].settled + row'[o].reversed)]
    <3>1. OwedRows \in SUBSET S
      BY <2>2 DEF OwedRows
    <3>2. \A o \in S : g[o] = Open(o) /\ g[o] \in Nat
      BY <2>2, Reads DEF Open, IInv
    <3>3. \A o \in OwedRows : f[o] = g[o]
      BY <3>1, <3>2
    <3>4. IsFiniteSet(S)
      BY Subsets, SettlementAssumption
    <3>5. \A o \in OwedRows : f[o] \in Nat /\ f[o] <= g[o]
      BY <3>1, <3>2, <3>3
    <3>6. Owed = Total(f, OwedRows) /\ Owed' = Total(g, S)
      BY DEF Owed, OwedRows, Open
    <3> HIDE DEF f, g, S
    <3> QED
      BY <3>1, <3>2, <3>4, <3>5, <3>6, TotalMore, DongIsFinite
  <2>7. PendingAsks' = PendingAsks /\ \A o : OpenRefundsOf(o)' = OpenRefundsOf(o)
    BY <2>1 DEF PendingAsks, OpenRefundsOf
  <2>8. \A plan : (Fits(plan) => Fits(plan)') /\ (Fits(plan) => Gain(plan)' = Gain(plan))
    <3> SUFFICES ASSUME NEW plan, Fits(plan) PROVE Fits(plan)' /\ Gain(plan)' = Gain(plan)
      OBVIOUS
    <3>1. Fits(plan)'
      BY <2>2 DEF Fits
    <3>2. [o \in DOMAIN plan |-> plan[o].settled - row'[o].settled]
            = [o \in DOMAIN plan |-> plan[o].settled - row[o].settled]
      BY <2>2 DEF Fits
    <3> QED
      BY <3>1, <3>2 DEF Gain
  <2>9. ASSUME NEW r \in Requests PROVE Holds(req[r])'
    <3>1. Holds(req[r]) /\ req[r] \in RequestDoc /\ req'[r] = req[r]
      BY <2>1, InFlight DEF Books
    <3>2. Owed \in Nat /\ req[r].owed \in Nat
      BY <3>1, Reads DEF IInv, RequestDoc
    <3>3. PICK q : q = req[r]
      OBVIOUS
    <3>4. Holds(q) /\ q.owed \in Nat
      BY <3>1, <3>2, <3>3
    <3>5. Holds(q)'
      BY <2>1, <2>2, <2>6, <2>7, <2>8, <3>2, <3>4 DEF Holds
    <3> QED
      BY <3>1, <3>3, <3>5
  <2> QED
    BY <2>3, <2>4, <2>5, <2>9 DEF Books
<1> QED
  BY <1>1, <1>2

-----------------------------------------------------------------------------
LEMMA ArriveBooks ==
  ASSUME Serial, IInv, Books, NEW r \in Requests, Arrive(r)
  PROVE  Books'
<1>0. Shape
  BY DEF IInv
<1>k. ASSUME NEW q, Goto(r, q), Quiet, Holds(q) PROVE Books'
  BY <1>0, <1>k, QuietBooks DEF Quiet
<1>1. ASSUME NEW p \in Payments, NEW x, RequestRefundRead(r, p, x) PROVE Books'
  <2>1. PICK q : q = [Begin("requestRefund", "findOpen") EXCEPT !.p = p, !.x = x]
    OBVIOUS
  <2>2. q.pc = "findOpen"
    BY <2>1 DEF Begin, Idle
  <2>3. Holds(q)
    BY <2>2, HoldsAtRest
  <2> QED
    BY <1>1, <1>k, <2>1, <2>3 DEF RequestRefundRead
<1>2. ASSUME NEW i \in DOMAIN refunds, NEW to \in {"APPROVED", "REJECTED", "SENT", "FAILED"},
             DecideRefundRead(r, i, to)
      PROVE  Books'
  <2>1. PICK q : q = [Begin("decideRefund", "writeRefund") EXCEPT !.i = i, !.put = to]
    OBVIOUS
  <2>2. q.pc = "writeRefund" /\ q.i = i /\ q.put = to
    BY <2>1 DEF Begin, Idle
  <2>3. to \in OpenRefunds => refunds[i].status \in OpenRefunds
    BY <1>2 DEF DecideRefundRead, OpenRefunds
  <2>4. Holds(q)
    BY <2>2, <2>3 DEF Holds, RefundPoints
  <2> QED
    BY <1>2, <1>k, <2>1, <2>4 DEF DecideRefundRead
<1>3. ASSUME NEW i \in DOMAIN refunds, ConfirmRefundRead(r, i) PROVE Books'
  <2>1. PICK q : q = [Begin("confirmRefund", "refund") EXCEPT
                        !.i = i, !.p = refunds[i].p, !.x = refunds[i].x, !.put = "CONFIRMED"]
    OBVIOUS
  <2>2. q.pc = "refund" /\ q.put = "CONFIRMED"
    BY <2>1 DEF Begin, Idle
  <2>3. Holds(q)
    BY <2>2 DEF Holds, RefundPoints
  <2> QED
    BY <1>3, <1>k, <2>1, <2>3 DEF ConfirmRefundRead
<1>4. ASSUME NEW S, SettleSome(r, S) PROVE Books'
  <2>1. PICK q : q = [Begin("batch", "owed") EXCEPT !.items = S, !.net = NetOf(S)]
    OBVIOUS
  <2>2. q.pc = "owed" /\ q.plan = NoPlan
    BY <2>1 DEF Begin, Idle
  <2>3. Holds(q)
    BY <2>2 DEF Holds, RefundPoints
  <2> QED
    BY <1>4, <1>k, <2>1, <2>3 DEF SettleSome
<1>5. ASSUME NEW p \in Payments, LegacyRead(r, p) PROVE Books'
  <2>1. PICK q : q = [Begin("legacy", "legacyWrite") EXCEPT !.p = p]
    OBVIOUS
  <2>2. q.pc = "legacyWrite"
    BY <2>1 DEF Begin, Idle
  <2>3. Holds(q)
    BY <2>2, HoldsAtRest
  <2> QED
    BY <1>5, <1>k, <2>1, <2>3 DEF LegacyRead
<1>6. CASE SettleDirectRead(r)
  <2>1. PICK open, plan : /\ open = {p \in OwedRows : Open(p) > 0}
                          /\ plan = [p \in open |-> [settled |-> row[p].settled + Open(p), status |-> "SETTLED"]]
    OBVIOUS
  <2>2. PICK q : q = [Begin("direct", "directWrite") EXCEPT !.plan = plan]
    OBVIOUS
  <2>3. q.pc = "directWrite" /\ q.plan = plan
    BY <2>2 DEF Begin, Idle
  <2>4. Goto(r, q) /\ Quiet
    BY <1>6, <2>1, <2>2 DEF SettleDirectRead
  <2>5. DOMAIN plan = open /\ open \subseteq Cash
        /\ \A p \in open : plan[p].settled = row[p].settled + Open(p)
    BY <2>1 DEF OwedRows
  <2>6. ASSUME NEW p \in open
        PROVE  /\ p \in Cash /\ plan[p].settled \in Nat /\ row[p].settled <= plan[p].settled
               /\ plan[p].settled + row[p].reversed <= Commission[p]
    <3>1. p \in Cash /\ RowsInv
      BY <2>5 DEF Books
    <3>2. /\ row[p].settled \in Nat /\ row[p].reversed \in Nat /\ Commission[p] \in Nat
          /\ Open(p) = Commission[p] - (row[p].settled + row[p].reversed) /\ Open(p) \in Nat
      BY <1>0, <3>1, OpenIs, Reads
    <3>3. plan[p].settled = row[p].settled + Open(p)
      BY <2>5
    <3> QED
      BY <3>1, <3>2, <3>3
  <2>7. Fits(plan)
    BY <2>5, <2>6 DEF Fits
  <2>8. Holds(q)
    BY <2>3, <2>7 DEF Holds, RefundPoints
  <2> QED
    BY <1>k, <2>4, <2>8
<1>7. CASE AskCount(r)
  <2>1. PICK q : q = Begin("ask", "askNet")
    OBVIOUS
  <2>2. q.pc = "askNet"
    BY <2>1 DEF Begin, Idle
  <2>3. PendingAsks = {}
    BY <1>7 DEF AskCount, PendingAsks
  <2>4. Holds(q)
    BY <2>2, <2>3 DEF Holds, RefundPoints
  <2> QED
    BY <1>7, <1>k, <2>1, <2>4 DEF AskCount
<1>8. ASSUME NEW i \in DOMAIN asks, NEW approve \in BOOLEAN, DecideRead(r, i, approve) PROVE Books'
  <2>1. PICK q1, q2 : /\ q1 = [Begin("approve", "settle") EXCEPT !.i = i]
                      /\ q2 = [Begin("reject", "writeAsk") EXCEPT !.i = i, !.put = "REJECTED"]
    OBVIOUS
  <2>2. q1.pc = "settle" /\ q1.plan = NoPlan /\ q2.pc = "writeAsk"
    BY <2>1 DEF Begin, Idle
  <2>3. Holds(q1) /\ Holds(q2)
    BY <2>2 DEF Holds, RefundPoints
  <2>4. Quiet /\ (Goto(r, q1) \/ Goto(r, q2))
    BY <1>8, <2>1 DEF DecideRead
  <2> QED
    BY <1>k, <2>3, <2>4
<1> QED
  BY <1>1, <1>2, <1>3, <1>4, <1>5, <1>6, <1>7, <1>8 DEF Arrive

LEMMA RefundReadBooks ==
  ASSUME Serial, IInv, Books, NEW r \in Requests,
         FindOpenRefund(r) \/ RefundRead(r) \/ RefundWrite(r) \/ ReverseRead(r)
  PROVE  Books'
<1>0. Shape /\ RowsInv /\ req[r] \in RequestDoc /\ Sound(req[r]) /\ Holds(req[r])
  BY InFlight DEF IInv, Books
<1>1. CASE FindOpenRefund(r)
  <2>1. PICK q : q = [req[r] EXCEPT !.pc = "createRefund"]
    OBVIOUS
  <2>2. q.pc = "createRefund" /\ q.p = req[r].p
    BY <1>0, <2>1 DEF RequestDoc
  <2>3. CASE Finish(r)
    BY <1>0, <1>1, <2>3, FinishBooks DEF FindOpenRefund, Quiet
  <2>4. CASE ~Finish(r)
    <3>1. OpenRefundsOf(q.p) = {} /\ Goto(r, q) /\ Quiet
      BY <1>1, <2>1, <2>2, <2>4 DEF FindOpenRefund, OpenRefundsOf
    <3>2. Holds(q)
      BY <2>2, <3>1 DEF Holds, RefundPoints
    <3> QED
      BY <1>0, <3>1, <3>2, QuietBooks DEF Quiet
  <2> QED
    BY <2>3, <2>4
<1>2. CASE RefundRead(r)
  <2>1. PICK q : q = [req[r] EXCEPT !.pc = "refundWrite", !.net = pay[req[r].p].refunded + req[r].x]
    OBVIOUS
  <2>2. q.pc = "refundWrite" /\ q.put = "CONFIRMED"
    BY <1>0, <1>2, <2>1 DEF RequestDoc, RefundRead, At, Holds, RefundPoints
  <2>3. Holds(q)
    BY <2>2 DEF Holds, RefundPoints
  <2>4. Quiet /\ (Finish(r) \/ Goto(r, q))
    BY <1>2, <2>1 DEF RefundRead
  <2> QED
    BY <1>0, <2>3, <2>4, FinishBooks, QuietBooks DEF Quiet
<1>3. CASE RefundWrite(r)
  <2>1. PICK q : q = [req[r] EXCEPT !.pc = "reverse", !.net = 0]
    OBVIOUS
  <2>2. q.pc = "reverse" /\ q.put = "CONFIRMED"
    BY <1>0, <1>3, <2>1 DEF RequestDoc, RefundWrite, At, Holds, RefundPoints
  <2>3. Holds(q)
    BY <2>2 DEF Holds, RefundPoints
  <2>4. Goto(r, q) /\ UNCHANGED <<row, refunds, payouts, asks>>
    BY <1>3, <2>1 DEF RefundWrite
  <2> QED
    BY <1>0, <2>3, <2>4, QuietBooks
<1>4. CASE ReverseRead(r)
  <2> DEFINE p == req[r].p
  <2>0. Quiet /\ req[r].pc = "reverse" /\ req[r].put = "CONFIRMED" /\ req[r].x \in Nat
    BY <1>0, <1>4 DEF ReverseRead, At, Holds, RefundPoints, RequestDoc
  <2>1. CASE Goto(r, [req[r] EXCEPT !.pc = "writeRefund"])
    <3>1. PICK q : q = [req[r] EXCEPT !.pc = "writeRefund"]
      OBVIOUS
    <3>2. q.pc = "writeRefund" /\ q.put = "CONFIRMED"
      BY <1>0, <2>0, <3>1 DEF RequestDoc
    <3>3. Holds(q)
      BY <3>2 DEF Holds, RefundPoints, OpenRefunds
    <3> QED
      BY <1>0, <2>0, <2>1, <3>1, <3>3, QuietBooks DEF Quiet
  <2>2. CASE ~Goto(r, [req[r] EXCEPT !.pc = "writeRefund"])
    <3>1. PICK q : q = [req[r] EXCEPT !.pc = "reverseWrite",
                          !.owed = row[p].reversed + ReversedShare(p, req[r].x)]
      OBVIOUS
    <3>2. p \in Cash /\ Goto(r, q)
      BY <1>4, <2>2, <3>1 DEF ReverseRead
    <3>3. /\ q.pc = "reverseWrite" /\ q.put = "CONFIRMED" /\ q.p = p
          /\ q.owed = row[p].reversed + ReversedShare(p, req[r].x)
      BY <1>0, <2>0, <3>1 DEF RequestDoc
    <3> HIDE DEF p
    <3>4. ReversedShare(p, req[r].x) \in Nat
      BY <1>0, <2>0, <3>2, ShareIsNat
    <3>5. /\ row[p].settled \in Nat /\ row[p].reversed \in Nat /\ Commission[p] \in Nat
          /\ Open(p) = Commission[p] - (row[p].settled + row[p].reversed) /\ Open(p) \in Nat
      BY <1>0, <3>2, OpenIs, Reads
    <3>6. ReversedShare(p, req[r].x) <= Open(p)
      <4>1. \A a, b : b \in Nat /\ Least(b, a) \in Nat => Least(b, a) <= b
        BY DEF Least
      <4> QED
        BY <3>4, <3>5, <4>1 DEF ReversedShare
    <3>7. row[p].settled + q.owed <= Commission[p]
      BY <3>3, <3>4, <3>5, <3>6
    <3>8. Holds(q)
      BY <3>2, <3>3, <3>7 DEF Holds, RefundPoints
    <3> QED
      BY <1>0, <2>0, <3>2, <3>8, QuietBooks DEF Quiet
  <2> QED
    BY <2>1, <2>2
<1> QED
  BY <1>1, <1>2, <1>3, <1>4

LEMMA SettleReadBooks ==
  ASSUME Serial, IInv, Books, NEW r \in Requests, SettleAll(r) \/ OwedRead(r) \/ PlanRead(r)
  PROVE  Books'
<1>0. Shape /\ RowsInv /\ req[r] \in RequestDoc /\ Sound(req[r]) /\ Holds(req[r])
  BY InFlight DEF IInv, Books
<1>1. CASE SettleAll(r)
  <2>1. PICK q : q = [req[r] EXCEPT !.pc = "owed", !.items = Settleable, !.net = NetOf(Settleable)]
    OBVIOUS
  <2>2. q.pc = "owed" /\ q.plan = NoPlan
    BY <1>0, <1>1, <2>1 DEF RequestDoc, SettleAll, At, Holds
  <2>3. Holds(q)
    BY <2>2 DEF Holds, RefundPoints
  <2>4. Quiet /\ (Finish(r) \/ Goto(r, q))
    BY <1>1, <2>1 DEF SettleAll
  <2> QED
    BY <1>0, <2>3, <2>4, FinishBooks, QuietBooks DEF Quiet
<1>2. CASE OwedRead(r)
  <2>1. PICK d : d = Least(Owed, req[r].net)
    OBVIOUS
  <2>2. PICK q : q = [req[r] EXCEPT !.owed = d, !.pc = IF d > 0 THEN "plan" ELSE "apply"]
    OBVIOUS
  <2>3. req[r].net \in Nat /\ Owed \in Nat
    BY <1>0, Reads DEF RequestDoc
  <2>4. d \in Nat /\ d <= Owed
    BY <2>1, <2>3 DEF Least
  <2>5. q.owed = d /\ q.pc = (IF d > 0 THEN "plan" ELSE "apply") /\ q.plan = NoPlan
    BY <1>0, <1>2, <2>2 DEF RequestDoc, OwedRead, At, Holds
  <2>6. Holds(q)
    <3>1. CASE d > 0
      <4>1. q.pc = "plan"
        BY <2>5, <3>1
      <4> QED
        BY <2>4, <2>5, <4>1 DEF Holds, RefundPoints
    <3>2. CASE d = 0
      <4>1. q.pc = "apply"
        BY <2>5, <3>2
      <4>2. Fits(q.plan) /\ Gain(q.plan) = 0
        BY <2>5, NothingPlanned
      <4> QED
        BY <2>5, <3>2, <4>1, <4>2 DEF Holds, RefundPoints
    <3> QED
      BY <2>4, <3>1, <3>2
  <2>7. Goto(r, q) /\ Quiet
    BY <1>2, <2>1, <2>2 DEF OwedRead
  <2> QED
    BY <1>0, <2>6, <2>7, QuietBooks DEF Quiet
<1>3. CASE PlanRead(r)
  <2>1. PICK plan : plan = Plan(req[r].owed)
    OBVIOUS
  <2>2. PICK q : q = [req[r] EXCEPT !.pc = "apply", !.plan = plan]
    OBVIOUS
  <2>3. q.pc = "apply" /\ q.plan = plan /\ q.owed = req[r].owed
    BY <1>0, <2>2 DEF RequestDoc
  <2>4. req[r].owed \in Nat /\ req[r].owed <= Owed
    BY <1>0, <1>3 DEF RequestDoc, PlanRead, At, Holds
  <2>5. Fits(plan) /\ Gain(plan) = req[r].owed
    BY <1>0, <2>1, <2>4, PlanFits
  <2>6. Holds(q)
    BY <2>3, <2>4, <2>5 DEF Holds, RefundPoints
  <2>7. Goto(r, q) /\ Quiet
    BY <1>3, <2>1, <2>2 DEF PlanRead
  <2> QED
    BY <1>0, <2>6, <2>7, QuietBooks DEF Quiet
<1> QED
  BY <1>1, <1>2, <1>3

LEMMA AskReadBooks ==
  ASSUME Serial, IInv, Books, NEW r \in Requests,
         AskNet(r) \/ AskOwed(r) \/ LegacyWrite(r) \/ Abort(r)
  PROVE  Books'
<1>0. Shape /\ req[r] \in RequestDoc /\ Holds(req[r])
  BY InFlight DEF IInv, Books
<1>1. CASE AskNet(r)
  <2>1. PICK q : q = [req[r] EXCEPT !.pc = "askOwed", !.net = NetOf(Settleable)]
    OBVIOUS
  <2>2. q.pc = "askOwed" /\ PendingAsks = {}
    BY <1>0, <1>1, <2>1 DEF RequestDoc, AskNet, At, Holds
  <2>3. Holds(q)
    BY <2>2 DEF Holds, RefundPoints
  <2>4. Goto(r, q) /\ Quiet
    BY <1>1, <2>1 DEF AskNet
  <2> QED
    BY <1>0, <2>3, <2>4, QuietBooks DEF Quiet
<1>2. CASE AskOwed(r)
  <2>1. PICK q : q = Begin("ask", "askCreate")
    OBVIOUS
  <2>2. q.pc = "askCreate"
    BY <2>1 DEF Begin, Idle
  <2>3. PendingAsks = {}
    BY <1>0, <1>2 DEF AskOwed, At, Holds
  <2>4. Holds(q)
    BY <2>2, <2>3 DEF Holds, RefundPoints
  <2>5. Quiet /\ (Finish(r) \/ Goto(r, q))
    BY <1>2, <2>1 DEF AskOwed
  <2> QED
    BY <1>0, <2>4, <2>5, FinishBooks, QuietBooks DEF Quiet
<1>3. CASE LegacyWrite(r)
  BY <1>0, <1>3, FinishBooks DEF LegacyWrite
<1>4. CASE Abort(r)
  BY <1>0, <1>4, FinishBooks DEF Abort, Quiet
<1> QED
  BY <1>1, <1>2, <1>3, <1>4

-----------------------------------------------------------------------------
\* A step that writes refund requests or withdrawals.
LEMMA RequestBooks ==
  ASSUME Serial, IInv, Books, NEW r \in Requests, Finish(r), UNCHANGED <<row, payouts>>, OneOpenAsk'
  PROVE  Books'
<1>1. RowsInv' /\ (Deducted <= Collected)'
  BY DEF Books, RowsInv, Deducted, Collected
<1>2. Goto(r, Idle) /\ Shape
  BY DEF Finish, IInv
<1> QED
  BY <1>1, <1>2, BooksAfter, IdleHolds

LEMMA RefundWriteBooks ==
  ASSUME Serial, IInv, Books, NEW r \in Requests, CreateRefund(r) \/ WriteRefund(r)
  PROVE  Books'
<1>0. /\ req[r] \in RequestDoc /\ Holds(req[r]) /\ OneOpenAsk
      /\ refunds \in Seq(RefundDoc) /\ Len(refunds) \in Nat /\ DOMAIN refunds = 1..Len(refunds)
  BY InFlight, LenProperties DEF IInv, Shape, Books
<1> DEFINE Opened(i) == refunds[i].status \in OpenRefunds
<1>1. SUFFICES \A i, j \in DOMAIN refunds' :
                 /\ refunds'[i].p = refunds'[j].p
                 /\ refunds'[i].status \in OpenRefunds /\ refunds'[j].status \in OpenRefunds
                 => i = j
  <2>1. Finish(r) /\ UNCHANGED <<row, payouts, asks>>
    BY DEF CreateRefund, WriteRefund
  <2>2. OneOpenAsk'
    BY <1>0, <1>1, <2>1 DEF OneOpenAsk
  <2> QED
    BY <2>1, <2>2, RequestBooks
<1>2. CASE CreateRefund(r)
  <2>1. PICK d : d = [p |-> req[r].p, x |-> req[r].x, status |-> "REQUESTED"]
    OBVIOUS
  <2>2. OpenRefundsOf(d.p) = {}
    BY <1>0, <1>2, <2>1 DEF CreateRefund, At, Holds
  <2>3. CASE refunds' = refunds
    BY <1>0, <2>3 DEF OneOpenAsk
  <2>4. CASE refunds' = Append(refunds, d)
    <3>1. /\ DOMAIN refunds' = 1..(Len(refunds) + 1)
          /\ \A i \in 1..Len(refunds) : refunds'[i] = refunds[i]
          /\ refunds'[Len(refunds) + 1] = d
      BY <1>0, <2>4
    <3>2. \A i \in 1..Len(refunds) : refunds[i].p = d.p => refunds[i].status \notin OpenRefunds
      BY <1>0, <2>2 DEF OpenRefundsOf
    <3> QED
      BY <1>0, <3>1, <3>2 DEF OneOpenAsk
  <2> QED
    BY <1>2, <2>1, <2>3, <2>4 DEF CreateRefund
<1>3. CASE WriteRefund(r)
  <2>1. PICK k, to : k = req[r].i /\ to = req[r].put
    OBVIOUS
  <2>2. refunds' = [refunds EXCEPT ![k].status = to]
    BY <1>3, <2>1 DEF WriteRefund
  <2>3. to \in OpenRefunds => k \in DOMAIN refunds /\ refunds[k].status \in OpenRefunds
    BY <1>0, <1>3, <2>1 DEF WriteRefund, At, Holds
  <2>4. DOMAIN refunds' = DOMAIN refunds
    BY <1>0, <2>2
  <2>5. \A i \in DOMAIN refunds : refunds[i] \in RefundDoc
    BY <1>0, ElementOfSeq
  <2>6. ASSUME NEW i \in DOMAIN refunds
        PROVE  /\ refunds'[i].p = refunds[i].p
               /\ refunds'[i].status \in OpenRefunds => refunds[i].status \in OpenRefunds
    <3>1. CASE i = k
      <4>1. refunds'[i] = [refunds[i] EXCEPT !.status = to]
        BY <1>0, <2>2, <3>1
      <4>2. refunds'[i].p = refunds[i].p /\ refunds'[i].status = to
        BY <2>5, <4>1 DEF RefundDoc
      <4> QED
        BY <2>3, <3>1, <4>2
    <3>2. CASE i # k
      BY <1>0, <2>2, <3>2
    <3> QED
      BY <3>1, <3>2
  <2> QED
    BY <1>0, <2>4, <2>6 DEF OneOpenAsk
<1> QED
  BY <1>2, <1>3

LEMMA AskWriteBooks ==
  ASSUME Serial, IInv, Books, NEW r \in Requests, AskCreate(r) \/ WriteAsk(r)
  PROVE  Books'
<1>0. /\ req[r] \in RequestDoc /\ Sound(req[r]) /\ Holds(req[r]) /\ OneOpenAsk
      /\ asks \in Seq(AskDoc) /\ Len(asks) \in Nat /\ DOMAIN asks = 1..Len(asks)
  BY InFlight, LenProperties DEF IInv, Shape, Books
<1>1. SUFFICES \A i, j \in DOMAIN asks' : asks'[i].status = "PENDING" /\ asks'[j].status = "PENDING" => i = j
  <2>1. Finish(r) /\ UNCHANGED <<row, payouts, refunds>>
    BY DEF AskCreate, WriteAsk
  <2>2. OneOpenAsk'
    BY <1>0, <1>1, <2>1 DEF OneOpenAsk
  <2> QED
    BY <2>1, <2>2, RequestBooks
<1>2. CASE AskCreate(r)
  <2>1. PICK d : d = [status |-> "PENDING", batch |-> None]
    OBVIOUS
  <2>2. PendingAsks = {}
    BY <1>0, <1>2 DEF AskCreate, At, Holds
  <2>3. CASE asks' = asks
    BY <1>0, <2>3 DEF OneOpenAsk
  <2>4. CASE asks' = Append(asks, d)
    <3>1. /\ DOMAIN asks' = 1..(Len(asks) + 1)
          /\ \A i \in 1..Len(asks) : asks'[i] = asks[i]
      BY <1>0, <2>4
    <3>2. \A i \in 1..Len(asks) : asks[i].status # "PENDING"
      BY <1>0, <2>2 DEF PendingAsks
    <3> QED
      BY <1>0, <3>1, <3>2
  <2> QED
    BY <1>2, <2>1, <2>3, <2>4 DEF AskCreate
<1>3. CASE WriteAsk(r)
  <2>1. PICK d : d = [status |-> req[r].put, batch |-> req[r].p]
    OBVIOUS
  <2>2. asks' = [asks EXCEPT ![req[r].i] = d] /\ d.status # "PENDING"
    BY <1>0, <1>3, <2>1 DEF WriteAsk, At, Sound
  <2>3. DOMAIN asks' = DOMAIN asks
        /\ \A i \in DOMAIN asks : asks'[i] = d \/ asks'[i] = asks[i]
    BY <1>0, <2>2
  <2> QED
    BY <1>0, <2>2, <2>3 DEF OneOpenAsk
<1> QED
  BY <1>2, <1>3

-----------------------------------------------------------------------------
\* Steps that write rows of the ledger.

LEMMA RowsGain ==
  ASSUME Shape, NEW g, \A p \in Cash : g[p] \in Nat /\ row'[p].settled = row[p].settled + g[p]
  PROVE  Collected' = Collected + Total(g, Cash) /\ Collected \in Nat /\ Total(g, Cash) \in Nat
<1> DEFINE f == [p \in Cash |-> row[p].settled]
           h == [p \in Cash |-> row'[p].settled]
<1>1. IsFiniteSet(Cash)
  BY Subsets, SettlementAssumption
<1>2. \A p \in Cash : f[p] \in Nat /\ g[p] \in Nat /\ h[p] = f[p] + g[p]
  BY Reads DEF RowDoc
<1>3. Collected = Total(f, Cash) /\ Collected' = Total(h, Cash)
  BY DEF Collected
<1> HIDE DEF f, h
<1>4. Total(h, Cash) = Total(f, Cash) + Total(g, Cash)
  BY <1>1, <1>2, SumOfTotals
<1>5. Total(f, Cash) \in Nat /\ Total(g, Cash) \in Nat
  BY <1>1, <1>2, DongIsFinite
<1> QED
  BY <1>3, <1>4, <1>5

LEMMA PlanGains ==
  ASSUME Shape, NEW plan, Fits(plan), NEW g,
         g = [p \in Cash |-> IF p \in DOMAIN plan THEN plan[p].settled - row[p].settled ELSE 0]
  PROVE  Total(g, Cash) = Gain(plan) /\ \A p \in Cash : g[p] \in Nat
<1> DEFINE D == DOMAIN plan
           d == [p \in D |-> plan[p].settled - row[p].settled]
<1>1. D \subseteq Cash /\ \A p \in D : plan[p].settled \in Nat /\ row[p].settled <= plan[p].settled
  BY DEF Fits
<1>2. \A p \in Cash : row[p].settled \in Nat
  BY Reads DEF RowDoc
<1>3. \A p \in Cash : g[p] \in Nat
  BY <1>1, <1>2
<1>4. \A p \in D : g[p] = d[p]
  BY <1>1
<1>5. \A p \in Cash \ D : g[p] = 0
  BY <1>1
<1>6. Gain(plan) = Total(d, D)
  BY DEF Gain
<1> HIDE DEF D, d
<1>7. Total(d, D) = Total(g, D)
  BY <1>4, SameTotal
<1>8. Dong(g, D) = Dong(g, Cash)
  <2>1. \A p \in Cash \ D : {p} \X (1..g[p]) = {}
    BY <1>5
  <2> QED
    BY <1>1, <2>1 DEF Dong
<1>9. Total(g, D) = Total(g, Cash)
  BY <1>8 DEF Total
<1> QED
  BY <1>3, <1>6, <1>7, <1>9

LEMMA PayoutDeducts ==
  ASSUME Shape, NEW d, d.deducted \in Nat, payouts' = Append(payouts, d)
  PROVE  Deducted' = Deducted + d.deducted /\ Deducted \in Nat
<1> DEFINE n == Len(payouts)
           S == 1..n
           f == [b \in S |-> payouts[b].deducted]
           h == [b \in S \union {n + 1} |-> payouts'[b].deducted]
<1>1. /\ payouts \in Seq(PayoutDoc) /\ n \in Nat /\ DOMAIN payouts = S
      /\ DOMAIN payouts' = S \union {n + 1} /\ n + 1 \notin S
      /\ \A b \in S : payouts'[b] = payouts[b] /\ payouts[b] \in PayoutDoc
      /\ payouts'[n + 1] = d
  <2>1. payouts \in Seq(PayoutDoc) /\ n \in Nat /\ DOMAIN payouts = S
    BY LenProperties DEF Shape
  <2>2. \A b \in S : payouts[b] \in PayoutDoc
    BY <2>1, ElementOfSeq
  <2> QED
    BY <2>1, <2>2
<1>2. \A b \in S \union {n + 1} : h[b] = (IF b = n + 1 THEN d.deducted ELSE payouts[b].deducted) /\ h[b] \in Nat
  BY <1>1 DEF PayoutDoc
<1>3. \A b \in S : f[b] = h[b] /\ f[b] \in Nat
  BY <1>1, <1>2
<1>4. Deducted = Total(f, S) /\ Deducted' = Total(h, S \union {n + 1})
  BY <1>1 DEF Deducted
<1>5. IsFiniteSet(S)
  <2>1. n \in Int /\ 1 \in Int
    BY <1>1
  <2> QED
    BY <2>1, FS_Interval
<1>6. h[n + 1] = d.deducted
  BY <1>1, <1>2
<1> DEFINE x == n + 1
<1>7. x \notin S /\ \A b \in S \union {x} : h[b] \in Nat
  BY <1>1, <1>2
<1> HIDE DEF f, h, S, n, x
<1>8. Total(h, S \union {x}) = Total(h, S) + h[x]
  BY <1>5, <1>7, TotalWith
<1>9. Total(h, S) = Total(f, S) /\ Total(f, S) \in Nat
  BY <1>3, <1>5, SameTotal, DongIsFinite
<1> QED
  BY <1>4, <1>6, <1>8, <1>9 DEF x

LEMMA ReverseBooks ==
  ASSUME Serial, IInv, Books, NEW r \in Requests, ReverseWrite(r)
  PROVE  Books'
<1>0. Shape /\ RowsInv /\ req[r] \in RequestDoc /\ Holds(req[r])
  BY InFlight DEF IInv, Books
<1>1. PICK k, n : k = req[r].p /\ n = req[r].owed
  OBVIOUS
<1>2. PICK q : q = [req[r] EXCEPT !.pc = "writeRefund", !.owed = 0]
  OBVIOUS
<1>3. k \in Cash /\ row[k].settled + n <= Commission[k] /\ req[r].put = "CONFIRMED" /\ n \in Nat
  BY <1>0, <1>1 DEF ReverseWrite, At, Holds, RefundPoints, RequestDoc
<1>4. q.pc = "writeRefund" /\ q.put = "CONFIRMED"
  BY <1>0, <1>2, <1>3 DEF RequestDoc
<1>5. Holds(q)'
  BY <1>4 DEF Holds, RefundPoints, OpenRefunds
<1>6. row' = [row EXCEPT ![k].reversed = n] /\ row \in [Cash -> RowDoc]
      /\ Goto(r, q) /\ UNCHANGED <<refunds, payouts, asks>>
  BY <1>0, <1>1, <1>2 DEF ReverseWrite, Shape
<1>7. \A p \in Cash : /\ row'[p].settled = row[p].settled
                      /\ row'[p].reversed = IF p = k THEN n ELSE row[p].reversed
  BY <1>3, <1>6 DEF RowDoc
<1>8. RowsInv'
  BY <1>0, <1>3, <1>7 DEF RowsInv
<1>9. Deducted' = Deducted /\ Collected' = Collected
  <2>1. [p \in Cash |-> row'[p].settled] = [p \in Cash |-> row[p].settled]
    BY <1>7
  <2> QED
    BY <1>6, <2>1 DEF Deducted, Collected
<1>10. (Deducted <= Collected)' /\ OneOpenAsk'
  BY <1>6, <1>9 DEF Books, OneOpenAsk
<1> QED
  BY <1>0, <1>5, <1>6, <1>8, <1>10, BooksAfter

LEMMA ApplyBooks ==
  ASSUME Serial, IInv, Books, NEW r \in Requests, Apply(r)
  PROVE  Books'
<1>0. /\ Shape /\ RowsInv /\ OneOpenAsk /\ Deducted <= Collected
      /\ req[r] \in RequestDoc /\ Holds(req[r]) /\ req[r].pc = "apply"
  BY InFlight DEF IInv, Books, Apply, At
<1>1. CASE Finish(r) /\ UNCHANGED <<pay, row, batches, payouts>>
  BY <1>0, <1>1, FinishBooks DEF Apply
<1>2. CASE ~(Finish(r) /\ UNCHANGED <<pay, row, batches, payouts>>)
  <2>1. PICK plan : plan = req[r].plan
    OBVIOUS
  <2>2. PICK d : d = [net |-> req[r].net, deducted |-> req[r].owed,
                      ask |-> IF req[r].op = "approve" THEN req[r].i ELSE 0]
    OBVIOUS
  <2>3. /\ payouts' = Append(payouts, d) /\ UNCHANGED <<refunds, asks>>
        /\ row' = [p \in Cash |-> IF p \in DOMAIN plan
                     THEN [row[p] EXCEPT !.settled = plan[p].settled, !.status = plan[p].status]
                     ELSE row[p]]
    BY <1>2, <2>1, <2>2 DEF Apply
  <2>4. d.deducted = req[r].owed /\ d.deducted \in Nat
    BY <1>0, <2>2 DEF RequestDoc
  <2>5. Fits(plan) /\ d.deducted <= Gain(plan)
    BY <1>0, <2>1, <2>4 DEF Holds
  <2>6. PICK g : g = [p \in Cash |-> IF p \in DOMAIN plan THEN plan[p].settled - row[p].settled ELSE 0]
    OBVIOUS
  <2>7. \A p \in Cash : /\ row'[p].settled = IF p \in DOMAIN plan THEN plan[p].settled ELSE row[p].settled
                        /\ row'[p].reversed = row[p].reversed
                        /\ row[p].settled \in Nat
    <3>1. \A p \in Cash : row[p] \in RowDoc
      BY <1>0, Reads
    <3> QED
      BY <2>3, <3>1 DEF RowDoc
  <2>8. Total(g, Cash) = Gain(plan) /\ \A p \in Cash : g[p] \in Nat
    BY <1>0, <2>5, <2>6, PlanGains
  <2>9. \A p \in Cash : row'[p].settled = row[p].settled + g[p]
    <3>1. \A p \in DOMAIN plan : plan[p].settled \in Nat
      BY <2>5 DEF Fits
    <3> QED
      BY <2>6, <2>7, <3>1
  <2>10. Collected' = Collected + Gain(plan) /\ Collected \in Nat /\ Gain(plan) \in Nat
    BY <1>0, <2>8, <2>9, RowsGain
  <2>11. Deducted' = Deducted + d.deducted /\ Deducted \in Nat
    BY <1>0, <2>3, <2>4, PayoutDeducts
  <2>12. (Deducted <= Collected)'
    BY <1>0, <2>4, <2>5, <2>10, <2>11
  <2>13. RowsInv'
    BY <1>0, <2>5, <2>7 DEF RowsInv, Fits
  <2>14. OneOpenAsk'
    BY <1>0, <2>3 DEF OneOpenAsk
  <2>15. PICK q : q = [Begin("approve", "writeAsk") EXCEPT
                         !.i = req[r].i, !.p = Len(batches) + 1, !.put = "PAID"]
    OBVIOUS
  <2>16. q.pc = "writeAsk"
    BY <2>15 DEF Begin, Idle
  <2>17. Holds(q)'
    BY <2>16 DEF Holds, RefundPoints
  <2>18. Goto(r, Idle) \/ Goto(r, q)
    BY <1>2, <2>15 DEF Apply, Finish
  <2> QED
    BY <1>0, <2>12, <2>13, <2>14, <2>17, <2>18, BooksAfter, IdleHolds
<1> QED
  BY <1>1, <1>2

LEMMA DirectBooks ==
  ASSUME Serial, IInv, Books, NEW r \in Requests, SettleDirectWrite(r)
  PROVE  Books'
<1>0. /\ Shape /\ RowsInv /\ OneOpenAsk /\ Deducted <= Collected
      /\ req[r] \in RequestDoc /\ Holds(req[r]) /\ req[r].pc = "directWrite"
  BY InFlight DEF IInv, Books, SettleDirectWrite, At
<1>1. PICK plan : plan = req[r].plan
  OBVIOUS
<1>2. Fits(plan)
  BY <1>0, <1>1 DEF Holds
<1>3. PICK k \in DOMAIN plan :
        /\ row' = [row EXCEPT ![k].settled = plan[k].settled, ![k].status = plan[k].status]
        /\ \/ Finish(r)
           \/ Goto(r, [req[r] EXCEPT !.plan = [o \in DOMAIN plan \ {k} |-> plan[o]]])
  BY <1>1 DEF SettleDirectWrite
<1>4. UNCHANGED <<refunds, payouts, asks>>
  BY DEF SettleDirectWrite
<1>5. \A p \in Cash : /\ row'[p].settled = IF p = k THEN plan[k].settled ELSE row[p].settled
                      /\ row'[p].reversed = row[p].reversed /\ row[p].settled \in Nat
  <2>1. row \in [Cash -> RowDoc]
    BY <1>0 DEF Shape
  <2> QED
    BY <1>3, <2>1 DEF RowDoc
<1>6. k \in Cash /\ plan[k].settled \in Nat /\ row[k].settled <= plan[k].settled
      /\ plan[k].settled + row[k].reversed <= Commission[k]
  BY <1>2, <1>3 DEF Fits
<1>7. RowsInv'
  BY <1>0, <1>5, <1>6 DEF RowsInv
<1>8. (Deducted <= Collected)'
  <2>1. PICK g : g = [p \in Cash |-> IF p = k THEN plan[k].settled - row[k].settled ELSE 0]
    OBVIOUS
  <2>2. \A p \in Cash : g[p] \in Nat /\ row'[p].settled = row[p].settled + g[p]
    BY <1>5, <1>6, <2>1
  <2>3. Collected' = Collected + Total(g, Cash) /\ Collected \in Nat /\ Total(g, Cash) \in Nat
    BY <1>0, <2>2, RowsGain
  <2>4. Deducted' = Deducted
    BY <1>4 DEF Deducted
  <2>5. Deducted \in Nat
    <3>1. payouts \in Seq(PayoutDoc) /\ Len(payouts) \in Nat /\ DOMAIN payouts = 1..Len(payouts)
      BY <1>0, LenProperties DEF Shape
    <3>2. \A b \in DOMAIN payouts : payouts[b] \in PayoutDoc
      BY <3>1, ElementOfSeq
    <3>3. Len(payouts) \in Int /\ 1 \in Int
      BY <3>1
    <3>4. IsFiniteSet(DOMAIN payouts)
      BY <3>1, <3>3, FS_Interval
    <3> DEFINE f == [b \in DOMAIN payouts |-> payouts[b].deducted]
    <3>5. \A b \in DOMAIN payouts : f[b] \in Nat
      BY <3>2 DEF PayoutDoc
    <3> HIDE DEF f
    <3>6. Total(f, DOMAIN payouts) \in Nat
      BY <3>4, <3>5, DongIsFinite
    <3> QED
      BY <3>6 DEF f, Deducted
  <2> QED
    BY <1>0, <2>3, <2>4, <2>5
<1>9. OneOpenAsk'
  BY <1>0, <1>4 DEF OneOpenAsk
<1>10. CASE Finish(r)
  BY <1>0, <1>7, <1>8, <1>9, <1>10, BooksAfter, IdleHolds DEF Finish
<1>11. CASE Goto(r, [req[r] EXCEPT !.plan = [o \in DOMAIN plan \ {k} |-> plan[o]]])
  <2>1. PICK rest : rest = [o \in DOMAIN plan \ {k} |-> plan[o]]
    OBVIOUS
  <2>2. PICK q : q = [req[r] EXCEPT !.plan = rest]
    OBVIOUS
  <2>3. q.pc = "directWrite" /\ q.plan = rest
    BY <1>0, <2>2 DEF RequestDoc
  <2>4. Fits(rest)'
    BY <1>2, <1>5, <2>1 DEF Fits
  <2>5. Holds(q)'
    BY <2>3, <2>4 DEF Holds, RefundPoints
  <2> QED
    BY <1>0, <1>7, <1>8, <1>9, <1>11, <2>1, <2>2, <2>5, BooksAfter
<1> QED
  BY <1>3, <1>10, <1>11

LEMMA NextBooks == Serial /\ IInv /\ Books /\ [Next]_vars => Books'
<1> SUFFICES ASSUME Serial, IInv, Books, [Next]_vars PROVE Books'
  OBVIOUS
<1>1. ASSUME NEW p \in Payments, Receive(p) \/ LedgerCreate(p) PROVE Books'
  BY <1>1, ChargeBooks
<1>2. ASSUME NEW r \in Requests, Handle(r) PROVE Books'
  BY <1>2, RefundReadBooks, SettleReadBooks, AskReadBooks, RefundWriteBooks, AskWriteBooks,
     ReverseBooks, ApplyBooks, DirectBooks DEF Handle
<1>3. ASSUME NEW r \in Requests, Arrive(r) \/ Abort(r) PROVE Books'
  BY <1>3, ArriveBooks, AskReadBooks
<1>4. CASE UNCHANGED vars
  <2>1. UNCHANGED <<row, refunds, payouts, asks, req>>
    BY <1>4 DEF vars
  <2>2. \A r \in Requests : Holds(req[r]) /\ req'[r] = req[r]
    BY <2>1 DEF Books
  <2> QED
    BY <2>1, <2>2, SameBooks DEF Books
<1> QED
  BY <1>1, <1>2, <1>3, <1>4 DEF Next

\* While one call ends before the next begins, the ledger never takes more than the
\* commission of a charge, what the payouts deducted was taken on it, a charge has one
\* open refund and the payee one pending withdrawal, for any charges and amounts and
\* wherever a call dies (commissionRepository, refundService, payoutService).
THEOREM BooksStayBalanced == ASSUME Serial PROVE Spec => []BooksBalance
<1>1. Books => BooksBalance
  BY BooksAre DEF Books, BooksBalance
<1>2. IInv /\ Books /\ [Next]_vars => Books'
  BY NextBooks
<1>3. Spec => []Books
  BY InitBooks, Invariance, <1>2, PTL DEF Spec
<1> QED
  BY <1>1, <1>3, PTL
=============================================================================
