----------------------------- MODULE Settlement -----------------------------
(***************************************************************************)
(* What happens to one payee's received charges: refunds of them, the      *)
(* commission ledger of the cash ones, payout batches and the withdrawal   *)
(* requests that trigger them (refundService, commissionRepository,        *)
(* payoutService, payoutRepository and adminService.payout).               *)
(*                                                                         *)
(* As in Payments a handler in flight is a record req[r] that remembers    *)
(* what it read.  applySettlement is the only transaction; every other     *)
(* write stores absolute values computed from those earlier reads.         *)
(***************************************************************************)
EXTENDS Naturals, Sequences, FiniteSets

CONSTANTS
  Requests,       \* slots for HTTP requests in flight
  Payments,       \* the payee's charges, numbered in order of createdAt
  Cash,           \* those paid in cash: their commission goes to the ledger
  Amount,         \* Amount[p]: what the rider paid
  Commission,     \* Commission[p]: the platform's share of it
  MaxRefunds,     \* bound: refund requests ever filed
  MaxBatches,     \* bound: payout batches ever written
  MaxWithdrawals, \* bound: withdrawal requests ever filed
  MaxStamps,      \* bound: payouts of one charge
  Faults          \* TRUE when calls may throw and instances may die

ASSUME SettlementAssumption ==
  /\ IsFiniteSet(Payments) /\ Payments \subseteq Nat \ {0}
  /\ Cash \subseteq Payments
  /\ Amount \in [Payments -> Nat \ {0}]
  /\ Commission \in [Payments -> Nat]
  /\ \A p \in Payments : Commission[p] <= Amount[p]
  /\ {MaxRefunds, MaxBatches, MaxWithdrawals} \subseteq Nat /\ MaxStamps \in Nat \ {0}
  /\ Faults \in BOOLEAN

None == 0                    \* no batch

ReceivedStatuses == {"HELD", "CONFIRMED", "PARTIAL"}
OpenRefunds == {"REQUESTED", "APPROVED", "SENT"}

VARIABLES
  pay,      \* pay[p]: status, refundAmount and payoutBatchId of a charge, and how
            \* many times its payoutAt was written (0: it is null)
  row,      \* row[p]: its commission_ledger entry, status "NONE" when there is none
  refunds,  \* the refund requests
  batches,  \* the payouts collection: the charges each batch lists,
  payouts,  \* and what it says of the money and of the withdrawal it is for
  asks,     \* the payout_requests (withdrawals)
  req       \* req[r]: the request in flight in slot r

vars == <<pay, row, refunds, batches, payouts, asks, req>>

NoPlan == [p \in {} |-> 0]

Idle == [op |-> "none", pc |-> "idle", i |-> 0, p |-> 0, x |-> 0, put |-> "NONE",
         items |-> {}, net |-> 0, owed |-> 0, plan |-> NoPlan]

Init ==
  /\ pay = [p \in Payments |-> [status |-> "NONE", refunded |-> 0, at |-> 0, batch |-> None]]
  /\ row = [p \in Cash |-> [status |-> "NONE", settled |-> 0, reversed |-> 0]]
  /\ refunds = <<>> /\ batches = <<>> /\ payouts = <<>> /\ asks = <<>>
  /\ req = [r \in Requests |-> Idle]

-----------------------------------------------------------------------------
(* What the handlers compute from a read.                                  *)

Less(a, b) == IF a > b THEN a - b ELSE 0
Least(a, b) == IF a < b THEN a ELSE b

\* The sum of f[p] over S, counted dong by dong.
Dong(f, S) == UNION {{p} \X (1..f[p]) : p \in S}
Total(f, S) == Cardinality(Dong(f, S))

Received(p) == pay[p].status \in ReceivedStatuses

\* Mutant of Stamped: only the batch counts, not a legacy single payout.
StampedByBatch(p) == pay[p].batch # None

Stamped(p) == pay[p].at > 0 \/ pay[p].batch # None
Settleable == {p \in Payments : Received(p) /\ ~Stamped(p)}

\* netFor, and what is left to refund of a charge.
Net(p) == Less(Amount[p] - Commission[p], pay[p].refunded)
Refundable(p) == Less(Amount[p], pay[p].refunded)

\* openAmountOf, and the payee's OWED rows.
Open(p) == Less(Commission[p], row[p].settled + row[p].reversed)
OwedRows == {p \in Cash : row[p].status = "OWED"}
Owed == Total([p \in OwedRows |-> Open(p)], OwedRows)

\* planSettlement walks the rows oldest first: what it applies to row p of an
\* amount is what the older rows leave of it, up to what is open.
Applied(p, amount) ==
  Least(Open(p), Less(amount, Total([o \in OwedRows |-> Open(o)], {o \in OwedRows : o < p})))

\* Mutant of Plan: only rows that close are updated.
PlanClosedOnly(amount) ==
  [p \in {o \in OwedRows : Applied(o, amount) = Open(o)} |->
     [settled |-> row[p].settled + Open(p), status |-> "SETTLED"]]

\* The new settledAmount and status of every row that gets something.
Plan(amount) ==
  [p \in {o \in OwedRows : Applied(o, amount) > 0} |->
     LET next == row[p].settled + Applied(p, amount) IN
     [settled |-> next,
      status |-> IF next + row[p].reversed >= Commission[p] THEN "SETTLED" ELSE "OWED"]]

\* Mutant of ReversedShare: the share is not capped at what is still open.
ReversedShareUncapped(p, x) == (2 * Commission[p] * x + Amount[p]) \div (2 * Amount[p])

\* The proportional share of a refund: Math.round(commission * refund / amount),
\* capped at what is open.
ReversedShare(p, x) ==
  Least(Open(p), (2 * Commission[p] * x + Amount[p]) \div (2 * Amount[p]))

-----------------------------------------------------------------------------
(* Moving a request.                                                       *)

Goto(r, next) == req' = [req EXCEPT ![r] = next]
At(r, pc) == req[r].pc = pc
Finish(r) == Goto(r, Idle)
Begin(op, pc) == [Idle EXCEPT !.op = op, !.pc = pc]
Quiet == UNCHANGED <<pay, row, refunds, batches, payouts, asks>>

-----------------------------------------------------------------------------
(* Charges are received; the ledger row of a cash charge is a later write, *)
(* which may be lost.                                                      *)

Receive(p) ==
  /\ pay[p].status = "NONE"
  /\ pay' = [pay EXCEPT ![p].status = IF p \in Cash THEN "CONFIRMED" ELSE "HELD"]
  /\ UNCHANGED <<row, refunds, batches, payouts, asks, req>>

LedgerCreate(p) ==
  /\ p \in Cash /\ pay[p].status # "NONE" /\ Commission[p] > 0
  /\ row[p].status = "NONE"
  /\ row' = [row EXCEPT ![p].status = "OWED"]
  /\ UNCHANGED <<pay, refunds, batches, payouts, asks, req>>

-----------------------------------------------------------------------------
(* POST /refunds/request                                                   *)

RequestRefundRead(r, p, x) ==
  /\ At(r, "idle") /\ Len(refunds) < MaxRefunds
  /\ Received(p) /\ x \in 1..Refundable(p)
  /\ Goto(r, [Begin("requestRefund", "findOpen") EXCEPT !.p = p, !.x = x])
  /\ Quiet

\* Mutant of FindOpenRefund: the open request is not looked for.
FindNoRefund(r) ==
  /\ At(r, "findOpen")
  /\ Goto(r, [req[r] EXCEPT !.pc = "createRefund"])
  /\ Quiet

\* findOpenByPaymentId: an open request is the answer.
FindOpenRefund(r) ==
  /\ At(r, "findOpen")
  /\ IF \E i \in DOMAIN refunds : refunds[i].p = req[r].p /\ refunds[i].status \in OpenRefunds
     THEN Finish(r)
     ELSE Goto(r, [req[r] EXCEPT !.pc = "createRefund"])
  /\ Quiet

CreateRefund(r) ==
  /\ At(r, "createRefund")
  /\ refunds' = IF Len(refunds) = MaxRefunds THEN refunds   \* past the bound the call fails
                ELSE Append(refunds, [p |-> req[r].p, x |-> req[r].x, status |-> "REQUESTED"])
  /\ Finish(r)
  /\ UNCHANGED <<pay, row, batches, payouts, asks>>

-----------------------------------------------------------------------------
(* decideRefund, markRefundSent and failRefund check the status they read  *)
(* and write theirs later.                                                 *)

\* failRefund: a transfer that does not arrive, approved or already sent.
Failable(i) == refunds[i].status \in {"APPROVED", "SENT"}

DecideRefundRead(r, i, to) ==
  /\ At(r, "idle")
  /\ \/ to \in {"APPROVED", "REJECTED"} /\ refunds[i].status = "REQUESTED"
     \/ to = "SENT" /\ refunds[i].status = "APPROVED"
     \/ to = "FAILED" /\ Failable(i)
  /\ Goto(r, [Begin("decideRefund", "writeRefund") EXCEPT !.i = i, !.put = to])
  /\ Quiet

\* refundRepository.update: the last step of every decision and confirmation.
WriteRefund(r) ==
  /\ At(r, "writeRefund")
  /\ refunds' = [refunds EXCEPT ![req[r].i].status = req[r].put]
  /\ Finish(r)
  /\ UNCHANGED <<pay, row, batches, payouts, asks>>

-----------------------------------------------------------------------------
(* confirmRefund: the payment, then the ledger, then the request.          *)

ConfirmRefundRead(r, i) ==
  /\ At(r, "idle")
  /\ refunds[i].status \in {"APPROVED", "SENT"}
  /\ Goto(r, [Begin("confirmRefund", "refund") EXCEPT
                !.i = i, !.p = refunds[i].p, !.x = refunds[i].x, !.put = "CONFIRMED"])
  /\ Quiet

\* Mutant of RefundRead: the amount approved is not checked against what is left.
RefundReadUnchecked(r) ==
  /\ At(r, "refund")
  /\ Goto(r, [req[r] EXCEPT !.pc = "refundWrite", !.net = pay[req[r].p].refunded + req[r].x])
  /\ Quiet

\* paymentService.refund reads the charge again: the amount must still be left
\* of it, or the confirmation is refused.
RefundRead(r) ==
  /\ At(r, "refund")
  /\ LET p == req[r].p IN
     IF Received(p) /\ req[r].x <= Refundable(p)
     THEN Goto(r, [req[r] EXCEPT !.pc = "refundWrite", !.net = pay[p].refunded + req[r].x])
     ELSE Finish(r)
  /\ Quiet

\* ... and writes the total that read gave, and the status that goes with it.
RefundWrite(r) ==
  /\ At(r, "refundWrite")
  /\ LET p == req[r].p IN
     pay' = [pay EXCEPT ![p].refunded = req[r].net,
               ![p].status = IF req[r].net >= Amount[p] THEN "REFUNDED" ELSE "PARTIAL"]
  /\ Goto(r, [req[r] EXCEPT !.pc = "reverse", !.net = 0])
  /\ UNCHANGED <<row, refunds, batches, payouts, asks>>

\* reverseForRefund reads the row and plans its new reversedAmount ...
ReverseRead(r) ==
  /\ At(r, "reverse")
  /\ LET p == req[r].p IN
     IF p \in Cash /\ row[p].status # "NONE" /\ ReversedShare(p, req[r].x) > 0
     THEN Goto(r, [req[r] EXCEPT !.pc = "reverseWrite",
                     !.owed = row[p].reversed + ReversedShare(p, req[r].x)])
     ELSE Goto(r, [req[r] EXCEPT !.pc = "writeRefund"])
  /\ Quiet

\* ... and writes it, leaving settledAmount and the status alone.
ReverseWrite(r) ==
  /\ At(r, "reverseWrite")
  /\ row' = [row EXCEPT ![req[r].p].reversed = req[r].owed]
  /\ Goto(r, [req[r] EXCEPT !.pc = "writeRefund", !.owed = 0])
  /\ UNCHANGED <<pay, refunds, batches, payouts, asks>>

-----------------------------------------------------------------------------
(* settleBatch: POST /admin/payouts/batch, or an approved withdrawal.      *)

NetOf(S) == Total([p \in S |-> Net(p)], S)

\* The charges the admin lists, each of them settleable, with their net ...
SettleSome(r, S) ==
  /\ At(r, "idle")
  /\ S # {} /\ S \subseteq Settleable
  /\ Goto(r, [Begin("batch", "owed") EXCEPT !.items = S, !.net = NetOf(S)])
  /\ Quiet

\* ... or, for a withdrawal, all the payee has.
SettleAll(r) ==
  /\ At(r, "settle")
  /\ IF Settleable = {} THEN Finish(r)
     ELSE Goto(r, [req[r] EXCEPT !.pc = "owed", !.items = Settleable, !.net = NetOf(Settleable)])
  /\ Quiet

\* owedTotalByPayee gives what is deducted ...
OwedRead(r) ==
  /\ At(r, "owed")
  /\ LET deducted == Least(Owed, req[r].net) IN
     Goto(r, [req[r] EXCEPT !.owed = deducted, !.pc = IF deducted > 0 THEN "plan" ELSE "apply"])
  /\ Quiet

\* ... and planSettlement reads the rows again to plan their new values.
PlanRead(r) ==
  /\ At(r, "plan")
  /\ Goto(r, [req[r] EXCEPT !.pc = "apply", !.plan = Plan(req[r].owed)])
  /\ Quiet

\* Mutant of Applicable: the transaction does not look at the rows again.
ApplicableCharges(r) ==
  \A p \in req[r].items : Received(p) /\ ~Stamped(p)

\* What applySettlement reads inside its transaction.
Applicable(r) ==
  /\ \A p \in req[r].items : Received(p) /\ ~Stamped(p)
  /\ \A p \in DOMAIN req[r].plan : row[p].status = "OWED"

\* payoutAt and payoutBatchId of every charge of the batch.
Stamp(items, b) ==
  [p \in Payments |->
     IF p \in items THEN [pay[p] EXCEPT !.at = pay[p].at + 1, !.batch = b] ELSE pay[p]]

\* applySettlement: the batch, every stamp and every row in one transaction.
Apply(r) ==
  /\ At(r, "apply")
  /\ \/ /\ Applicable(r) /\ Len(batches) < MaxBatches
        /\ batches' = Append(batches, req[r].items)
        /\ payouts' = Append(payouts, [net |-> req[r].net, deducted |-> req[r].owed,
                                       ask |-> IF req[r].op = "approve" THEN req[r].i ELSE 0])
        /\ pay' = Stamp(req[r].items, Len(batches) + 1)
        /\ row' = [p \in Cash |-> IF p \in DOMAIN req[r].plan
                     THEN [row[p] EXCEPT !.settled = req[r].plan[p].settled,
                                         !.status = req[r].plan[p].status]
                     ELSE row[p]]
        /\ IF req[r].op = "approve"
           THEN Goto(r, [Begin("approve", "writeAsk") EXCEPT
                           !.i = req[r].i, !.p = Len(batches) + 1, !.put = "PAID"])
           ELSE Finish(r)
     \/ /\ ~Applicable(r) \/ Len(batches) = MaxBatches   \* past the bound the call fails
        /\ Finish(r) /\ UNCHANGED <<pay, row, batches, payouts>>
  /\ UNCHANGED <<refunds, asks>>

-----------------------------------------------------------------------------
(* The other ways a charge or a row is closed.                             *)

\* adminService.payout, the legacy stamp of one charge: neither payoutAt nor
\* payoutBatchId is looked at, so that a charge already paid is paid again.
LegacyRead(r, p) ==
  /\ At(r, "idle") /\ Received(p) /\ pay[p].at < MaxStamps
  /\ Goto(r, [Begin("legacy", "legacyWrite") EXCEPT !.p = p])
  /\ Quiet

LegacyWrite(r) ==
  /\ At(r, "legacyWrite")
  /\ LET p == req[r].p IN
     pay' = IF pay[p].at = MaxStamps THEN pay      \* past the bound the call fails
            ELSE [pay EXCEPT ![p].at = pay[p].at + 1]
  /\ Finish(r)
  /\ UNCHANGED <<row, refunds, batches, payouts, asks>>

\* settleDirect: the payee transferred the commission; every open row that the
\* one read found is closed, one write each.
SettleDirectRead(r) ==
  /\ At(r, "idle")
  /\ LET open == {p \in OwedRows : Open(p) > 0} IN
     /\ open # {}
     /\ Goto(r, [Begin("direct", "directWrite") EXCEPT !.plan =
          [p \in open |-> [settled |-> row[p].settled + Open(p), status |-> "SETTLED"]]])
  /\ Quiet

SettleDirectWrite(r) ==
  /\ At(r, "directWrite")
  /\ \E p \in DOMAIN req[r].plan :
       LET plan == req[r].plan
           left == DOMAIN plan \ {p} IN
       /\ \A o \in left : p < o
       /\ row' = [row EXCEPT ![p].settled = plan[p].settled,
                               ![p].status = plan[p].status]
       /\ IF left = {} THEN Finish(r)
          ELSE Goto(r, [req[r] EXCEPT !.plan = [o \in left |-> plan[o]]])
  /\ UNCHANGED <<pay, refunds, batches, payouts, asks>>

-----------------------------------------------------------------------------
(* Withdrawals.  The amount asked for is recorded and never used to settle,*)
(* so only whether some amount was available matters.                      *)

\* Mutant of AskCount: pending requests are not counted.
AskUncounted(r) ==
  /\ At(r, "idle") /\ Len(asks) < MaxWithdrawals
  /\ Goto(r, Begin("ask", "askNet"))
  /\ Quiet

AskCount(r) ==
  /\ At(r, "idle") /\ Len(asks) < MaxWithdrawals
  /\ ~\E i \in DOMAIN asks : asks[i].status = "PENDING"
  /\ Goto(r, Begin("ask", "askNet"))
  /\ Quiet

AskNet(r) ==
  /\ At(r, "askNet")
  /\ Goto(r, [req[r] EXCEPT !.pc = "askOwed", !.net = NetOf(Settleable)])
  /\ Quiet

AskOwed(r) ==
  /\ At(r, "askOwed")
  /\ IF Less(req[r].net, Owed) > 0 THEN Goto(r, Begin("ask", "askCreate")) ELSE Finish(r)
  /\ Quiet

AskCreate(r) ==
  /\ At(r, "askCreate")
  /\ asks' = IF Len(asks) = MaxWithdrawals THEN asks   \* past the bound the call fails
             ELSE Append(asks, [status |-> "PENDING", batch |-> None])
  /\ Finish(r)
  /\ UNCHANGED <<pay, row, refunds, batches, payouts>>

\* decideRequest: a rejection is one write, an approval settles first.
DecideRead(r, i, approve) ==
  /\ At(r, "idle") /\ asks[i].status = "PENDING"
  /\ Goto(r, IF approve THEN [Begin("approve", "settle") EXCEPT !.i = i]
             ELSE [Begin("reject", "writeAsk") EXCEPT !.i = i, !.put = "REJECTED"])
  /\ Quiet

WriteAsk(r) ==
  /\ At(r, "writeAsk")
  /\ asks' = [asks EXCEPT ![req[r].i] = [status |-> req[r].put, batch |-> req[r].p]]
  /\ Finish(r)
  /\ UNCHANGED <<pay, row, refunds, batches, payouts>>

-----------------------------------------------------------------------------
\* A call threw, or the instance died: the rest of the request never happens.
Abort(r) ==
  /\ Faults /\ ~At(r, "idle")
  /\ Finish(r)
  /\ Quiet

-----------------------------------------------------------------------------
Handle(r) ==
  \/ FindOpenRefund(r) \/ CreateRefund(r) \/ WriteRefund(r)
  \/ RefundRead(r) \/ RefundWrite(r) \/ ReverseRead(r) \/ ReverseWrite(r)
  \/ SettleAll(r) \/ OwedRead(r) \/ PlanRead(r) \/ Apply(r)
  \/ LegacyWrite(r) \/ SettleDirectWrite(r)
  \/ AskNet(r) \/ AskOwed(r) \/ AskCreate(r) \/ WriteAsk(r)

Arrive(r) ==
  \/ \E p \in Payments : \E x \in 1..Amount[p] : RequestRefundRead(r, p, x)
  \/ \E i \in DOMAIN refunds : \E to \in {"APPROVED", "REJECTED", "SENT", "FAILED"} :
       DecideRefundRead(r, i, to)
  \/ \E i \in DOMAIN refunds : ConfirmRefundRead(r, i)
  \/ \E S \in SUBSET Payments : SettleSome(r, S)
  \/ \E p \in Payments : LegacyRead(r, p)
  \/ SettleDirectRead(r)
  \/ AskCount(r)
  \/ \E i \in DOMAIN asks : \E approve \in BOOLEAN : DecideRead(r, i, approve)

Next ==
  \/ \E p \in Payments : Receive(p) \/ LedgerCreate(p)
  \/ \E r \in Requests : Arrive(r) \/ Handle(r) \/ Abort(r)

Spec == Init /\ [][Next]_vars

-----------------------------------------------------------------------------
(* What must hold.                                                         *)

\* Every document and request record has its shape, and money is never negative.
TypeOK ==
  /\ pay \in [Payments -> [status : ReceivedStatuses \union {"NONE", "REFUNDED"},
                           refunded : Nat, at : Nat, batch : 0..MaxBatches]]
  /\ row \in [Cash -> [status : {"NONE", "OWED", "SETTLED"}, settled : Nat, reversed : Nat]]
  /\ Len(refunds) <= MaxRefunds
  /\ \A i \in DOMAIN refunds :
       /\ refunds[i].p \in Payments /\ refunds[i].x \in 1..Amount[refunds[i].p]
       /\ refunds[i].status \in OpenRefunds \union {"REJECTED", "CONFIRMED", "FAILED"}
  /\ Len(batches) <= MaxBatches /\ DOMAIN payouts = DOMAIN batches
  /\ \A b \in DOMAIN payouts :
       /\ payouts[b].net \in Nat /\ payouts[b].deducted \in 0..payouts[b].net
       /\ payouts[b].ask = 0 \/ payouts[b].ask \in DOMAIN asks
  /\ Len(asks) <= MaxWithdrawals
  /\ \A i \in DOMAIN asks : asks[i].status \in {"PENDING", "PAID", "REJECTED"}

\* A charge is paid out by the batch it is stamped with and by no other: no
\* two batches, concurrent or not, and no failure between them share one.
StampNamesBatch ==
  \A p \in Payments : \A b \in DOMAIN batches :
    p \in batches[b] <=> pay[p].batch = b

\* The refunds applied to a charge never exceed what the rider paid, however
\* many requests, confirmations and retries there are.
RefundWithinAmount ==
  \A p \in Payments :
    /\ pay[p].refunded <= Amount[p]
    /\ pay[p].status = "REFUNDED" <=> pay[p].refunded = Amount[p]

\* A row of the ledger that a batch or a transfer closed is never open again.
SettledStaysSettledStep ==
  \A p \in Cash : row[p].status = "SETTLED" => row'[p].status = "SETTLED"
SettledStaysSettled == [][SettledStaysSettledStep]_vars

\* The platform never collects more than the commission of a charge: what was
\* deducted or transferred and what a refund gave back fit in it; and what the
\* batches deducted from the payee was settled on the ledger.
LedgerAddsUp ==
  /\ \A p \in Cash : row[p].settled + row[p].reversed <= Commission[p]
  /\ Total([b \in DOMAIN payouts |-> payouts[b].deducted], DOMAIN payouts)
       <= Total([p \in Cash |-> row[p].settled], Cash)

OneOpenAsk ==
  /\ \A i, j \in DOMAIN refunds :
       /\ refunds[i].p = refunds[j].p
       /\ refunds[i].status \in OpenRefunds /\ refunds[j].status \in OpenRefunds
       => i = j
  /\ \A i, j \in DOMAIN asks : asks[i].status = "PENDING" /\ asks[j].status = "PENDING" => i = j

\* While calls come one after another the commission books balance as above, a charge
\* has one open refund request and the payee one pending withdrawal, wherever a call
\* dies (commissionRepository, refundService, payoutService).
BooksBalance == LedgerAddsUp /\ OneOpenAsk

\* What the payee and the auditor rely on (module PayoutBatches): no batch pays a
\* charge that an earlier batch or an administrator's stamp has paid, even one
\* that came while the batch was being computed; a batch pays all it lists at once
\* and no later step edits it; whatever refunds, retries and crashes interleave.
\* The stamp itself (adminService.payout) promises less: it pays a charge again
\* that a batch or another stamp paid before, and is the only step that does.
Promise == INSTANCE PayoutBatches WITH
  received <- {p \in Payments : Received(p)}, times <- [p \in Payments |-> pay[p].at]
ImplementsPromise == Promise!Spec
=============================================================================
