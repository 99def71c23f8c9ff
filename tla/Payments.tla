------------------------------ MODULE Payments ------------------------------
(***************************************************************************)
(* The charges of one dispatch ticket: paymentService, its method switch,  *)
(* its deposits and the payment repository.                                *)
(*                                                                         *)
(* Every handler reads Firestore, decides on what it read, and writes      *)
(* later, so a handler in flight is a record req[r]: the operation, the    *)
(* program point, and what it remembers of its reads.  Only createGuarded  *)
(* and updateStatusWhen are transactions; every other write is             *)
(* unconditional.  A single slot in Requests is a server that handles one  *)
(* request at a time; two slots are two Cloud Run instances.               *)
(***************************************************************************)
EXTENDS Naturals

CONSTANTS
  Requests,    \* slots for HTTP requests in flight
  MaxCharges,  \* bound: payment documents the ticket may ever get
  Bills,       \* the amounts the ticket can be billed
  Deposit,     \* the ticket's depositAmount, 0 when it has none
  Nobody,      \* confirmedBy of a charge nobody confirmed
  Faults       \* TRUE when calls may throw and instances may die

ASSUME PaymentsAssumption ==
  /\ MaxCharges \in Nat
  /\ Bills \subseteq Nat \ {0} /\ Bills # {}
  /\ Deposit \in Nat
  /\ Nobody \notin Requests
  /\ Faults \in BOOLEAN

Charges == 1..MaxCharges
None == 0                    \* no charge: a missing guard or stamp

ReceivedStatuses == {"HELD", "CONFIRMED", "PARTIAL"}
ActiveStatuses == ReceivedStatuses \union {"PENDING"}
Statuses == ActiveStatuses \union {"REFUNDED", "CANCELLED"}

VARIABLES
  charge,   \* charge[c]: the payment documents, numbered in order of createdAt
  created,  \* how many of them exist
  guard,    \* payment_guards/{ticketId}: the charge it names, or None
  ticket,   \* the fields of the ticket that payments read and stamp
  sepay,    \* sepay[c]: the order of the charge at the gateway (external)
  rows,     \* rows[c]: commission_ledger entries written for the charge
  req,      \* req[r]: the request in flight in slot r
  health    \* "faulted" once a call threw or an instance died (history)

vars == <<charge, created, guard, ticket, sepay, rows, req, health>>

Blank == [purpose |-> "BALANCE", method |-> "CASH", status |-> "NONE",
          amount |-> 0, refunded |-> 0, by |-> Nobody]

Idle == [op |-> "none", pc |-> "idle", c |-> None, m |-> "CASH", amt |-> 0,
         net |-> 0, put |-> "NONE", seen |-> "NONE", todo |-> {}]

Init ==
  /\ charge = [c \in Charges |-> Blank]
  /\ created = 0
  /\ guard = None
  /\ \E b \in Bills :
       ticket = [payable |-> TRUE, quote |-> b, invoice |-> None, agreed |-> FALSE,
                 deposit |-> "NONE", depositCharge |-> None, paymentId |-> None, status |-> "NONE"]
  /\ sepay = [c \in Charges |-> "none"]
  /\ rows = [c \in Charges |-> 0]
  /\ req = [r \in Requests |-> Idle]
  /\ health = "fine"

-----------------------------------------------------------------------------
(* Reading the ticket's charges.                                           *)

Active(c) == charge[c].status \in ActiveStatuses
OnTicket == 1..created
\* billableAmountFor: the invoice the rider agreed to, or else the quote.
Bill == IF ticket.agreed THEN ticket.invoice ELSE ticket.quote
DepositsIn(S) == {c \in OnTicket : charge[c].purpose = "DEPOSIT" /\ charge[c].status \in S}
BalancesIn(S) == {c \in OnTicket : charge[c].purpose = "BALANCE" /\ charge[c].status \in S}
\* Mutant of PendingCash: any pending charge counts as cash.
PendingCashAnyMethod == {c \in OnTicket : charge[c].status = "PENDING"}

PendingCash == {c \in OnTicket : charge[c].method = "CASH" /\ charge[c].status = "PENDING"}

\* Mutant of GuardIsActive: a pending charge does not block another.
GuardIsReceived == \E c \in OnTicket : guard = c /\ charge[c].status \in ReceivedStatuses

GuardIsActive == \E c \in OnTicket : guard = c /\ Active(c)

\* Array.find over a list sorted newest first.
Newest(c, S) == c \in S /\ \A d \in S : d <= c

\* depositCreditFor: only a collected deposit lowers the balance.
Credit == IF ticket.deposit = "CONFIRMED" THEN Deposit ELSE 0

Less(a, b) == IF a > b THEN a - b ELSE 0

-----------------------------------------------------------------------------
(* Moving a request.                                                       *)

Goto(r, next) == req' = [req EXCEPT ![r] = next]
At(r, pc) == req[r].pc = pc
Finish(r) == Goto(r, Idle)
Begin(r, op, pc) == [Idle EXCEPT !.op = op, !.pc = pc]
Quiet == UNCHANGED <<charge, created, guard, ticket, sepay, rows, health>>
\* A call threw or an instance died; Smooth is a step of neither.
Fault == Faults /\ health' = "faulted"
Smooth == UNCHANGED health

\* asReused: the same method answers with the charge and, for SePay, stamps
\* the ticket again; another method is a conflict.
AsReused(r, c) ==
  IF charge[c].method = req[r].m /\ req[r].m = "SEPAY"
  THEN Goto(r, [req[r] EXCEPT !.pc = "stamp", !.c = c, !.seen = charge[c].status])
  ELSE Finish(r)

-----------------------------------------------------------------------------
(* POST /payments/create                                                   *)

\* The ticket is read first; the expected amount is fixed from what it says.
CreateRead(r, m) ==
  /\ At(r, "idle") /\ ticket.payable
  /\ Goto(r, [Begin(r, "create", "scan") EXCEPT
                !.m = m, !.amt = Less(Bill, Credit)])
  /\ Quiet

CreateSettled(r) ==
  /\ req[r].amt = 0
  /\ \/ DepositsIn({"HELD", "CONFIRMED"}) # {}
     \/ BalancesIn(Statuses) # {}

\* Then the ticket's charges: one of them answers the request, must be
\* cancelled first (a switch of method), or there is none in the way.
CreateScan(r) ==
  /\ At(r, "scan")
  /\ \/ /\ CreateSettled(r) \/ DepositsIn({"PENDING"}) # {}
        /\ Finish(r)
     \/ /\ ~CreateSettled(r) /\ DepositsIn({"PENDING"}) = {}
        /\ \E a \in OnTicket :
             /\ Newest(a, BalancesIn(ActiveStatuses))
             /\ IF charge[a].method = req[r].m THEN AsReused(r, a)
                ELSE IF charge[a].status # "PENDING" THEN Finish(r)
                ELSE Goto(r, [req[r] EXCEPT !.op = "switch", !.c = a, !.put = "CANCELLED",
                       !.pc = IF charge[a].method = "SEPAY" THEN "cancelOrder" ELSE "write"])
     \/ /\ ~CreateSettled(r) /\ DepositsIn({"PENDING"}) = {}
        /\ BalancesIn(ActiveStatuses) = {}
        /\ Goto(r, [req[r] EXCEPT !.pc = "guard"])
  /\ Quiet

\* createGuarded, one transaction: the guard's charge when it is active,
\* whatever its purpose; otherwise a new charge and a guard that names it.
CreateGuarded(r) ==
  /\ At(r, "guard")
  /\ LET deposit == req[r].op = "deposit" IN
     \/ /\ GuardIsActive
        /\ IF deposit THEN Goto(r, [req[r] EXCEPT !.pc = "depositStamp", !.c = guard])
           ELSE AsReused(r, guard)
        /\ Quiet
     \/ /\ ~GuardIsActive
        /\ created < MaxCharges
        /\ created' = created + 1
        /\ guard' = created + 1
        /\ charge' = [charge EXCEPT ![created + 1] =
             [Blank EXCEPT !.purpose = IF deposit THEN "DEPOSIT" ELSE "BALANCE",
                           !.method = req[r].m, !.amount = req[r].amt, !.status = "PENDING"]]
        /\ Goto(r, [req[r] EXCEPT !.c = created + 1, !.seen = "PENDING",
                      !.pc = IF deposit THEN "depositStamp" ELSE "stamp"])
        /\ UNCHANGED <<ticket, sepay, rows, health>>
     \/ /\ ~GuardIsActive /\ created = MaxCharges   \* past the bound the call fails
        /\ Finish(r) /\ Quiet

-----------------------------------------------------------------------------
(* POST /payments/cancel, and the sweep of pending charges that quotes,    *)
(* disputes and a ticket's cancellation run.                               *)

CancelRead(r) ==
  /\ At(r, "idle")
  /\ \E a \in OnTicket :
       /\ Newest(a, BalancesIn(ActiveStatuses))
       /\ charge[a].status = "PENDING"
       /\ Goto(r, [Begin(r, "cancel", IF charge[a].method = "SEPAY" THEN "cancelOrder"
                                      ELSE "write") EXCEPT !.c = a, !.put = "CANCELLED"])
  /\ Quiet

\* sepayService.cancelOrder: a missing or an already cancelled order is
\* success, a captured one a conflict; a failed call may have reached SePay.
CancelOrder(r) ==
  /\ At(r, "cancelOrder")
  /\ LET c == req[r].c
         voided == [sepay EXCEPT ![c] = IF @ = "open" THEN "void" ELSE @]
     IN \/ /\ sepay[c] # "captured"
           /\ sepay' = voided
           /\ Goto(r, [req[r] EXCEPT !.pc = "write"]) /\ Smooth
        \/ /\ sepay[c] = "captured" /\ Finish(r) /\ UNCHANGED sepay /\ Smooth
        \/ /\ Fault /\ sepay' \in {sepay, voided} /\ Finish(r)
  /\ UNCHANGED <<charge, created, guard, ticket, rows>>

\* cancelPendingPayments.  closing: the caller has just cancelled the ticket.
SweepRead(r, closing) ==
  /\ At(r, "idle")
  /\ ticket' = [ticket EXCEPT !.payable = @ /\ ~closing]
  /\ Goto(r, [Begin(r, "sweep", "next") EXCEPT !.put = "CANCELLED"])
  /\ UNCHANGED <<charge, created, guard, sepay, rows, health>>

SweepPending(r) ==
  /\ At(r, "next") /\ req[r].op = "sweep"
  /\ LET pending == {c \in OnTicket : charge[c].status = "PENDING"} IN
     IF pending = {} THEN Finish(r)
     ELSE Goto(r, [req[r] EXCEPT !.pc = "sweep", !.todo = pending])
  /\ Quiet

SweepNext(r) ==
  /\ At(r, "sweep")
  /\ IF req[r].todo = {} THEN Finish(r)
     ELSE \E c \in req[r].todo :
            /\ Newest(c, req[r].todo)
            /\ Goto(r, [req[r] EXCEPT !.pc = "write", !.c = c, !.todo = @ \ {c}])
  /\ Quiet

-----------------------------------------------------------------------------
(* The steps that those and later operations share.                        *)

\* Only a refund writes refundAmount along with the status.
Refunded(r) == IF req[r].op = "refund" THEN req[r].amt ELSE charge[req[r].c].refunded

\* Mutant of WriteStatus: a refund returns without stamping the ticket.
WriteStatusNoStamp(r) ==
  /\ At(r, "write")
  /\ charge' = [charge EXCEPT ![req[r].c] =
       [@ EXCEPT !.status = req[r].put, !.refunded = Refunded(r)]]
  /\ IF req[r].op = "refund" THEN Finish(r) ELSE Goto(r, [req[r] EXCEPT !.pc = "reread"])
  /\ UNCHANGED <<created, guard, ticket, sepay, rows, health>>

\* updateStatus: whatever the status is now, it becomes req[r].put.
WriteStatus(r) ==
  /\ At(r, "write")
  /\ charge' = [charge EXCEPT ![req[r].c] =
       [@ EXCEPT !.status = req[r].put, !.refunded = Refunded(r)]]
  /\ Goto(r, [req[r] EXCEPT !.pc = "reread"])
  /\ UNCHANGED <<created, guard, ticket, sepay, rows, health>>

\* Mutant of Reread: any write to a deposit confirms it on the ticket.
RereadAnyDeposit(r) ==
  /\ At(r, "reread")
  /\ LET c == req[r].c IN
     Goto(r, [req[r] EXCEPT !.seen = charge[c].status,
       !.pc = CASE charge[c].purpose = "DEPOSIT" -> "depositConfirm"
                [] req[r].op = "confirm" /\ charge[c].amount > 0 -> "ledger"
                [] OTHER -> "stamp"])
  /\ Quiet

\* ... and returns the document as a second read finds it.
Reread(r) ==
  /\ At(r, "reread")
  /\ LET c == req[r].c IN
     Goto(r, [req[r] EXCEPT !.seen = charge[c].status,
       !.pc = CASE req[r].op = "ipn" /\ charge[c].purpose = "DEPOSIT" -> "depositConfirm"
                [] req[r].op = "confirm" /\ charge[c].amount > 0 -> "ledger"
                [] OTHER -> "stamp"])
  /\ Quiet

\* stampTicketPayment: the ticket carries the charge and the status that the
\* request remembers; a deposit is not stamped and a failed stamp is ignored.
StampTicket(r) ==
  /\ At(r, "stamp")
  /\ LET c == req[r].c IN
     \/ /\ charge[c].purpose # "DEPOSIT"
        /\ ticket' = [ticket EXCEPT !.paymentId = c, !.status = req[r].seen] /\ Smooth
     \/ charge[c].purpose = "DEPOSIT" /\ UNCHANGED ticket /\ Smooth
     \/ Fault /\ UNCHANGED ticket
  /\ CASE req[r].put \in {"CANCELLED", "REFUNDED"} -> Goto(r, [req[r] EXCEPT !.pc = "guardRead"])
       [] req[r].op = "invoice" -> Goto(r, [req[r] EXCEPT !.pc = "invoiceWrite"])
       [] OTHER -> Finish(r)
  /\ UNCHANGED <<charge, created, guard, sepay, rows>>

AfterGuard(r) ==
  CASE req[r].op = "switch" -> Goto(r, [req[r] EXCEPT !.op = "create", !.pc = "guard",
                                          !.put = "NONE"])
    [] req[r].op = "sweep" -> Goto(r, [req[r] EXCEPT !.pc = "sweep"])
    [] OTHER -> Finish(r)

\* clearGuard reads the guard and deletes it only if it names this charge ...
GuardRead(r) ==
  /\ At(r, "guardRead")
  /\ IF guard = req[r].c THEN Goto(r, [req[r] EXCEPT !.pc = "guardDelete"])
     ELSE AfterGuard(r)
  /\ Quiet

\* ... but the delete is a write of its own, outside any transaction.
GuardDelete(r) ==
  /\ At(r, "guardDelete")
  /\ guard' = None
  /\ AfterGuard(r)
  /\ UNCHANGED <<charge, created, ticket, sepay, rows, health>>

-----------------------------------------------------------------------------
(* POST /payments/confirm-cash                                             *)

ConfirmRead(r) ==
  /\ At(r, "idle")
  /\ \E c \in OnTicket :
       /\ Newest(c, PendingCash)
       /\ Goto(r, [Begin(r, "confirm", "cas") EXCEPT !.c = c])
  /\ Quiet

\* Mutant of ConfirmCas: the read status is trusted, the write unconditional.
ConfirmUnchecked(r) ==
  /\ At(r, "cas")
  /\ charge' = [charge EXCEPT ![req[r].c] = [@ EXCEPT !.status = "CONFIRMED", !.by = r]]
  /\ Goto(r, [req[r] EXCEPT !.pc = "reread"])
  /\ UNCHANGED <<created, guard, ticket, sepay, rows, health>>

\* updateStatusWhen, one transaction: PENDING to CONFIRMED or nothing.
ConfirmCas(r) ==
  /\ At(r, "cas")
  /\ LET c == req[r].c IN
     IF charge[c].status = "PENDING"
     THEN /\ charge' = [charge EXCEPT ![c] = [@ EXCEPT !.status = "CONFIRMED", !.by = r]]
          /\ Goto(r, [req[r] EXCEPT !.pc = "reread"])
     ELSE UNCHANGED charge /\ Finish(r)
  /\ UNCHANGED <<created, guard, ticket, sepay, rows, health>>

\* commissionRepository.create looks for the payment's row before it adds one;
\* an error in either call is swallowed.
LedgerRead(r) ==
  /\ At(r, "ledger")
  /\ \/ /\ Goto(r, [req[r] EXCEPT !.pc = IF rows[req[r].c] = 0 THEN "ledgerWrite" ELSE "stamp"])
        /\ Smooth
     \/ Fault /\ Goto(r, [req[r] EXCEPT !.pc = "stamp"])
  /\ UNCHANGED <<charge, created, guard, ticket, sepay, rows>>

LedgerWrite(r) ==
  /\ At(r, "ledgerWrite")
  /\ \/ rows' = [rows EXCEPT ![req[r].c] = @ + 1] /\ Smooth
     \/ Fault /\ UNCHANGED rows
  /\ Goto(r, [req[r] EXCEPT !.pc = "stamp"])
  /\ UNCHANGED <<charge, created, guard, ticket, sepay>>

-----------------------------------------------------------------------------
(* The SePay rail.  The gateway is external: it opens an order when the    *)
(* rider's page submits its form, captures an open order once, and calls   *)
(* the IPN for a captured order any number of times.                       *)

\* buildSepayCheckoutPage: the page is served for a pending SePay charge.
ServeCheckout(c) ==
  /\ c \in OnTicket
  /\ charge[c].method = "SEPAY" /\ charge[c].status = "PENDING"
  /\ sepay[c] = "none"
  /\ sepay' = [sepay EXCEPT ![c] = "served"]
  /\ UNCHANGED <<charge, created, guard, ticket, rows, req, health>>

SubmitForm(c) ==
  /\ sepay[c] = "served"
  /\ sepay' = [sepay EXCEPT ![c] = "open"]
  /\ UNCHANGED <<charge, created, guard, ticket, rows, req, health>>

Capture(c) ==
  /\ sepay[c] = "open"
  /\ sepay' = [sepay EXCEPT ![c] = "captured"]
  /\ UNCHANGED <<charge, created, guard, ticket, rows, req, health>>

\* Mutant of IpnRead: the callback is idempotent but takes any other status.
IpnReadAnyStatus(r, c) ==
  /\ At(r, "idle") /\ sepay[c] = "captured"
  /\ charge[c].status \notin {"HELD", "CONFIRMED"}
  /\ Goto(r, [Begin(r, "ipn", "write") EXCEPT !.c = c, !.put = "HELD"])
  /\ Quiet

\* handleSepayIpn: only a PENDING charge goes on to be held.  The amount check
\* always passes, a SePay charge's amount never changes.
IpnRead(r, c) ==
  /\ At(r, "idle") /\ sepay[c] = "captured"
  /\ charge[c].status = "PENDING"
  /\ Goto(r, [Begin(r, "ipn", "write") EXCEPT !.c = c, !.put = "HELD"])
  /\ Quiet

\* markDepositConfirmed
DepositConfirm(r) ==
  /\ At(r, "depositConfirm")
  /\ ticket' = [ticket EXCEPT !.deposit = "CONFIRMED"]
  /\ Finish(r)
  /\ UNCHANGED <<charge, created, guard, sepay, rows, health>>

-----------------------------------------------------------------------------
(* POST /bookings/deposit/request: createDepositPayment.                   *)

DepositRead(r) ==
  /\ At(r, "idle") /\ Deposit > 0
  /\ DepositsIn(ActiveStatuses) = {}
  /\ Goto(r, [Begin(r, "deposit", "guard") EXCEPT !.m = "SEPAY", !.amt = Deposit])
  /\ Quiet

DepositStamp(r) ==
  /\ At(r, "depositStamp")
  /\ ticket' = [ticket EXCEPT !.deposit = "REQUESTED", !.depositCharge = req[r].c]
  /\ Finish(r)
  /\ UNCHANGED <<charge, created, guard, sepay, rows, health>>

-----------------------------------------------------------------------------
(* paymentService.refund, and the amended invoice of a work order.         *)

RefundRead(r, c, x) ==
  /\ At(r, "idle")
  /\ charge[c].status \in ReceivedStatuses
  /\ x \in 1..Less(charge[c].amount, charge[c].refunded)
  /\ LET total == charge[c].refunded + x IN
     Goto(r, [Begin(r, "refund", "write") EXCEPT !.c = c, !.amt = total,
                !.put = IF total >= charge[c].amount THEN "REFUNDED" ELSE "PARTIAL"])
  /\ Quiet

\* updateWorkOrder: a total other than the quote is refused once the ticket is funded,
\* and adjusts the pending charge; the quote's own total changes no charge.
InvoiceRead(r, total) ==
  /\ At(r, "idle") /\ ticket.payable
  /\ total = ticket.quote
       \/ ~\E c \in OnTicket :
             \/ charge[c].method = "CASH" /\ charge[c].status = "CONFIRMED"
             \/ charge[c].method = "SEPAY" /\ charge[c].status \in {"HELD", "CONFIRMED"}
  /\ Goto(r, [Begin(r, "invoice", IF total = ticket.quote THEN "invoiceWrite" ELSE "adjust")
                EXCEPT !.amt = total, !.net = Less(total, Credit)])
  /\ Quiet

\* adjustPendingCashAmount: find the pending cash charge ...
AdjustRead(r) ==
  /\ At(r, "adjust")
  /\ \/ /\ PendingCash = {}
        /\ Goto(r, [req[r] EXCEPT !.pc = "invoiceWrite"])
     \/ \E c \in OnTicket :
          /\ Newest(c, PendingCash)
          /\ Goto(r, [req[r] EXCEPT !.pc = "adjustWrite", !.c = c, !.seen = "PENDING"])
  /\ Quiet

\* Mutant of AdjustWrite: the whole charge that was read is written back.
AdjustWriteBack(r) ==
  /\ At(r, "adjustWrite")
  /\ charge' = [charge EXCEPT ![req[r].c] =
       [@ EXCEPT !.amount = req[r].net, !.status = req[r].seen]]
  /\ Goto(r, [req[r] EXCEPT !.pc = "stamp"])
  /\ UNCHANGED <<created, guard, ticket, sepay, rows, health>>

\* ... and rewrite its amount and its commission split, not its status.
AdjustWrite(r) ==
  /\ At(r, "adjustWrite")
  /\ charge' = [charge EXCEPT ![req[r].c] = [@ EXCEPT !.amount = req[r].net]]
  /\ Goto(r, [req[r] EXCEPT !.pc = "stamp"])
  /\ UNCHANGED <<created, guard, ticket, sepay, rows, health>>

\* The invoice waits for the rider, unless it comes to the quote.
InvoiceWrite(r) ==
  /\ At(r, "invoiceWrite")
  /\ ticket' = [ticket EXCEPT !.invoice = req[r].amt, !.agreed = (req[r].amt = ticket.quote)]
  /\ Finish(r)
  /\ UNCHANGED <<charge, created, guard, sepay, rows, health>>

\* approveInvoice: the rider agrees to an invoice other than the quote, and to the one
\* that is there by the time it is written.
ApproveRead(r) ==
  /\ At(r, "idle") /\ ticket.invoice # None /\ ~ticket.agreed
  /\ Goto(r, Begin(r, "approve", "agree"))
  /\ Quiet

ApproveWrite(r) ==
  /\ At(r, "agree")
  /\ ticket' = [ticket EXCEPT !.agreed = TRUE]
  /\ Finish(r)
  /\ UNCHANGED <<charge, created, guard, sepay, rows, health>>

\* A call threw, or the instance died: the rest of the request never happens.
Abort(r) ==
  /\ Fault /\ ~At(r, "idle")
  /\ Finish(r)
  /\ UNCHANGED <<charge, created, guard, ticket, sepay, rows>>

-----------------------------------------------------------------------------
Handle(r) ==
  \/ CreateScan(r) \/ CreateGuarded(r)
  \/ CancelOrder(r) \/ SweepPending(r) \/ SweepNext(r)
  \/ WriteStatus(r) \/ Reread(r) \/ StampTicket(r) \/ GuardRead(r) \/ GuardDelete(r)
  \/ ConfirmCas(r) \/ LedgerRead(r) \/ LedgerWrite(r)
  \/ DepositConfirm(r) \/ DepositStamp(r)
  \/ AdjustRead(r) \/ AdjustWrite(r) \/ InvoiceWrite(r) \/ ApproveWrite(r)

Arrive(r) ==
  \/ \E m \in {"CASH", "SEPAY"} : CreateRead(r, m)
  \/ CancelRead(r)
  \/ \E closing \in BOOLEAN : SweepRead(r, closing)
  \/ ConfirmRead(r)
  \/ \E c \in Charges : IpnRead(r, c)
  \/ DepositRead(r)
  \/ \E c \in Charges : \E x \in 1..charge[c].amount : RefundRead(r, c, x)
  \/ \E total \in Bills : InvoiceRead(r, total)
  \/ ApproveRead(r)

Gateway(c) == ServeCheckout(c) \/ SubmitForm(c) \/ Capture(c)

Next ==
  \/ \E r \in Requests : Arrive(r) \/ Handle(r) \/ Abort(r)
  \/ \E c \in Charges : Gateway(c)

Spec == Init /\ [][Next]_vars

-----------------------------------------------------------------------------
(* What must hold.                                                         *)

Ops == {"none", "create", "switch", "cancel", "sweep", "ipn", "confirm",
        "deposit", "refund", "invoice", "approve"}
Points == {"idle", "scan", "cancelOrder", "write", "reread", "stamp", "guardRead",
           "guardDelete", "guard", "next", "sweep", "cas", "ledger", "ledgerWrite",
           "depositConfirm", "depositStamp", "adjust", "adjustWrite", "invoiceWrite", "agree"}

ChargeDoc ==
  [purpose : {"BALANCE", "DEPOSIT"}, method : {"CASH", "SEPAY"},
   status : Statuses \union {"NONE"}, amount : Nat, refunded : Nat,
   by : Requests \union {Nobody}]

TicketDoc ==
  [payable : BOOLEAN, quote : Bills, invoice : Bills \union {None}, agreed : BOOLEAN,
   deposit : {"NONE", "REQUESTED", "CONFIRMED"}, depositCharge : 0..MaxCharges, paymentId : 0..MaxCharges,
   status : Statuses \union {"NONE"}]

RequestDoc ==
  [op : Ops, pc : Points, c : 0..MaxCharges, m : {"CASH", "SEPAY"}, amt : Nat, net : Nat,
   put : Statuses \union {"NONE"}, seen : Statuses \union {"NONE"}, todo : SUBSET Charges]

\* Every document, stamp and request record has its shape.
TypeOK ==
  /\ charge \in [Charges -> ChargeDoc]
  /\ created \in 0..MaxCharges
  /\ guard \in 0..MaxCharges
  /\ ticket \in TicketDoc
  /\ sepay \in [Charges -> {"none", "served", "open", "captured", "void"}]
  /\ rows \in [Charges -> Nat]
  /\ req \in [Requests -> RequestDoc]
  /\ health \in {"fine", "faulted"}

\* Two devices of the payee, or a retry, never both confirm the cash of a
\* charge: the first confirmedBy stays, whatever interleaves with it.
CashConfirmedOnceStep ==
  \A c \in Charges : charge[c].by # Nobody => charge'[c].by = charge[c].by
CashConfirmedOnce == [][CashConfirmedOnceStep]_vars

\* A charge that was paid, cancelled or refunded is never payable again: no
\* stale write of an amended invoice or a late cancel brings PENDING back.
NeverPendingAgainStep ==
  \A c \in OnTicket : charge[c].status # "PENDING" => charge'[c].status # "PENDING"
NeverPendingAgain == [][NeverPendingAgainStep]_vars

\* Whatever says that money came in is backed by money, through every interleaving
\* of cancels, switches, cash confirmations and callbacks: a SePay charge is received
\* only when SePay captured it, a deposit is credited only when one was captured, and
\* a commission is owed once, for cash that somebody confirmed.
MoneyIsBacked ==
  /\ \A c \in OnTicket :
       charge[c].method = "SEPAY" /\ charge[c].status \in ReceivedStatuses \union {"REFUNDED"}
         => sepay[c] = "captured"
  /\ ticket.deposit = "CONFIRMED" =>
       \E c \in OnTicket : charge[c].purpose = "DEPOSIT" /\ sepay[c] = "captured"
  /\ \A c \in Charges : rows[c] <= 1 /\ (rows[c] = 1 => charge[c].by # Nobody)

\* The guard's promise: a ticket has one active charge; and when nothing is in flight
\* and no call failed, the ticket shows the status of the charge it names.
OneActiveCharge ==
  /\ \A c, d \in OnTicket : Active(c) /\ Active(d) => c = d
  /\ health = "fine" /\ (\A r \in Requests : At(r, "idle")) /\ ticket.paymentId # None
       => ticket.status = charge[ticket.paymentId].status

\* A charge that was cancelled or refunded is never held.
ClosedNeverHeldStep ==
  \A c \in Charges : charge[c].status \in {"CANCELLED", "REFUNDED"}
                       => charge'[c].status # "HELD"
ClosedNeverHeld == [][ClosedNeverHeldStep]_vars

=============================================================================
