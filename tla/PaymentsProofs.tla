--------------------------- MODULE PaymentsProofs ---------------------------
(* Theorems about Payments, for any number of slots, charges and amounts. *)
EXTENDS Payments, TLAPS

\* A request works on documents that exist, an amended invoice carries one of
\* the ticket's bills, and PENDING is never the status about to be written.
Sound(q) ==
  /\ q.c \in 0..created /\ q.todo \subseteq OnTicket
  /\ q.pc \in {"cancelOrder", "write", "cas", "reread"} => q.c # None
  /\ q.pc \in {"adjust", "adjustWrite", "invoiceWrite"} => q.op = "invoice"
  /\ q.op = "invoice" => q.amt \in Bills
  /\ q.put # "PENDING"
RequestInv == \A r \in Requests : Sound(req[r])

\* A charge that somebody confirmed is not pending.
ConfirmedInv ==
  \A c \in Charges : charge[c].by # Nobody => charge[c].status # "PENDING"

\* A document that was not created has nothing in it.
UnusedInv == \A c \in Charges : c \notin OnTicket => charge[c] = Blank

IInv == TypeOK /\ RequestInv /\ ConfirmedInv /\ UnusedInv

-----------------------------------------------------------------------------
LEMMA BlankIsDoc == Blank \in ChargeDoc
  BY DEF Blank, ChargeDoc

LEMMA IdleIsRequest ==
  ASSUME created \in Nat
  PROVE  Idle \in RequestDoc /\ Sound(Idle)
  BY PaymentsAssumption DEF Idle, RequestDoc, Sound, Ops, Points, None

LEMMA InitIInv == Init => IInv
<1> SUFFICES ASSUME Init PROVE IInv
  OBVIOUS
<1>1. charge \in [Charges -> ChargeDoc] /\ req \in [Requests -> RequestDoc]
  BY BlankIsDoc, IdleIsRequest DEF Init
<1>2. ticket \in TicketDoc
  BY PaymentsAssumption DEF Init, TicketDoc, None
<1>3. TypeOK
  BY <1>1, <1>2, PaymentsAssumption DEF Init, TypeOK, None
<1>4. RequestInv
  BY IdleIsRequest DEF Init, RequestInv, Sound
<1>5. ConfirmedInv
  BY DEF Init, ConfirmedInv, Blank
<1>6. UnusedInv
  BY DEF Init, UnusedInv
<1> QED
  BY <1>3, <1>4, <1>5, <1>6 DEF IInv

\* A request that moves to a sound record leaves every request sound.
LEMMA GotoSound ==
  ASSUME IInv, NEW r \in Requests, NEW q \in RequestDoc, Sound(q), Goto(r, q),
         UNCHANGED created
  PROVE  req' \in [Requests -> RequestDoc] /\ RequestInv'
  BY DEF IInv, TypeOK, RequestInv, Goto, Sound, OnTicket

LEMMA FinishSound ==
  ASSUME IInv, NEW r \in Requests, Finish(r), UNCHANGED created
  PROVE  req' \in [Requests -> RequestDoc] /\ RequestInv'
  BY GotoSound, IdleIsRequest DEF Finish, IInv, TypeOK

\* A step that fails, or does not, keeps the history of failures well formed.
LEMMA HealthKept ==
  ASSUME IInv, Fault \/ Smooth
  PROVE  health' \in {"fine", "faulted"}
  BY DEF IInv, TypeOK, Fault, Smooth

\* A step that moves one request and writes nothing else.
LEMMA MoveKeeps ==
  ASSUME IInv, UNCHANGED <<charge, created, guard, ticket, sepay, rows>>, Fault \/ Smooth,
         req' \in [Requests -> RequestDoc], RequestInv'
  PROVE  IInv'
  BY HealthKept DEF IInv, TypeOK, ConfirmedInv, UnusedInv, OnTicket

LEMMA QuietKeeps ==
  ASSUME IInv, Quiet, req' \in [Requests -> RequestDoc], RequestInv'
  PROVE  IInv'
  BY DEF IInv, TypeOK, ConfirmedInv, UnusedInv, Quiet, OnTicket

\* The statuses the handlers name are statuses of a charge.
LEMMA StatusFacts ==
  {"PENDING", "HELD", "CONFIRMED", "PARTIAL", "REFUNDED", "CANCELLED"} \subseteq Statuses
  BY DEF Statuses, ActiveStatuses, ReceivedStatuses

\* Every reading of the state a handler makes is of the type it expects.
LEMMA Reads ==
  ASSUME IInv
  PROVE  /\ \A r \in Requests : req[r] \in RequestDoc /\ Sound(req[r])
         /\ \A c \in Charges : charge[c] \in ChargeDoc
         /\ ticket \in TicketDoc
         /\ created \in Nat /\ created <= MaxCharges
  BY PaymentsAssumption DEF IInv, TypeOK, RequestInv

LEMMA OnTicketIsCharge ==
  ASSUME IInv
  PROVE  /\ OnTicket \subseteq Charges /\ OnTicket \subseteq 0..created
         /\ Charges \subseteq 0..MaxCharges /\ None \notin Charges
  BY PaymentsAssumption DEF IInv, TypeOK, OnTicket, Charges, None

\* Only a document that exists has a status.
LEMMA StatusMeansCreated ==
  ASSUME IInv, NEW c \in Charges, charge[c].status # "NONE"
  PROVE  c \in OnTicket
  BY DEF IInv, UnusedInv, Blank

LEMMA LessIsNat == \A a, b \in Nat : Less(a, b) \in Nat
  BY DEF Less

LEMMA BillIsNat ==
  ASSUME IInv
  PROVE  Bill \in Nat
<1>1. ticket.invoice \in Bills \union {None} /\ ticket.quote \in Bills
  BY Reads DEF TicketDoc
<1>2. Bills \subseteq Nat /\ None \in Nat
  BY PaymentsAssumption DEF None
<1> QED
  BY <1>1, <1>2 DEF Bill

LEMMA CreditIsNat == Credit \in Nat
  BY PaymentsAssumption DEF Credit

-----------------------------------------------------------------------------
(* One lemma per operation: its steps keep the invariant.                   *)

\* Arriving requests only read.
LEMMA ArriveStep ==
  ASSUME IInv, NEW r \in Requests, Arrive(r)
  PROVE  IInv'
<1>0. created \in Nat /\ Idle \in RequestDoc /\ Sound(Idle)
  BY Reads, IdleIsRequest
<1>1. ASSUME NEW m \in {"CASH", "SEPAY"}, CreateRead(r, m) PROVE IInv'
  <2> DEFINE x == Less(Bill, Credit)
             q == [Begin(r, "create", "scan") EXCEPT !.m = m, !.amt = x]
  <2>1. x \in Nat
    BY LessIsNat, CreditIsNat, BillIsNat
  <2> HIDE DEF x
  <2>2. q \in RequestDoc /\ Sound(q)
    BY <1>0, <2>1 DEF Begin, RequestDoc, Sound, Ops, Points, Idle
  <2> QED
    BY <1>1, <2>2, GotoSound, QuietKeeps DEF CreateRead, Quiet, x
<1>2. ASSUME CancelRead(r) PROVE IInv'
  <2>1. PICK a \in OnTicket :
          Goto(r, [Begin(r, "cancel", IF charge[a].method = "SEPAY" THEN "cancelOrder"
                                      ELSE "write") EXCEPT !.c = a, !.put = "CANCELLED"])
    BY <1>2 DEF CancelRead
  <2> DEFINE q == [Begin(r, "cancel", IF charge[a].method = "SEPAY" THEN "cancelOrder"
                                      ELSE "write") EXCEPT !.c = a, !.put = "CANCELLED"]
  <2>2. a \in 0..MaxCharges /\ a \in 0..created /\ a # None
    BY OnTicketIsCharge
  <2>3. q \in RequestDoc /\ Sound(q)
    <3>1. q \in RequestDoc
      BY <1>0, <2>2, StatusFacts DEF Begin, RequestDoc, Ops, Points, Idle
    <3>2. Sound(q)
      BY <1>0, <2>2, StatusFacts DEF Begin, RequestDoc, Sound, Ops, Points, Idle
    <3> QED
      BY <3>1, <3>2
  <2> QED
    BY <1>2, <2>1, <2>3, GotoSound, QuietKeeps DEF CancelRead, Quiet
<1>3. ASSUME NEW closing \in BOOLEAN, SweepRead(r, closing) PROVE IInv'
  <2> DEFINE q == [Begin(r, "sweep", "next") EXCEPT !.put = "CANCELLED"]
  <2>1. q \in RequestDoc /\ Sound(q)
    BY <1>0, StatusFacts DEF Begin, RequestDoc, Sound, Ops, Points, Idle
  <2>2. req' \in [Requests -> RequestDoc] /\ RequestInv'
    BY <1>3, <2>1, GotoSound DEF SweepRead
  <2>3. ticket' \in TicketDoc
    BY <1>3, Reads DEF SweepRead, TicketDoc
  <2> QED
    BY <1>3, <2>2, <2>3 DEF SweepRead, IInv, TypeOK, ConfirmedInv, UnusedInv, OnTicket
<1>4. ASSUME ConfirmRead(r) PROVE IInv'
  <2>1. PICK c \in OnTicket : Goto(r, [Begin(r, "confirm", "cas") EXCEPT !.c = c])
    BY <1>4 DEF ConfirmRead
  <2> DEFINE q == [Begin(r, "confirm", "cas") EXCEPT !.c = c]
  <2>2. c \in 0..MaxCharges /\ c \in 0..created /\ c # None
    BY OnTicketIsCharge
  <2>3. q \in RequestDoc /\ Sound(q)
    BY <1>0, <2>2 DEF Begin, RequestDoc, Sound, Ops, Points, Idle
  <2> QED
    BY <1>4, <2>1, <2>3, GotoSound, QuietKeeps DEF ConfirmRead, Quiet
<1>5. ASSUME NEW c \in Charges, IpnRead(r, c) PROVE IInv'
  <2> DEFINE q == [Begin(r, "ipn", "write") EXCEPT !.c = c, !.put = "HELD"]
  <2>1. c \in 0..MaxCharges /\ c \in 0..created /\ c # None
    BY <1>5, OnTicketIsCharge, StatusMeansCreated DEF IpnRead
  <2>2. q \in RequestDoc /\ Sound(q)
    BY <1>0, <2>1, StatusFacts DEF Begin, RequestDoc, Sound, Ops, Points, Idle
  <2> QED
    BY <1>5, <2>2, GotoSound, QuietKeeps DEF IpnRead, Quiet
<1>6. ASSUME DepositRead(r) PROVE IInv'
  <2> DEFINE q == [Begin(r, "deposit", "guard") EXCEPT !.m = "SEPAY", !.amt = Deposit]
  <2>1. q \in RequestDoc /\ Sound(q)
    BY <1>0, PaymentsAssumption DEF Begin, RequestDoc, Sound, Ops, Points, Idle
  <2> QED
    BY <1>6, <2>1, GotoSound, QuietKeeps DEF DepositRead, Quiet
<1>7. ASSUME NEW c \in Charges, NEW x \in 1..charge[c].amount, RefundRead(r, c, x)
      PROVE  IInv'
  <2> DEFINE total == charge[c].refunded + x
             put == IF total >= charge[c].amount THEN "REFUNDED" ELSE "PARTIAL"
             q == [Begin(r, "refund", "write") EXCEPT !.c = c, !.amt = total, !.put = put]
  <2>1. charge[c] \in ChargeDoc /\ c \in 0..MaxCharges /\ c \in 0..created /\ c # None
    BY <1>7, Reads, OnTicketIsCharge, StatusMeansCreated DEF RefundRead, ReceivedStatuses
  <2>2. charge[c].refunded \in Nat /\ charge[c].amount \in Nat
    BY <2>1 DEF ChargeDoc
  <2>3. total \in Nat
    BY <2>2
  <2>4. q \in RequestDoc /\ Sound(q)
    <3>1. put \in Statuses /\ put # "PENDING"
      BY StatusFacts
    <3>2. "write" \in Points /\ "refund" \in Ops
      BY DEF Points, Ops
    <3> HIDE DEF total, put
    <3>3. q \in RequestDoc
      BY <1>0, <2>1, <2>3, <3>1, <3>2 DEF Begin, RequestDoc
    <3>4. Sound(q)
      BY <1>0, <2>1, <3>1 DEF Begin, Sound, Idle
    <3> QED
      BY <3>3, <3>4
  <2> QED
    BY <1>7, <2>4, GotoSound, QuietKeeps DEF RefundRead, Quiet
<1>8. ASSUME NEW total \in Bills, InvoiceRead(r, total) PROVE IInv'
  <2> DEFINE x == Less(total, Credit)
             pc == IF total = ticket.quote THEN "invoiceWrite" ELSE "adjust"
             q == [Begin(r, "invoice", pc) EXCEPT !.amt = total, !.net = x]
  <2>1. x \in Nat /\ total \in Nat
    BY LessIsNat, CreditIsNat, PaymentsAssumption
  <2> HIDE DEF x
  <2>2. q \in RequestDoc /\ Sound(q)
    BY <1>0, <2>1 DEF Begin, RequestDoc, Sound, Ops, Points, Idle
  <2> QED
    BY <1>8, <2>2, GotoSound, QuietKeeps DEF InvoiceRead, Quiet, x
<1>9. ASSUME ApproveRead(r) PROVE IInv'
  <2> DEFINE q == Begin(r, "approve", "agree")
  <2>1. q \in RequestDoc /\ Sound(q)
    BY <1>0 DEF Begin, RequestDoc, Sound, Ops, Points, Idle
  <2> QED
    BY <1>9, <2>1, GotoSound, QuietKeeps DEF ApproveRead, Quiet
<1> QED
  BY <1>1, <1>2, <1>3, <1>4, <1>5, <1>6, <1>7, <1>8, <1>9 DEF Arrive

\* asReused finishes, or goes on to stamp the charge it was given.
LEMMA AsReusedSound ==
  ASSUME IInv, NEW r \in Requests, NEW c \in OnTicket, AsReused(r, c), UNCHANGED created
  PROVE  req' \in [Requests -> RequestDoc] /\ RequestInv'
<1> DEFINE q == [req[r] EXCEPT !.pc = "stamp", !.c = c, !.seen = charge[c].status]
<1>1. CASE Finish(r)
  BY <1>1, FinishSound
<1>2. CASE Goto(r, q)
  <2>1. c \in 0..MaxCharges /\ c \in 0..created /\ c # None /\ charge[c].status \in Statuses \union {"NONE"}
    BY Reads, OnTicketIsCharge DEF ChargeDoc
  <2>2. req[r] \in RequestDoc /\ Sound(req[r])
    BY Reads
  <2>3. q \in RequestDoc /\ Sound(q)
    BY <2>1, <2>2 DEF RequestDoc, Sound, Points
  <2> QED
    BY <1>2, <2>3, GotoSound
<1> QED
  BY <1>1, <1>2 DEF AsReused

\* After clearGuard the request goes on with its operation.
LEMMA AfterGuardSound ==
  ASSUME IInv, NEW r \in Requests, AfterGuard(r), UNCHANGED created
  PROVE  req' \in [Requests -> RequestDoc] /\ RequestInv'
<1> DEFINE p == [req[r] EXCEPT !.op = "create", !.pc = "guard", !.put = "NONE"]
           q == [req[r] EXCEPT !.pc = "sweep"]
<1>1. req[r] \in RequestDoc /\ Sound(req[r])
  BY Reads
<1>2. p \in RequestDoc /\ Sound(p)
  <2>1. p \in RequestDoc
    <3>1. "guard" \in Points /\ "create" \in Ops
      BY DEF Points, Ops
    <3> QED
      BY <1>1, <3>1 DEF RequestDoc
  <2>2. Sound(p)
    BY <1>1 DEF RequestDoc, Sound
  <2> QED
    BY <2>1, <2>2
<1>3. q \in RequestDoc /\ Sound(q)
  BY <1>1 DEF RequestDoc, Sound, Points
<1>4. CASE req[r].op = "switch"
  BY <1>2, <1>4, GotoSound DEF AfterGuard
<1>5. CASE req[r].op = "sweep"
  BY <1>3, <1>5, GotoSound DEF AfterGuard
<1>6. CASE req[r].op \notin {"switch", "sweep"}
  BY <1>6, FinishSound DEF AfterGuard
<1> QED
  BY <1>4, <1>5, <1>6

\* POST /payments/create up to the transaction.
LEMMA CreateScanStep ==
  ASSUME IInv, NEW r \in Requests, CreateScan(r)
  PROVE  IInv'
<1>1. UNCHANGED created
  BY DEF CreateScan, Quiet
<1>2. req[r] \in RequestDoc /\ Sound(req[r])
  BY Reads
<1>3. CASE Finish(r)
  BY <1>1, <1>3, FinishSound, QuietKeeps DEF CreateScan
<1>4. ASSUME NEW c \in OnTicket, AsReused(r, c) PROVE IInv'
  BY <1>1, <1>4, AsReusedSound, QuietKeeps DEF CreateScan
<1>5. ASSUME NEW c \in OnTicket,
             Goto(r, [req[r] EXCEPT !.op = "switch", !.c = c, !.put = "CANCELLED",
                       !.pc = IF charge[c].method = "SEPAY" THEN "cancelOrder" ELSE "write"])
      PROVE  IInv'
  <2> DEFINE next == IF charge[c].method = "SEPAY" THEN "cancelOrder" ELSE "write"
             q == [req[r] EXCEPT !.op = "switch", !.c = c, !.put = "CANCELLED", !.pc = next]
  <2>1. c \in 0..MaxCharges /\ c \in 0..created /\ c # None
    BY OnTicketIsCharge
  <2>2. q \in RequestDoc /\ Sound(q)
    <3>1. q \in RequestDoc
      <4>1. next \in Points /\ "switch" \in Ops
        BY DEF Points, Ops
      <4> HIDE DEF next
      <4> QED
        BY <1>2, <2>1, <4>1, StatusFacts DEF RequestDoc
    <3>2. Sound(q)
      BY <1>2, <2>1 DEF RequestDoc, Sound
    <3> QED
      BY <3>1, <3>2
  <2> QED
    BY <1>1, <1>5, <2>2, GotoSound, QuietKeeps DEF CreateScan
<1>6. CASE Goto(r, [req[r] EXCEPT !.pc = "guard"])
  <2> DEFINE q == [req[r] EXCEPT !.pc = "guard"]
  <2>1. q \in RequestDoc /\ Sound(q)
    BY <1>2 DEF RequestDoc, Sound, Points
  <2> QED
    BY <1>1, <1>6, <2>1, GotoSound, QuietKeeps DEF CreateScan
<1> QED
  BY <1>3, <1>4, <1>5, <1>6 DEF CreateScan

\* createGuarded: a new document is numbered after all the others.
LEMMA CreateGuardedStep ==
  ASSUME IInv, NEW r \in Requests, CreateGuarded(r)
  PROVE  IInv'
<1>1. req[r] \in RequestDoc /\ Sound(req[r]) /\ created \in Nat
  BY Reads
<1>2. CASE Finish(r) /\ Quiet
  BY <1>2, FinishSound, QuietKeeps DEF Quiet
<1>3. CASE GuardIsActive /\ AsReused(r, guard) /\ Quiet
  BY <1>3, AsReusedSound, QuietKeeps DEF GuardIsActive, Quiet
<1>4. CASE GuardIsActive /\ Goto(r, [req[r] EXCEPT !.pc = "depositStamp", !.c = guard]) /\ Quiet
  <2> DEFINE q == [req[r] EXCEPT !.pc = "depositStamp", !.c = guard]
  <2>1. guard \in 0..MaxCharges /\ guard \in 0..created /\ guard # None
    BY <1>4, OnTicketIsCharge DEF GuardIsActive
  <2>2. q \in RequestDoc /\ Sound(q)
    BY <1>1, <2>1 DEF RequestDoc, Sound, Points
  <2> QED
    BY <1>4, <2>2, GotoSound, QuietKeeps DEF Quiet
<1>5. ASSUME ~GuardIsActive, created < MaxCharges, ~(Finish(r) /\ Quiet) PROVE IInv'
  <2> DEFINE doc == [Blank EXCEPT
                       !.purpose = IF req[r].op = "deposit" THEN "DEPOSIT" ELSE "BALANCE",
                       !.method = req[r].m, !.amount = req[r].amt, !.status = "PENDING"]
             next == IF req[r].op = "deposit" THEN "depositStamp" ELSE "stamp"
             q == [req[r] EXCEPT !.c = created + 1, !.seen = "PENDING", !.pc = next]
  <2>1. /\ created' = created + 1 /\ guard' = created + 1
        /\ charge' = [charge EXCEPT ![created + 1] = doc]
        /\ req' = [req EXCEPT ![r] = q]
        /\ UNCHANGED <<ticket, sepay, rows, health>>
    BY <1>5 DEF CreateGuarded, Goto
  <2>2. created + 1 \in Charges /\ created + 1 \in 0..MaxCharges
    BY <1>1, <1>5, PaymentsAssumption DEF Charges
  <2>3. doc \in ChargeDoc /\ doc.by = Nobody
    BY <1>1, BlankIsDoc, StatusFacts DEF ChargeDoc, RequestDoc, Blank
  <2>4. q \in RequestDoc
    <3>1. next \in Points
      BY DEF Points
    <3> HIDE DEF next
    <3> QED
      BY <1>1, <2>2, <3>1, StatusFacts DEF RequestDoc
  <2>5. TypeOK'
    <3> HIDE DEF doc, q
    <3> QED
      BY <2>1, <2>2, <2>3, <2>4, PaymentsAssumption DEF IInv, TypeOK
  <2>6. \A s \in Requests : Sound(req[s])'
    BY <1>1, <2>1 DEF IInv, RequestInv, Sound, OnTicket
  <2>7. ConfirmedInv' /\ UnusedInv'
    <3> HIDE DEF doc
    <3> QED
      BY <1>1, <2>1, <2>3 DEF IInv, TypeOK, ConfirmedInv, UnusedInv, OnTicket
  <2> QED
    BY <2>5, <2>6, <2>7 DEF IInv, RequestInv
<1> QED
  BY <1>2, <1>3, <1>4, <1>5 DEF CreateGuarded

\* Cancelling: the order at the gateway, and the sweep of pending charges.
LEMMA CancelStep ==
  ASSUME IInv, NEW r \in Requests,
         CancelOrder(r) \/ SweepPending(r) \/ SweepNext(r)
  PROVE  IInv'
<1>1. req[r] \in RequestDoc /\ Sound(req[r])
  BY Reads
<1>2. CASE CancelOrder(r)
  <2> DEFINE q == [req[r] EXCEPT !.pc = "write"]
  <2>1. q \in RequestDoc /\ Sound(q)
    BY <1>1, <1>2 DEF RequestDoc, Sound, Points, CancelOrder, At
  <2>2. req' \in [Requests -> RequestDoc] /\ RequestInv'
    BY <1>2, <2>1, GotoSound, FinishSound DEF CancelOrder
  <2>3. sepay' \in [Charges -> {"none", "served", "open", "captured", "void"}]
    BY <1>2 DEF CancelOrder, IInv, TypeOK
  <2>4. health' \in {"fine", "faulted"}
    BY <1>2, HealthKept DEF CancelOrder
  <2> QED
    BY <1>2, <2>2, <2>3, <2>4 DEF CancelOrder, IInv, TypeOK, ConfirmedInv, UnusedInv, OnTicket
<1>3. CASE SweepPending(r)
  <2> DEFINE pending == {c \in OnTicket : charge[c].status = "PENDING"}
             q == [req[r] EXCEPT !.pc = "sweep", !.todo = pending]
  <2>1. q \in RequestDoc /\ Sound(q)
    BY <1>1, OnTicketIsCharge DEF RequestDoc, Sound, Points
  <2>2. Finish(r) \/ Goto(r, q)
    BY <1>3 DEF SweepPending
  <2> QED
    BY <1>3, <2>1, <2>2, GotoSound, FinishSound, QuietKeeps DEF SweepPending, Quiet
<1>4. CASE SweepNext(r)
  <2>1. CASE Finish(r)
    BY <1>4, <2>1, FinishSound, QuietKeeps DEF SweepNext, Quiet
  <2>2. ASSUME NEW c \in req[r].todo,
               Goto(r, [req[r] EXCEPT !.pc = "write", !.c = c, !.todo = @ \ {c}])
        PROVE  IInv'
    <3> DEFINE q == [req[r] EXCEPT !.pc = "write", !.c = c, !.todo = req[r].todo \ {c}]
    <3>1. c \in 0..MaxCharges /\ c \in 0..created /\ c # None
      BY <1>1, OnTicketIsCharge DEF Sound
    <3>2. q \in RequestDoc /\ Sound(q)
      BY <1>1, <3>1 DEF RequestDoc, Sound, Points
    <3> QED
      BY <1>4, <2>2, <3>2, GotoSound, QuietKeeps DEF SweepNext, Quiet
  <2> QED
    BY <1>4, <2>1, <2>2 DEF SweepNext
<1> QED
  BY <1>2, <1>3, <1>4

\* updateStatus and updateStatusWhen change the status of one charge; neither
\* writes PENDING.
LEMMA StatusStep ==
  ASSUME IInv, NEW r \in Requests, WriteStatus(r) \/ ConfirmCas(r)
  PROVE  IInv'
<1>1. req[r] \in RequestDoc /\ Sound(req[r]) /\ created \in Nat
  BY Reads
<1> DEFINE q == [req[r] EXCEPT !.pc = "reread"]
           c == req[r].c
<1>2. q \in RequestDoc /\ Sound(q)
  BY <1>1 DEF RequestDoc, Sound, Points, WriteStatus, ConfirmCas, At
<1>3. UNCHANGED <<created, guard, ticket, sepay, rows, health>>
  BY DEF WriteStatus, ConfirmCas
<1>4. req' \in [Requests -> RequestDoc] /\ RequestInv'
  BY <1>2, <1>3, GotoSound, FinishSound DEF WriteStatus, ConfirmCas
<1>5. charge' \in [Charges -> ChargeDoc] /\ ConfirmedInv' /\ UnusedInv'
  <2>1. CASE WriteStatus(r)
    <3> DEFINE doc == [charge[c] EXCEPT !.status = req[r].put, !.refunded = Refunded(r)]
    <3>1. charge' = [charge EXCEPT ![c] = doc] /\ req[r].put # "PENDING"
      BY <1>1, <2>1 DEF WriteStatus, Sound
    <3>2. ASSUME c \in Charges PROVE doc \in ChargeDoc /\ doc.status # "PENDING"
      <4>1. charge[c] \in ChargeDoc
        BY <3>2, Reads
      <4>2. Refunded(r) \in Nat
        BY <1>1, <4>1 DEF ChargeDoc, RequestDoc, Refunded
      <4> QED
        BY <1>1, <3>1, <4>1, <4>2 DEF ChargeDoc, RequestDoc
    <3>3. c \in Charges => c \in OnTicket
      BY <1>1, <1>3 DEF Sound, OnTicket, Charges
    <3> HIDE DEF doc
    <3> QED
      BY <1>3, <3>1, <3>2, <3>3 DEF IInv, TypeOK, ConfirmedInv, UnusedInv, OnTicket
  <2>2. CASE ConfirmCas(r) /\ charge[c].status = "PENDING"
    <3> DEFINE doc == [charge[c] EXCEPT !.status = "CONFIRMED", !.by = r]
    <3>1. charge' = [charge EXCEPT ![c] = doc]
      BY <2>2 DEF ConfirmCas
    <3>2. ASSUME c \in Charges PROVE doc \in ChargeDoc /\ doc.status # "PENDING"
      BY <3>2, Reads, StatusFacts DEF ChargeDoc
    <3>3. c \in Charges => c \in OnTicket
      BY <1>1, <1>3 DEF Sound, OnTicket, Charges
    <3> HIDE DEF doc
    <3> QED
      BY <1>3, <3>1, <3>2, <3>3 DEF IInv, TypeOK, ConfirmedInv, UnusedInv, OnTicket
  <2>3. CASE ConfirmCas(r) /\ charge[c].status # "PENDING"
    BY <1>3, <2>3 DEF ConfirmCas, IInv, TypeOK, ConfirmedInv, UnusedInv, OnTicket
  <2> QED
    BY <2>1, <2>2, <2>3
<1> QED
  BY <1>3, <1>4, <1>5 DEF IInv, TypeOK

\* A charge the request is working on exists.
LEMMA WorkingCharge ==
  ASSUME IInv, NEW r \in Requests, req[r].c # None
  PROVE  req[r].c \in OnTicket /\ req[r].c \in Charges
<1>1. req[r] \in RequestDoc /\ Sound(req[r]) /\ created \in Nat
  BY Reads
<1>2. req[r].c \in OnTicket
  BY <1>1 DEF Sound, OnTicket, None
<1> QED
  BY <1>2, OnTicketIsCharge

\* The second read, the read of the guard and the look for a ledger row.
LEMMA ReadStep ==
  ASSUME IInv, NEW r \in Requests, Reread(r) \/ GuardRead(r) \/ LedgerRead(r)
  PROVE  IInv'
<1>1. req[r] \in RequestDoc /\ Sound(req[r])
  BY Reads
<1>2. UNCHANGED <<charge, created, guard, ticket, sepay, rows>> /\ (Fault \/ Smooth)
  BY DEF Reread, GuardRead, LedgerRead, Quiet, Smooth
<1>3. CASE Reread(r)
  <2> DEFINE s == charge[req[r].c].status
  <2>1. PICK pc \in {"depositConfirm", "ledger", "stamp"} :
          Goto(r, [req[r] EXCEPT !.seen = s, !.pc = pc])
    BY <1>3 DEF Reread
  <2> DEFINE q == [req[r] EXCEPT !.seen = s, !.pc = pc]
  <2>2. req[r].c \in Charges
    BY <1>1, <1>3, WorkingCharge DEF Reread, At, Sound
  <2>3. s \in Statuses \union {"NONE"}
    BY <2>2, Reads DEF ChargeDoc
  <2> HIDE DEF s
  <2>4. q \in RequestDoc /\ Sound(q)
    BY <1>1, <2>3 DEF RequestDoc, Sound, Points
  <2> QED
    BY <1>2, <2>1, <2>4, GotoSound, MoveKeeps
<1>4. CASE GuardRead(r)
  <2> DEFINE q == [req[r] EXCEPT !.pc = "guardDelete"]
  <2>1. q \in RequestDoc /\ Sound(q)
    BY <1>1 DEF RequestDoc, Sound, Points
  <2>2. AfterGuard(r) \/ Goto(r, q)
    BY <1>4 DEF GuardRead
  <2> QED
    BY <1>2, <2>1, <2>2, GotoSound, AfterGuardSound, MoveKeeps
<1>5. CASE LedgerRead(r)
  <2>1. PICK pc \in {"ledgerWrite", "stamp"} : Goto(r, [req[r] EXCEPT !.pc = pc])
    BY <1>5 DEF LedgerRead
  <2> DEFINE q == [req[r] EXCEPT !.pc = pc]
  <2>2. q \in RequestDoc /\ Sound(q)
    BY <1>1 DEF RequestDoc, Sound, Points
  <2> QED
    BY <1>2, <2>1, <2>2, GotoSound, MoveKeeps
<1> QED
  BY <1>3, <1>4, <1>5

\* The writes to the ticket: its stamp, its deposit, its invoice.
LEMMA TicketStep ==
  ASSUME IInv, NEW r \in Requests,
         \/ StampTicket(r) \/ DepositConfirm(r) \/ DepositStamp(r)
         \/ InvoiceWrite(r) \/ ApproveWrite(r)
  PROVE  IInv'
<1>1. req[r] \in RequestDoc /\ Sound(req[r]) /\ ticket \in TicketDoc
  BY Reads
<1>2. UNCHANGED <<charge, created, guard, sepay, rows>>
  BY DEF StampTicket, DepositConfirm, DepositStamp, InvoiceWrite, ApproveWrite
<1>3. req' \in [Requests -> RequestDoc] /\ RequestInv'
  <2>1. CASE StampTicket(r)
    <3>1. CASE Goto(r, [req[r] EXCEPT !.pc = "guardRead"])
      <4> DEFINE q == [req[r] EXCEPT !.pc = "guardRead"]
      <4>1. q \in RequestDoc /\ Sound(q)
        BY <1>1 DEF RequestDoc, Sound, Points
      <4> QED
        BY <1>2, <3>1, <4>1, GotoSound
    <3>2. CASE req[r].op = "invoice" /\ Goto(r, [req[r] EXCEPT !.pc = "invoiceWrite"])
      <4> DEFINE q == [req[r] EXCEPT !.pc = "invoiceWrite"]
      <4>1. q \in RequestDoc /\ Sound(q)
        BY <1>1, <3>2 DEF RequestDoc, Sound, Points
      <4> QED
        BY <1>2, <3>2, <4>1, GotoSound
    <3> QED
      BY <1>2, <2>1, <3>1, <3>2, FinishSound DEF StampTicket
  <2> QED
    BY <1>2, <2>1, FinishSound DEF DepositConfirm, DepositStamp, InvoiceWrite, ApproveWrite
<1>4. health' \in {"fine", "faulted"}
  <2>1. CASE StampTicket(r)
    BY <2>1, HealthKept DEF StampTicket
  <2>2. CASE ~StampTicket(r)
    BY <2>2 DEF DepositConfirm, DepositStamp, InvoiceWrite, ApproveWrite, IInv, TypeOK
  <2> QED
    BY <2>1, <2>2
<1>5. ticket' \in TicketDoc
  <2>1. CASE StampTicket(r)
    BY <1>1, <2>1 DEF StampTicket, TicketDoc, RequestDoc
  <2>2. CASE DepositConfirm(r) \/ DepositStamp(r)
    BY <1>1, <2>2 DEF DepositConfirm, DepositStamp, TicketDoc, RequestDoc
  <2>3. CASE InvoiceWrite(r)
    BY <1>1, <2>3 DEF InvoiceWrite, At, Sound, TicketDoc
  <2>4. CASE ApproveWrite(r)
    BY <1>1, <2>4 DEF ApproveWrite, TicketDoc
  <2> QED
    BY <2>1, <2>2, <2>3, <2>4
<1> QED
  BY <1>2, <1>3, <1>4, <1>5 DEF IInv, TypeOK, ConfirmedInv, UnusedInv, OnTicket

\* clearGuard's delete, and the row of the commission ledger.
LEMMA GuardLedgerStep ==
  ASSUME IInv, NEW r \in Requests, GuardDelete(r) \/ LedgerWrite(r)
  PROVE  IInv'
<1>1. req[r] \in RequestDoc /\ Sound(req[r])
  BY Reads
<1>2. UNCHANGED <<charge, created, ticket, sepay>>
  BY DEF GuardDelete, LedgerWrite
<1>3. CASE GuardDelete(r)
  <2>1. guard' = None /\ UNCHANGED <<rows, health>>
    BY <1>3 DEF GuardDelete
  <2>2. req' \in [Requests -> RequestDoc] /\ RequestInv'
    BY <1>2, <1>3, AfterGuardSound DEF GuardDelete
  <2> QED
    BY <1>2, <2>1, <2>2, PaymentsAssumption
       DEF IInv, TypeOK, ConfirmedInv, UnusedInv, OnTicket, None
<1>4. CASE LedgerWrite(r)
  <2> DEFINE q == [req[r] EXCEPT !.pc = "stamp"]
  <2>1. q \in RequestDoc /\ Sound(q)
    BY <1>1 DEF RequestDoc, Sound, Points
  <2>2. req' \in [Requests -> RequestDoc] /\ RequestInv'
    BY <1>2, <1>4, <2>1, GotoSound DEF LedgerWrite
  <2>3. rows' \in [Charges -> Nat] /\ UNCHANGED guard /\ (Fault \/ Smooth)
    BY <1>4 DEF LedgerWrite, IInv, TypeOK
  <2> QED
    BY <1>2, <2>2, <2>3, HealthKept DEF IInv, TypeOK, ConfirmedInv, UnusedInv, OnTicket
<1> QED
  BY <1>3, <1>4

\* adjustPendingCashAmount rewrites the amount and nothing else.
LEMMA AdjustStep ==
  ASSUME IInv, NEW r \in Requests, AdjustRead(r) \/ AdjustWrite(r)
  PROVE  IInv'
<1>1. req[r] \in RequestDoc /\ Sound(req[r]) /\ created \in Nat
  BY Reads
<1>2. CASE AdjustRead(r)
  <2>0. req[r].op = "invoice"
    BY <1>1, <1>2 DEF AdjustRead, At, Sound
  <2>1. CASE Goto(r, [req[r] EXCEPT !.pc = "invoiceWrite"])
    <3> DEFINE q == [req[r] EXCEPT !.pc = "invoiceWrite"]
    <3>1. q \in RequestDoc /\ Sound(q)
      BY <1>1, <2>0 DEF RequestDoc, Sound, Points
    <3> QED
      BY <1>2, <2>1, <3>1, GotoSound, QuietKeeps DEF AdjustRead, Quiet
  <2>2. ASSUME NEW c \in OnTicket,
               Goto(r, [req[r] EXCEPT !.pc = "adjustWrite", !.c = c, !.seen = "PENDING"])
        PROVE  IInv'
    <3> DEFINE q == [req[r] EXCEPT !.pc = "adjustWrite", !.c = c, !.seen = "PENDING"]
    <3>1. c \in 0..MaxCharges /\ c \in 0..created /\ c # None
      BY OnTicketIsCharge
    <3>2. q \in RequestDoc /\ Sound(q)
      BY <1>1, <2>0, <3>1, StatusFacts DEF RequestDoc, Sound, Points
    <3> QED
      BY <1>2, <2>2, <3>2, GotoSound, QuietKeeps DEF AdjustRead, Quiet
  <2> QED
    BY <1>2, <2>1, <2>2 DEF AdjustRead
<1>3. CASE AdjustWrite(r)
  <2> DEFINE q == [req[r] EXCEPT !.pc = "stamp"]
             c == req[r].c
             doc == [charge[c] EXCEPT !.amount = req[r].net]
  <2>1. q \in RequestDoc /\ Sound(q)
    BY <1>1 DEF RequestDoc, Sound, Points
  <2>2. UNCHANGED <<created, guard, ticket, sepay, rows, health>>
    BY <1>3 DEF AdjustWrite
  <2>3. req' \in [Requests -> RequestDoc] /\ RequestInv'
    BY <1>3, <2>1, <2>2, GotoSound DEF AdjustWrite
  <2>4. charge' = [charge EXCEPT ![c] = doc]
    BY <1>3 DEF AdjustWrite
  <2>5. ASSUME c \in Charges
        PROVE  /\ doc \in ChargeDoc /\ doc.status = charge[c].status
               /\ doc.by = charge[c].by /\ c \in OnTicket
    BY <1>1, <2>5, Reads DEF ChargeDoc, RequestDoc, Sound, OnTicket, Charges
  <2> HIDE DEF doc
  <2>6. charge' \in [Charges -> ChargeDoc] /\ ConfirmedInv' /\ UnusedInv'
    BY <2>2, <2>4, <2>5 DEF IInv, TypeOK, ConfirmedInv, UnusedInv, OnTicket
  <2> QED
    BY <2>2, <2>3, <2>6 DEF IInv, TypeOK
<1> QED
  BY <1>2, <1>3

\* The gateway moves its own orders.
LEMMA GatewayStep ==
  ASSUME IInv, NEW c \in Charges, Gateway(c)
  PROVE  IInv'
<1>1. UNCHANGED <<charge, created, guard, ticket, rows, req, health>>
  BY DEF Gateway, ServeCheckout, SubmitForm, Capture
<1>2. sepay' \in [Charges -> {"none", "served", "open", "captured", "void"}]
  BY DEF Gateway, ServeCheckout, SubmitForm, Capture, IInv, TypeOK
<1> QED
  BY <1>1, <1>2
     DEF IInv, TypeOK, RequestInv, Sound, ConfirmedInv, UnusedInv, OnTicket

-----------------------------------------------------------------------------
LEMMA NextIInv ==
  ASSUME IInv, [Next]_vars
  PROVE  IInv'
<1>1. ASSUME NEW r \in Requests, Arrive(r) PROVE IInv'
  BY <1>1, ArriveStep
<1>2. ASSUME NEW r \in Requests, Handle(r) PROVE IInv'
  BY <1>2, CreateScanStep, CreateGuardedStep, CancelStep, StatusStep, ReadStep,
     TicketStep, GuardLedgerStep, AdjustStep DEF Handle
<1>3. ASSUME NEW r \in Requests, Abort(r) PROVE IInv'
  BY <1>3, FinishSound, MoveKeeps DEF Abort
<1>4. ASSUME NEW c \in Charges, Gateway(c) PROVE IInv'
  BY <1>4, GatewayStep
<1>5. CASE UNCHANGED vars
  BY <1>5 DEF vars, IInv, TypeOK, RequestInv, Sound, ConfirmedInv, UnusedInv, OnTicket
<1> QED
  BY <1>1, <1>2, <1>3, <1>4, <1>5 DEF Next

LEMMA Invariance == Spec => []IInv
  BY InitIInv, NextIInv, PTL DEF Spec

\* However many instances and charges there are, every document keeps its
\* shape: the handlers of paymentService never write a half-formed record.
THEOREM Typing == Spec => []TypeOK
  BY Invariance, PTL DEF IInv

-----------------------------------------------------------------------------
(* What a step may never do.                                                *)

\* Only four operations write a charge at all.
LEMMA ChargeWriters ==
  ASSUME Next
  PROVE  \/ UNCHANGED charge
         \/ \E r \in Requests :
              CreateGuarded(r) \/ WriteStatus(r) \/ ConfirmCas(r) \/ AdjustWrite(r)
<1>1. ASSUME NEW r \in Requests, Arrive(r) PROVE UNCHANGED charge
  BY <1>1 DEF Arrive, CreateRead, CancelRead, SweepRead, ConfirmRead, IpnRead, DepositRead,
              RefundRead, InvoiceRead, ApproveRead, Quiet
<1>2. ASSUME NEW r \in Requests, Handle(r)
      PROVE  \/ UNCHANGED charge
             \/ CreateGuarded(r) \/ WriteStatus(r) \/ ConfirmCas(r) \/ AdjustWrite(r)
  BY <1>2 DEF Handle, CreateScan, CancelOrder, SweepPending, SweepNext, Reread, StampTicket,
              GuardRead, GuardDelete, LedgerRead, LedgerWrite, DepositConfirm, DepositStamp,
              AdjustRead, InvoiceWrite, ApproveWrite, Quiet
<1>3. ASSUME NEW r \in Requests, Abort(r) PROVE UNCHANGED charge
  BY <1>3 DEF Abort, Quiet
<1>4. ASSUME NEW c \in Charges, Gateway(c) PROVE UNCHANGED charge
  BY <1>4 DEF Gateway, ServeCheckout, SubmitForm, Capture
<1> QED
  BY <1>1, <1>2, <1>3, <1>4 DEF Next

\* What each of the four does to the charges that exist.
LEMMA ChargeChanges ==
  ASSUME IInv, [Next]_vars
  PROVE  CashConfirmedOnceStep /\ NeverPendingAgainStep
<1>1. CASE UNCHANGED charge
  BY <1>1 DEF CashConfirmedOnceStep, NeverPendingAgainStep
<1>2. ASSUME NEW r \in Requests, CreateGuarded(r), ~UNCHANGED charge
      PROVE  CashConfirmedOnceStep /\ NeverPendingAgainStep
  <2>1. /\ created + 1 \notin OnTicket /\ created < MaxCharges /\ created \in Nat
        /\ \A c \in Charges : c # created + 1 => charge'[c] = charge[c]
    BY <1>2, Reads DEF CreateGuarded, Quiet, OnTicket, IInv, TypeOK
  <2>2. \A c \in Charges : charge[c].by # Nobody => c \in OnTicket
    BY DEF IInv, UnusedInv, Blank
  <2> QED
    BY <2>1, <2>2, OnTicketIsCharge DEF CashConfirmedOnceStep, NeverPendingAgainStep
<1>3. ASSUME NEW r \in Requests, WriteStatus(r)
      PROVE  CashConfirmedOnceStep /\ NeverPendingAgainStep
  <2> DEFINE doc == [charge[req[r].c] EXCEPT !.status = req[r].put, !.refunded = Refunded(r)]
  <2>1. charge' = [charge EXCEPT ![req[r].c] = doc] /\ req[r].put # "PENDING"
    BY <1>3, Reads DEF WriteStatus, Sound
  <2>2. req[r].c \in Charges /\ charge[req[r].c] \in ChargeDoc
    BY <1>3, Reads, WorkingCharge DEF WriteStatus, At, Sound
  <2>3. doc.by = charge[req[r].c].by /\ doc.status = req[r].put
    BY <2>2 DEF ChargeDoc
  <2> HIDE DEF doc
  <2> QED
    BY <2>1, <2>2, <2>3, OnTicketIsCharge
       DEF CashConfirmedOnceStep, NeverPendingAgainStep, IInv, TypeOK
<1>4. ASSUME NEW r \in Requests, ConfirmCas(r), ~UNCHANGED charge
      PROVE  CashConfirmedOnceStep /\ NeverPendingAgainStep
  <2> DEFINE doc == [charge[req[r].c] EXCEPT !.status = "CONFIRMED", !.by = r]
  <2>1. charge' = [charge EXCEPT ![req[r].c] = doc] /\ charge[req[r].c].status = "PENDING"
    BY <1>4 DEF ConfirmCas
  <2>2. req[r].c \in Charges /\ charge[req[r].c] \in ChargeDoc
    BY <1>4, Reads, WorkingCharge DEF ConfirmCas, At, Sound
  <2>3. doc.status = "CONFIRMED" /\ charge[req[r].c].by = Nobody
    BY <2>1, <2>2 DEF ChargeDoc, IInv, ConfirmedInv
  <2> HIDE DEF doc
  <2> QED
    BY <2>1, <2>2, <2>3, OnTicketIsCharge
       DEF CashConfirmedOnceStep, NeverPendingAgainStep, IInv, TypeOK
<1>5. ASSUME NEW r \in Requests, AdjustWrite(r)
      PROVE  CashConfirmedOnceStep /\ NeverPendingAgainStep
  <2> DEFINE doc == [charge[req[r].c] EXCEPT !.amount = req[r].net]
  <2>1. charge' = [charge EXCEPT ![req[r].c] = doc]
    BY <1>5 DEF AdjustWrite
  <2>2. \A c \in Charges : charge[c] \in ChargeDoc
    BY Reads
  <2>3. req[r].c \in Charges =>
          doc.by = charge[req[r].c].by /\ doc.status = charge[req[r].c].status
    BY <2>2 DEF ChargeDoc
  <2> HIDE DEF doc
  <2> QED
    BY <2>1, <2>3, OnTicketIsCharge
       DEF CashConfirmedOnceStep, NeverPendingAgainStep, IInv, TypeOK
<1> QED
  BY <1>1, <1>2, <1>3, <1>4, <1>5, ChargeWriters DEF vars

\* However many devices confirm, retry or die, confirmedBy of a charge is
\* written once: updateStatusWhen is the only write of it.
THEOREM NoSecondConfirm == Spec => CashConfirmedOnce
<1>1. IInv /\ [Next]_vars => [CashConfirmedOnceStep]_vars
  BY ChargeChanges
<1> QED
  BY <1>1, Invariance, PTL DEF Spec, CashConfirmedOnce

\* However the handlers interleave, a charge that left PENDING stays out of
\* it: no handler writes PENDING over a status it read earlier.
THEOREM NoRevival == Spec => NeverPendingAgain
<1>1. IInv /\ [Next]_vars => [NeverPendingAgainStep]_vars
  BY ChargeChanges
<1> QED
  BY <1>1, Invariance, PTL DEF Spec, NeverPendingAgain

-----------------------------------------------------------------------------
(* Money.                                                                   *)

Paid(c) == sepay[c] = "captured"

\* What a request may still write is backed: by the captured order of its charge, by the
\* confirmation it made itself, or by nothing when it only cancels.
Backed(r) ==
  LET q == req[r]
      c == q.c
  IN
  /\ q.pc = "write" => q.op # "confirm"
  /\ q.pc \in {"cancelOrder", "next", "sweep"} => q.op \notin {"confirm", "ipn"}
  /\ q.pc \in {"cas", "ledger", "ledgerWrite"} => q.op = "confirm" /\ c # None
  /\ q.pc \in {"cancelOrder", "next", "sweep"} \/ q.op = "sweep" => q.put = "CANCELLED"
  /\ q.pc = "write" /\ q.put # "CANCELLED" => charge[c].method = "CASH" \/ Paid(c)
  /\ q.pc = "cas" => charge[c].method = "CASH"
  /\ q.op = "confirm" /\ q.pc \in {"reread", "ledger", "ledgerWrite"} =>
       charge[c].by = r /\ rows[c] = 0
  /\ q.op = "ipn" /\ q.pc \in {"write", "reread"} => Paid(c)
  /\ q.pc = "depositConfirm" => c \in OnTicket /\ charge[c].purpose = "DEPOSIT" /\ Paid(c)
BackedInv == \A r \in Requests : Backed(r)

MoneyInv == IInv /\ BackedInv /\ MoneyIsBacked

\* A captured order stays captured, and a charge keeps its method and purpose.
LEMMA Lasting ==
  ASSUME IInv, [Next]_vars
  PROVE  /\ \A c \in Charges : Paid(c) => Paid(c)'
         /\ \A c \in OnTicket :
              c \in OnTicket' /\ charge'[c].method = charge[c].method
                              /\ charge'[c].purpose = charge[c].purpose
<1>1. \A c \in Charges : Paid(c) => Paid(c)'
  <2>1. CASE UNCHANGED sepay
    BY <2>1 DEF Paid
  <2>2. ASSUME NEW r \in Requests, CancelOrder(r)
        PROVE  \A c \in Charges : Paid(c) => Paid(c)'
    <3> DEFINE x == req[r].c
               voided == [sepay EXCEPT ![x] = IF sepay[x] = "open" THEN "void" ELSE sepay[x]]
    <3>1. sepay' \in {sepay, voided}
      BY <2>2 DEF CancelOrder
    <3> QED
      BY <3>1 DEF Paid, IInv, TypeOK
  <2>3. ASSUME NEW d \in Charges, Gateway(d)
        PROVE  \A c \in Charges : Paid(c) => Paid(c)'
    BY <2>3 DEF Gateway, ServeCheckout, SubmitForm, Capture, Paid, IInv, TypeOK
  <2>4. ASSUME NEW r \in Requests, Arrive(r) PROVE UNCHANGED sepay
    BY <2>4 DEF Arrive, CreateRead, CancelRead, SweepRead, ConfirmRead, IpnRead, DepositRead,
                RefundRead, InvoiceRead, ApproveRead, Quiet
  <2>5. ASSUME NEW r \in Requests, Handle(r) PROVE UNCHANGED sepay \/ CancelOrder(r)
    BY <2>5 DEF Handle, CreateScan, CreateGuarded, SweepPending, SweepNext, WriteStatus, Reread,
                StampTicket, GuardRead, GuardDelete, ConfirmCas, LedgerRead, LedgerWrite,
                DepositConfirm, DepositStamp, AdjustRead, AdjustWrite, InvoiceWrite, ApproveWrite, Quiet
  <2> QED
    BY <2>1, <2>2, <2>3, <2>4, <2>5 DEF Next, Abort, vars
<1>2. ASSUME NEW c \in OnTicket
      PROVE  /\ c \in OnTicket' /\ charge'[c].method = charge[c].method
             /\ charge'[c].purpose = charge[c].purpose
  <2>1. created' \in Nat /\ created <= created'
    <3>1. ASSUME NEW r \in Requests, Arrive(r) PROVE UNCHANGED created
      BY <3>1 DEF Arrive, CreateRead, CancelRead, SweepRead, ConfirmRead, IpnRead, DepositRead,
                  RefundRead, InvoiceRead, ApproveRead, Quiet
    <3>2. ASSUME NEW r \in Requests, Handle(r) PROVE UNCHANGED created \/ created' = created + 1
      BY <3>2 DEF Handle, CreateScan, CreateGuarded, CancelOrder, SweepPending, SweepNext,
                  WriteStatus, Reread, StampTicket, GuardRead, GuardDelete, ConfirmCas, LedgerRead,
                  LedgerWrite, DepositConfirm, DepositStamp, AdjustRead, AdjustWrite, InvoiceWrite,
                  ApproveWrite, Quiet
    <3>3. created \in Nat
      BY Reads
    <3>4. UNCHANGED created \/ created' = created + 1
      BY <3>1, <3>2 DEF Next, Abort, Gateway, ServeCheckout, SubmitForm, Capture, vars
    <3> QED
      BY <3>3, <3>4
  <2>2. c \in OnTicket'
    BY <2>1, Reads DEF OnTicket
  <2>3. c \in Charges /\ charge[c] \in ChargeDoc
    BY OnTicketIsCharge, Reads
  <2>4. CASE UNCHANGED charge
    BY <2>2, <2>4
  <2>5. ASSUME NEW r \in Requests, CreateGuarded(r), ~UNCHANGED charge
        PROVE  charge'[c] = charge[c]
    <3>1. c # created + 1
      BY Reads DEF OnTicket
    <3> QED
      BY <2>3, <2>5, <3>1 DEF CreateGuarded, Quiet, IInv, TypeOK
  <2>6. ASSUME NEW r \in Requests, WriteStatus(r) \/ ConfirmCas(r) \/ AdjustWrite(r)
        PROVE  charge'[c].method = charge[c].method /\ charge'[c].purpose = charge[c].purpose
    <3> DEFINE x == req[r].c
    <3>1. CASE WriteStatus(r)
      <4>1. PICK doc : doc = [charge[x] EXCEPT !.status = req[r].put, !.refunded = Refunded(r)]
        OBVIOUS
      <4>2. charge' = [charge EXCEPT ![x] = doc]
        BY <3>1, <4>1 DEF WriteStatus
      <4>3. x = c => doc.method = charge[c].method /\ doc.purpose = charge[c].purpose
        BY <2>3, <4>1 DEF ChargeDoc
      <4> QED
        BY <2>3, <4>2, <4>3 DEF IInv, TypeOK
    <3>2. CASE ConfirmCas(r)
      <4>1. PICK doc : doc = [charge[x] EXCEPT !.status = "CONFIRMED", !.by = r]
        OBVIOUS
      <4>2. UNCHANGED charge \/ charge' = [charge EXCEPT ![x] = doc]
        BY <3>2, <4>1 DEF ConfirmCas
      <4>3. x = c => doc.method = charge[c].method /\ doc.purpose = charge[c].purpose
        BY <2>3, <4>1 DEF ChargeDoc
      <4> QED
        BY <2>3, <4>2, <4>3 DEF IInv, TypeOK
    <3>3. CASE AdjustWrite(r)
      <4>1. charge' = [charge EXCEPT ![x] = [charge[x] EXCEPT !.amount = req[r].net]]
        BY <3>3 DEF AdjustWrite
      <4> QED
        BY <2>3, <4>1 DEF IInv, TypeOK, ChargeDoc
    <3> QED
      BY <2>6, <3>1, <3>2, <3>3
  <2> QED
    BY <2>2, <2>4, <2>5, <2>6, ChargeWriters DEF vars
<1> QED
  BY <1>1, <1>2

\* A request that does not move stays backed, whatever the others write.
LEMMA OthersBacked ==
  ASSUME MoneyInv, [Next]_vars, NEW s \in Requests, req'[s] = req[s],
         req[s].op = "confirm" /\ req[s].pc \in {"reread", "ledger", "ledgerWrite"} =>
           rows'[req[s].c] = rows[req[s].c]
  PROVE  Backed(s)'
<1>1. Backed(s) /\ IInv /\ req[s] \in RequestDoc /\ Sound(req[s])
  BY Reads DEF MoneyInv, BackedInv
<1>2. req[s].c # None => req[s].c \in OnTicket /\ req[s].c \in Charges
  BY <1>1, WorkingCharge
<1>3. req[s].pc \in {"write", "cas", "reread"} => req[s].c # None
  BY <1>1 DEF Sound
<1>4. req[s].c # None =>
        /\ Paid(req[s].c) => Paid(req[s].c)'
        /\ charge'[req[s].c].method = charge[req[s].c].method
        /\ charge'[req[s].c].purpose = charge[req[s].c].purpose
        /\ req[s].c \in OnTicket'
        /\ charge[req[s].c].by # Nobody => charge'[req[s].c].by = charge[req[s].c].by
  BY <1>1, <1>2, Lasting, ChargeChanges DEF CashConfirmedOnceStep
<1>5. req[s].op = "confirm" /\ req[s].pc \in {"reread", "ledger", "ledgerWrite"} =>
        req[s].c # None
  BY <1>1, <1>3 DEF Backed
<1>6. PICK q, c : q = req[s] /\ q = req'[s] /\ c = q.c
  OBVIOUS
<1>7. q.op = "confirm" /\ q.pc \in {"reread", "ledger", "ledgerWrite"} =>
        charge'[c].by = s /\ rows'[c] = 0
  BY <1>1, <1>4, <1>5, <1>6, PaymentsAssumption DEF Backed
<1>8. /\ q.pc = "write" /\ q.put # "CANCELLED" => charge'[c].method = "CASH" \/ Paid(c)'
      /\ q.pc = "cas" => charge'[c].method = "CASH"
      /\ q.op = "ipn" /\ q.pc \in {"write", "reread"} => Paid(c)'
  BY <1>1, <1>3, <1>4, <1>6 DEF Backed
<1>9. q.pc = "depositConfirm" => c \in OnTicket' /\ charge'[c].purpose = "DEPOSIT" /\ Paid(c)'
  <2>1. q.pc = "depositConfirm" => c # None /\ charge[c].purpose = "DEPOSIT" /\ Paid(c)
    BY <1>1, <1>6, OnTicketIsCharge DEF Backed
  <2> QED
    BY <1>4, <1>6, <2>1
<1> QED
  BY <1>1, <1>6, <1>7, <1>8, <1>9 DEF Backed

\* Where a request is about to write nothing that says money came in.
Neutral == {"idle", "scan", "stamp", "guardRead", "guardDelete", "guard", "depositStamp", "adjust",
            "adjustWrite", "invoiceWrite", "agree"}

LEMMA NeutralBacked ==
  ASSUME NEW r \in Requests, req'[r].pc \in Neutral, req'[r].op = "sweep" => req'[r].put = "CANCELLED"
  PROVE  Backed(r)'
BY DEF Backed, Neutral

\* A step moves no request but r.
Alone(r) == \A s \in Requests \ {r} : req'[s] = req[s]

\* The record a request moves to.
LEMMA Moves ==
  ASSUME IInv, NEW r \in Requests, NEW q, Goto(r, q)
  PROVE  req'[r] = q /\ Alone(r)
BY DEF Goto, IInv, TypeOK, Alone

LEMMA FinishBacked ==
  ASSUME IInv, NEW r \in Requests, Finish(r)
  PROVE  Backed(r)' /\ Alone(r)
BY Moves, NeutralBacked DEF Finish, Idle, Neutral

LEMMA ArriveBacked ==
  ASSUME MoneyInv, NEW r \in Requests, Arrive(r)
  PROVE  Backed(r)' /\ Alone(r)
<1>0. IInv /\ UNCHANGED <<charge, sepay, rows, created>>
  BY DEF MoneyInv, Arrive, CreateRead, CancelRead, SweepRead, ConfirmRead, IpnRead, DepositRead,
         RefundRead, InvoiceRead, ApproveRead, Quiet
<1>1. ASSUME NEW m \in {"CASH", "SEPAY"}, CreateRead(r, m) PROVE Backed(r)' /\ Alone(r)
  <2>1. PICK q : q = [Begin(r, "create", "scan") EXCEPT !.m = m, !.amt = Less(Bill, Credit)]
    OBVIOUS
  <2>2. Goto(r, q) /\ q.pc = "scan" /\ q.op = "create"
    BY <1>1, <2>1 DEF CreateRead, Begin, Idle
  <2> QED
    BY <1>0, <2>2, Moves, NeutralBacked DEF Neutral
<1>2. ASSUME CancelRead(r) PROVE Backed(r)' /\ Alone(r)
  <2>1. PICK a, q :
          /\ a \in OnTicket
          /\ q = [Begin(r, "cancel", IF charge[a].method = "SEPAY" THEN "cancelOrder"
                                     ELSE "write") EXCEPT !.c = a, !.put = "CANCELLED"]
          /\ Goto(r, q)
    BY <1>2 DEF CancelRead
  <2>2. q.op = "cancel" /\ q.put = "CANCELLED" /\ q.pc \in {"cancelOrder", "write"}
    BY <2>1 DEF Begin, Idle
  <2>3. req'[r] = q /\ Alone(r)
    BY <1>0, <2>1, Moves
  <2> QED
    BY <2>2, <2>3 DEF Backed
<1>3. ASSUME NEW closing \in BOOLEAN, SweepRead(r, closing) PROVE Backed(r)' /\ Alone(r)
  <2>1. PICK q : q = [Begin(r, "sweep", "next") EXCEPT !.put = "CANCELLED"]
    OBVIOUS
  <2>2. Goto(r, q) /\ q.op = "sweep" /\ q.put = "CANCELLED" /\ q.pc = "next"
    BY <1>3, <2>1 DEF SweepRead, Begin, Idle
  <2>3. req'[r] = q /\ Alone(r)
    BY <1>0, <2>2, Moves
  <2> QED
    BY <2>2, <2>3 DEF Backed
<1>4. ASSUME ConfirmRead(r) PROVE Backed(r)' /\ Alone(r)
  <2>1. PICK c, q :
          c \in PendingCash /\ q = [Begin(r, "confirm", "cas") EXCEPT !.c = c] /\ Goto(r, q)
    BY <1>4 DEF ConfirmRead, Newest
  <2>2. q.op = "confirm" /\ q.pc = "cas" /\ q.c = c /\ charge[c].method = "CASH" /\ c # None
    BY <1>0, <2>1, OnTicketIsCharge DEF Begin, Idle, PendingCash
  <2>3. req'[r] = q /\ Alone(r)
    BY <1>0, <2>1, Moves
  <2> QED
    BY <1>0, <2>2, <2>3 DEF Backed
<1>5. ASSUME NEW c \in Charges, IpnRead(r, c) PROVE Backed(r)' /\ Alone(r)
  <2>1. PICK q : q = [Begin(r, "ipn", "write") EXCEPT !.c = c, !.put = "HELD"]
    OBVIOUS
  <2>2. Goto(r, q) /\ q.op = "ipn" /\ q.pc = "write" /\ q.c = c /\ Paid(c)
    BY <1>5, <2>1 DEF IpnRead, Begin, Idle, Paid
  <2>3. req'[r] = q /\ Alone(r)
    BY <1>0, <2>2, Moves
  <2> QED
    BY <1>0, <2>2, <2>3 DEF Backed, Paid
<1>6. ASSUME DepositRead(r) PROVE Backed(r)' /\ Alone(r)
  <2>1. PICK q : q = [Begin(r, "deposit", "guard") EXCEPT !.m = "SEPAY", !.amt = Deposit]
    OBVIOUS
  <2>2. Goto(r, q) /\ q.pc = "guard" /\ q.op = "deposit"
    BY <1>6, <2>1 DEF DepositRead, Begin, Idle
  <2> QED
    BY <1>0, <2>2, Moves, NeutralBacked DEF Neutral
<1>7. ASSUME NEW c \in Charges, NEW x \in 1..charge[c].amount, RefundRead(r, c, x)
      PROVE  Backed(r)' /\ Alone(r)
  <2>1. PICK total, put : /\ total = charge[c].refunded + x
                          /\ put = IF total >= charge[c].amount THEN "REFUNDED" ELSE "PARTIAL"
    OBVIOUS
  <2>2. PICK q : q = [Begin(r, "refund", "write") EXCEPT !.c = c, !.amt = total, !.put = put]
    OBVIOUS
  <2>3. Goto(r, q)
    BY <1>7, <2>1, <2>2 DEF RefundRead
  <2>4. q.op = "refund" /\ q.pc = "write" /\ q.c = c
    BY <2>2 DEF Begin, Idle
  <2>5. charge[c].method = "CASH" \/ Paid(c)
    <3>1. c \in OnTicket
      BY <1>0, <1>7, StatusMeansCreated DEF RefundRead, ReceivedStatuses
    <3>2. charge[c].method \in {"CASH", "SEPAY"}
      BY <1>0, Reads DEF ChargeDoc
    <3> QED
      BY <1>7, <3>1, <3>2 DEF RefundRead, MoneyInv, MoneyIsBacked, Paid
  <2>6. req'[r] = q /\ Alone(r)
    BY <1>0, <2>3, Moves
  <2> QED
    BY <1>0, <2>4, <2>5, <2>6 DEF Backed, Paid
<1>8. ASSUME NEW total \in Bills, InvoiceRead(r, total) PROVE Backed(r)' /\ Alone(r)
  <2>1. PICK q : q = [Begin(r, "invoice", IF total = ticket.quote THEN "invoiceWrite" ELSE "adjust")
                        EXCEPT !.amt = total, !.net = Less(total, Credit)]
    OBVIOUS
  <2>2. Goto(r, q) /\ q.pc \in {"invoiceWrite", "adjust"} /\ q.op = "invoice"
    BY <1>8, <2>1 DEF InvoiceRead, Begin, Idle
  <2> QED
    BY <1>0, <2>2, Moves, NeutralBacked DEF Neutral
<1>9. ASSUME ApproveRead(r) PROVE Backed(r)' /\ Alone(r)
  <2>1. PICK q : q = Begin(r, "approve", "agree")
    OBVIOUS
  <2>2. Goto(r, q) /\ q.pc = "agree" /\ q.op = "approve"
    BY <1>9, <2>1 DEF ApproveRead, Begin, Idle
  <2> QED
    BY <1>0, <2>2, Moves, NeutralBacked DEF Neutral
<1> QED
  BY <1>1, <1>2, <1>3, <1>4, <1>5, <1>6, <1>7, <1>8, <1>9 DEF Arrive

\* clearGuard's end, and an answer with a charge that is there already.
LEMMA AfterGuardBacked ==
  ASSUME IInv, NEW r \in Requests, Backed(r), AfterGuard(r)
  PROVE  Backed(r)' /\ Alone(r)
<1>1. req[r] \in RequestDoc
  BY Reads
<1>2. CASE req[r].op = "switch"
  <2>1. PICK q : q = [req[r] EXCEPT !.op = "create", !.pc = "guard", !.put = "NONE"]
    OBVIOUS
  <2>2. Goto(r, q) /\ q.pc = "guard" /\ q.op = "create"
    BY <1>1, <1>2, <2>1 DEF AfterGuard, RequestDoc
  <2> QED
    BY <2>2, Moves, NeutralBacked DEF Neutral
<1>3. CASE req[r].op = "sweep"
  <2>1. PICK q : q = [req[r] EXCEPT !.pc = "sweep"]
    OBVIOUS
  <2>2. Goto(r, q) /\ q.pc = "sweep" /\ q.op = "sweep" /\ q.put = "CANCELLED"
    BY <1>1, <1>3, <2>1 DEF AfterGuard, RequestDoc, Backed
  <2>3. req'[r] = q /\ Alone(r)
    BY <2>2, Moves
  <2> QED
    BY <2>2, <2>3 DEF Backed
<1>4. CASE req[r].op \notin {"switch", "sweep"}
  BY <1>4, FinishBacked DEF AfterGuard
<1> QED
  BY <1>2, <1>3, <1>4

\* A request that goes on to a neutral point, as it is otherwise.
LEMMA GoesOnBacked ==
  ASSUME IInv, NEW r \in Requests, Backed(r), NEW q, Goto(r, q), q.pc \in Neutral,
         q.op = req[r].op, q.put = req[r].put
  PROVE  Backed(r)' /\ Alone(r)
<1>1. req'[r] = q /\ Alone(r)
  BY Moves
<1>2. q.op = "sweep" => q.put = "CANCELLED"
  BY DEF Backed
<1> QED
  BY <1>1, <1>2, NeutralBacked

LEMMA AsReusedBacked ==
  ASSUME IInv, NEW r \in Requests, Backed(r), NEW c, AsReused(r, c)
  PROVE  Backed(r)' /\ Alone(r)
<1>1. PICK q : q = [req[r] EXCEPT !.pc = "stamp", !.c = c, !.seen = charge[c].status]
  OBVIOUS
<1>2. q.pc \in Neutral /\ q.op = req[r].op /\ q.put = req[r].put
  BY <1>1, Reads DEF RequestDoc, Neutral
<1>3. Finish(r) \/ Goto(r, q)
  BY <1>1 DEF AsReused
<1> QED
  BY <1>2, <1>3, FinishBacked, GoesOnBacked

\* The steps of a request up to its writes.
LEMMA LookBacked ==
  ASSUME MoneyInv, NEW r \in Requests,
         CreateScan(r) \/ CreateGuarded(r) \/ CancelOrder(r) \/ SweepPending(r) \/ SweepNext(r)
  PROVE  Backed(r)' /\ Alone(r)
<1>1. IInv /\ Backed(r) /\ req[r] \in RequestDoc
  BY Reads DEF MoneyInv, BackedInv
<1>2. CASE Finish(r)
  BY <1>1, <1>2, FinishBacked
<1>3. CASE \E c : AsReused(r, c)
  BY <1>1, <1>3, AsReusedBacked
<1>4. ASSUME NEW pc \in Neutral, Goto(r, [req[r] EXCEPT !.pc = pc])
      PROVE  Backed(r)' /\ Alone(r)
  <2>1. PICK q : q = [req[r] EXCEPT !.pc = pc]
    OBVIOUS
  <2>2. q.pc = pc /\ q.op = req[r].op /\ q.put = req[r].put
    BY <1>1, <2>1 DEF RequestDoc
  <2> QED
    BY <1>1, <1>4, <2>1, <2>2, GoesOnBacked
<1>5. CASE CreateScan(r)
  <2>1. ASSUME NEW a \in OnTicket, NEW next \in {"cancelOrder", "write"},
               Goto(r, [req[r] EXCEPT !.op = "switch", !.c = a, !.put = "CANCELLED", !.pc = next])
        PROVE  Backed(r)' /\ Alone(r)
    <3>1. PICK q : q = [req[r] EXCEPT !.op = "switch", !.c = a, !.put = "CANCELLED", !.pc = next]
      OBVIOUS
    <3>2. q.op = "switch" /\ q.put = "CANCELLED" /\ q.pc = next
      BY <1>1, <3>1 DEF RequestDoc
    <3>3. req'[r] = q /\ Alone(r)
      BY <1>1, <2>1, <3>1, Moves
    <3> QED
      BY <3>2, <3>3 DEF Backed
  <2>2. \/ Finish(r) \/ \E c : AsReused(r, c)
        \/ Goto(r, [req[r] EXCEPT !.pc = "guard"])
        \/ \E a \in OnTicket : \E next \in {"cancelOrder", "write"} :
             Goto(r, [req[r] EXCEPT !.op = "switch", !.c = a, !.put = "CANCELLED", !.pc = next])
    BY <1>5 DEF CreateScan
  <2>3. "guard" \in Neutral
    BY DEF Neutral
  <2> QED
    BY <1>2, <1>3, <1>4, <2>1, <2>2, <2>3
<1>6. CASE CreateGuarded(r)
  <2>1. PICK next : next = IF req[r].op = "deposit" THEN "depositStamp" ELSE "stamp"
    OBVIOUS
  <2>2. PICK p, q : /\ p = [req[r] EXCEPT !.pc = "depositStamp", !.c = guard]
                    /\ q = [req[r] EXCEPT !.c = created + 1, !.seen = "PENDING", !.pc = next]
    OBVIOUS
  <2>3. /\ p.pc \in Neutral /\ p.op = req[r].op /\ p.put = req[r].put
        /\ q.pc \in Neutral /\ q.op = req[r].op /\ q.put = req[r].put
    BY <1>1, <2>1, <2>2 DEF RequestDoc, Neutral
  <2>4. Finish(r) \/ (\E c : AsReused(r, c)) \/ Goto(r, p) \/ Goto(r, q)
    BY <1>6, <2>1, <2>2 DEF CreateGuarded
  <2> QED
    BY <1>1, <1>2, <1>3, <2>3, <2>4, GoesOnBacked
<1>7. CASE CancelOrder(r)
  <2>1. PICK q : q = [req[r] EXCEPT !.pc = "write"]
    OBVIOUS
  <2>2. /\ Goto(r, q) \/ Finish(r)
        /\ q.pc = "write" /\ q.put = "CANCELLED" /\ q.op \notin {"confirm", "ipn"}
    BY <1>1, <1>7, <2>1 DEF CancelOrder, At, RequestDoc, Backed
  <2>3. CASE Goto(r, q)
    <3>1. req'[r] = q /\ Alone(r)
      BY <1>1, <2>3, Moves
    <3> QED
      BY <2>2, <3>1 DEF Backed
  <2> QED
    BY <1>2, <2>2, <2>3
<1>8. CASE SweepPending(r)
  <2>1. PICK q : q = [req[r] EXCEPT !.pc = "sweep",
                                   !.todo = {c \in OnTicket : charge[c].status = "PENDING"}]
    OBVIOUS
  <2>2. /\ Goto(r, q) \/ Finish(r)
        /\ q.pc = "sweep" /\ q.op = "sweep" /\ q.put = "CANCELLED"
    BY <1>1, <1>8, <2>1 DEF SweepPending, At, RequestDoc, Backed
  <2>3. CASE Goto(r, q)
    <3>1. req'[r] = q /\ Alone(r)
      BY <1>1, <2>3, Moves
    <3> QED
      BY <2>2, <3>1 DEF Backed
  <2> QED
    BY <1>2, <2>2, <2>3
<1>9. CASE SweepNext(r)
  <2>1. ASSUME NEW c \in req[r].todo,
               Goto(r, [req[r] EXCEPT !.pc = "write", !.c = c, !.todo = req[r].todo \ {c}])
        PROVE  Backed(r)' /\ Alone(r)
    <3>1. PICK q : q = [req[r] EXCEPT !.pc = "write", !.c = c, !.todo = req[r].todo \ {c}]
      OBVIOUS
    <3>2. q.pc = "write" /\ q.put = "CANCELLED" /\ q.op \notin {"confirm", "ipn"}
      BY <1>1, <1>9, <3>1 DEF SweepNext, At, RequestDoc, Backed
    <3>3. req'[r] = q /\ Alone(r)
      BY <1>1, <2>1, <3>1, Moves
    <3> QED
      BY <3>2, <3>3 DEF Backed
  <2> QED
    BY <1>2, <1>9, <2>1 DEF SweepNext
<1> QED
  BY <1>5, <1>6, <1>7, <1>8, <1>9

\* A charge that is confirmed for the first time has no commission row yet.
LEMMA ConfirmBacked ==
  ASSUME MoneyInv, NEW r \in Requests, ConfirmCas(r)
  PROVE  Backed(r)' /\ Alone(r)
<1>1. IInv /\ Backed(r) /\ req[r] \in RequestDoc
  BY Reads DEF MoneyInv, BackedInv
<1>2. PICK c : c = req[r].c
  OBVIOUS
<1>3. c \in Charges /\ charge[c] \in ChargeDoc /\ req[r].op = "confirm" /\ c # None
  BY <1>1, <1>2, Reads, WorkingCharge DEF ConfirmCas, At, Backed
<1>4. CASE charge[c].status = "PENDING"
  <2>1. PICK q, doc : /\ q = [req[r] EXCEPT !.pc = "reread"]
                      /\ doc = [charge[c] EXCEPT !.status = "CONFIRMED", !.by = r]
    OBVIOUS
  <2>2. Goto(r, q) /\ charge' = [charge EXCEPT ![c] = doc] /\ UNCHANGED <<rows, sepay>>
    BY <1>2, <1>4, <2>1 DEF ConfirmCas
  <2>3. q.pc = "reread" /\ q.op = "confirm" /\ q.c = c
    BY <1>1, <1>2, <1>3, <2>1 DEF RequestDoc
  <2>4. charge'[c].by = r
    BY <1>1, <1>3, <2>1, <2>2 DEF ChargeDoc, IInv, TypeOK
  <2>5. rows[c] = 0
    <3>1. rows[c] \in Nat
      BY <1>1, <1>3 DEF IInv, TypeOK
    <3>2. charge[c].by = Nobody
      BY <1>1, <1>3, <1>4 DEF IInv, ConfirmedInv
    <3>3. rows[c] <= 1 /\ (rows[c] = 1 => charge[c].by # Nobody)
      BY <1>3 DEF MoneyInv, MoneyIsBacked
    <3> QED
      BY <3>1, <3>2, <3>3
  <2>6. req'[r] = q /\ Alone(r)
    BY <1>1, <2>2, Moves
  <2> QED
    BY <2>2, <2>3, <2>4, <2>5, <2>6 DEF Backed
<1>5. CASE charge[c].status # "PENDING"
  BY <1>1, <1>2, <1>5, FinishBacked DEF ConfirmCas
<1> QED
  BY <1>4, <1>5

\* The second read leads a captured deposit to the ticket, and confirmed cash to the ledger.
LEMMA RereadBacked ==
  ASSUME MoneyInv, NEW r \in Requests, Reread(r)
  PROVE  Backed(r)' /\ Alone(r)
<1>1. IInv /\ Backed(r) /\ req[r] \in RequestDoc /\ Sound(req[r])
  BY Reads DEF MoneyInv, BackedInv
<1>2. PICK c : c = req[r].c
  OBVIOUS
<1>3. c # None /\ c \in OnTicket /\ UNCHANGED <<charge, sepay, rows, created>>
  BY <1>1, <1>2, WorkingCharge DEF Reread, At, Sound, Quiet
<1>4. PICK pc : pc = CASE req[r].op = "ipn" /\ charge[c].purpose = "DEPOSIT" -> "depositConfirm"
                       [] req[r].op = "confirm" /\ charge[c].amount > 0 -> "ledger"
                       [] OTHER -> "stamp"
  OBVIOUS
<1>5. PICK q : q = [req[r] EXCEPT !.seen = charge[c].status, !.pc = pc]
  OBVIOUS
<1>6. Goto(r, q)
  BY <1>2, <1>4, <1>5 DEF Reread
<1>7. q.pc = pc /\ q.op = req[r].op /\ q.put = req[r].put /\ q.c = c
  BY <1>1, <1>2, <1>5 DEF RequestDoc
<1>8. req'[r] = q /\ Alone(r)
  BY <1>1, <1>6, Moves
<1>9. CASE pc = "stamp"
  BY <1>1, <1>6, <1>7, <1>9, GoesOnBacked DEF Neutral
<1>10. CASE pc = "depositConfirm" /\ req[r].op = "ipn" /\ charge[c].purpose = "DEPOSIT"
  <2>1. Paid(c)
    BY <1>1, <1>2, <1>10 DEF Backed, Reread, At
  <2> QED
    BY <1>3, <1>7, <1>8, <1>10, <2>1 DEF Backed, Paid, OnTicket
<1>11. CASE pc = "ledger" /\ req[r].op = "confirm"
  <2>1. charge[c].by = r /\ rows[c] = 0
    BY <1>1, <1>2, <1>11 DEF Backed, Reread, At
  <2> QED
    BY <1>3, <1>7, <1>8, <1>11, <2>1 DEF Backed
<1> QED
  BY <1>4, <1>9, <1>10, <1>11

LEMMA WriteBacked ==
  ASSUME MoneyInv, [Next]_vars, NEW r \in Requests, WriteStatus(r) \/ LedgerRead(r)
  PROVE  Backed(r)' /\ Alone(r)
<1>1. IInv /\ Backed(r) /\ req[r] \in RequestDoc /\ Sound(req[r])
  BY Reads DEF MoneyInv, BackedInv
<1>2. PICK c : c = req[r].c
  OBVIOUS
<1>3. CASE WriteStatus(r)
  <2>1. PICK q : q = [req[r] EXCEPT !.pc = "reread"]
    OBVIOUS
  <2>2. Goto(r, q) /\ q.pc = "reread" /\ q.op = req[r].op /\ q.put = req[r].put /\ q.c = c
    BY <1>1, <1>2, <1>3, <2>1 DEF WriteStatus, RequestDoc
  <2>3. q.op # "confirm" /\ (q.op = "ipn" => Paid(c)) /\ (q.op = "sweep" => q.put = "CANCELLED")
    BY <1>1, <1>2, <1>3, <2>2 DEF WriteStatus, At, Backed
  <2>4. req'[r] = q /\ Alone(r) /\ UNCHANGED sepay
    BY <1>1, <1>3, <2>2, Moves DEF WriteStatus
  <2> QED
    BY <2>2, <2>3, <2>4 DEF Backed, Paid
<1>4. CASE LedgerRead(r)
  <2>1. PICK p, q : p = [req[r] EXCEPT !.pc = "stamp"] /\ q = [req[r] EXCEPT !.pc = "ledgerWrite"]
    OBVIOUS
  <2>2. /\ p.pc = "stamp" /\ p.op = req[r].op /\ p.put = req[r].put
        /\ q.pc = "ledgerWrite" /\ q.op = req[r].op /\ q.put = req[r].put /\ q.c = c
    BY <1>1, <1>2, <2>1 DEF RequestDoc
  <2>3. Goto(r, p) \/ Goto(r, q)
    BY <1>4, <2>1 DEF LedgerRead
  <2>4. /\ req[r].op = "confirm" /\ c # None /\ charge[c].by = r /\ rows[c] = 0
        /\ UNCHANGED <<charge, rows>>
    BY <1>1, <1>2, <1>4 DEF LedgerRead, At, Backed
  <2>5. CASE Goto(r, p)
    BY <1>1, <2>2, <2>5, GoesOnBacked DEF Neutral
  <2>6. CASE Goto(r, q)
    <3>1. req'[r] = q /\ Alone(r)
      BY <1>1, <2>6, Moves
    <3> QED
      BY <2>2, <2>4, <3>1 DEF Backed
  <2> QED
    BY <2>3, <2>5, <2>6
<1> QED
  BY <1>3, <1>4

\* The steps that stamp, or leave the guard behind.
LEMMA RestBacked ==
  ASSUME MoneyInv, NEW r \in Requests,
         \/ StampTicket(r) \/ GuardRead(r) \/ GuardDelete(r) \/ LedgerWrite(r)
         \/ DepositConfirm(r) \/ DepositStamp(r)
         \/ AdjustRead(r) \/ AdjustWrite(r) \/ InvoiceWrite(r) \/ ApproveWrite(r) \/ Abort(r)
  PROVE  Backed(r)' /\ Alone(r)
<1>1. IInv /\ Backed(r) /\ req[r] \in RequestDoc
  BY Reads DEF MoneyInv, BackedInv
<1>2. ASSUME NEW pc \in Neutral, Goto(r, [req[r] EXCEPT !.pc = pc])
      PROVE  Backed(r)' /\ Alone(r)
  <2>1. PICK q : q = [req[r] EXCEPT !.pc = pc]
    OBVIOUS
  <2>2. q.pc = pc /\ q.op = req[r].op /\ q.put = req[r].put
    BY <1>1, <2>1 DEF RequestDoc
  <2> QED
    BY <1>1, <1>2, <2>1, <2>2, GoesOnBacked
<1>3. ASSUME NEW c, Goto(r, [req[r] EXCEPT !.pc = "adjustWrite", !.c = c, !.seen = "PENDING"])
      PROVE  Backed(r)' /\ Alone(r)
  <2>1. PICK q : q = [req[r] EXCEPT !.pc = "adjustWrite", !.c = c, !.seen = "PENDING"]
    OBVIOUS
  <2>2. q.pc \in Neutral /\ q.op = req[r].op /\ q.put = req[r].put
    BY <1>1, <2>1 DEF RequestDoc, Neutral
  <2> QED
    BY <1>1, <1>3, <2>1, <2>2, GoesOnBacked
<1>4. \/ Finish(r) \/ AfterGuard(r)
      \/ \E pc \in {"guardRead", "invoiceWrite", "guardDelete", "stamp"} :
           Goto(r, [req[r] EXCEPT !.pc = pc])
      \/ \E c : Goto(r, [req[r] EXCEPT !.pc = "adjustWrite", !.c = c, !.seen = "PENDING"])
  BY DEF StampTicket, GuardRead, GuardDelete, LedgerWrite, DepositConfirm, DepositStamp, AdjustRead,
         AdjustWrite, InvoiceWrite, ApproveWrite, Abort
<1>5. {"guardRead", "invoiceWrite", "guardDelete", "stamp"} \subseteq Neutral
  BY DEF Neutral
<1> QED
  BY <1>1, <1>2, <1>3, <1>4, <1>5, FinishBacked, AfterGuardBacked

LEMMA BackedKept ==
  ASSUME MoneyInv, [Next]_vars
  PROVE  BackedInv'
<1> SUFFICES ASSUME NEW s \in Requests PROVE Backed(s)'
  BY DEF BackedInv
<1>1. IInv /\ Backed(s)
  BY DEF MoneyInv, BackedInv
<1>2. CASE UNCHANGED req /\ UNCHANGED rows
  BY <1>2, OthersBacked
<1>3. ASSUME NEW r \in Requests, Backed(r)', Alone(r), UNCHANGED rows
      PROVE  Backed(s)'
  <2>1. CASE s = r
    BY <1>3, <2>1
  <2>2. CASE s # r
    BY <1>3, <2>2, OthersBacked DEF Alone
  <2> QED
    BY <2>1, <2>2
<1>4. ASSUME NEW r \in Requests, LedgerWrite(r)
      PROVE  Backed(s)'
  <2>1. Backed(r)' /\ Alone(r)
    BY <1>4, RestBacked
  <2>2. CASE s = r
    BY <2>1, <2>2
  <2>3. CASE s # r
    <3>1. req'[s] = req[s]
      BY <2>1, <2>3 DEF Alone
    <3>2. rows' = [rows EXCEPT ![req[r].c] = rows[req[r].c] + 1] \/ UNCHANGED rows
      BY <1>4 DEF LedgerWrite
    <3>3. Backed(r) /\ req[r].op = "confirm" /\ charge[req[r].c].by = r
      BY <1>4 DEF MoneyInv, BackedInv, LedgerWrite, At, Backed
    <3>4. ASSUME req[s].op = "confirm", req[s].pc \in {"reread", "ledger", "ledgerWrite"}
          PROVE  rows'[req[s].c] = rows[req[s].c]
      <4>1. charge[req[s].c].by = s
        BY <1>1, <3>4 DEF Backed
      <4>2. req[s].c # req[r].c
        BY <2>3, <3>3, <4>1
      <4>3. req[s].c # None
        BY <1>1, <3>4, Reads DEF Backed, Sound
      <4>4. PICK x, y : x = req[s].c /\ y = req[r].c
        OBVIOUS
      <4>5. x \in Charges /\ x # y /\ rows \in [Charges -> Nat]
        BY <1>1, <4>2, <4>3, <4>4, WorkingCharge DEF IInv, TypeOK
      <4>6. rows' = [rows EXCEPT ![y] = rows[y] + 1] \/ rows' = rows
        BY <3>2, <4>4
      <4>7. rows'[x] = rows[x]
        BY <4>5, <4>6
      <4> QED
        BY <4>4, <4>7
    <3> QED
      BY <3>1, <3>4, OthersBacked
  <2> QED
    BY <2>2, <2>3
<1>5. ASSUME NEW r \in Requests, Arrive(r)
      PROVE  Backed(s)'
  <2>1. UNCHANGED rows
    BY <1>5 DEF Arrive, CreateRead, CancelRead, SweepRead, ConfirmRead, IpnRead, DepositRead,
                RefundRead, InvoiceRead, ApproveRead, Quiet
  <2> QED
    BY <1>3, <1>5, <2>1, ArriveBacked
<1>6. ASSUME NEW r \in Requests, Handle(r), ~LedgerWrite(r)
      PROVE  Backed(s)'
  <2>1. UNCHANGED rows
    BY <1>6 DEF Handle, CreateScan, CreateGuarded, CancelOrder, SweepPending, SweepNext, WriteStatus,
                Reread, StampTicket, GuardRead, GuardDelete, ConfirmCas, LedgerRead, DepositConfirm,
                DepositStamp, AdjustRead, AdjustWrite, InvoiceWrite, ApproveWrite, Quiet
  <2>2. Backed(r)' /\ Alone(r)
    BY <1>6, LookBacked, ConfirmBacked, RereadBacked, WriteBacked, RestBacked DEF Handle
  <2> QED
    BY <1>3, <2>1, <2>2
<1>7. ASSUME NEW r \in Requests, Abort(r)
      PROVE  Backed(s)'
  BY <1>3, <1>7, RestBacked DEF Abort
<1>8. ASSUME NEW c \in Charges, Gateway(c)
      PROVE  Backed(s)'
  BY <1>2, <1>8 DEF Gateway, ServeCheckout, SubmitForm, Capture
<1>9. CASE UNCHANGED vars
  BY <1>2, <1>9 DEF vars
<1> QED
  BY <1>4, <1>5, <1>6, <1>7, <1>8, <1>9 DEF Next

\* A status that says money came in is written on a charge that was paid or is cash.
LEMMA ReceivedKept ==
  ASSUME MoneyInv, [Next]_vars
  PROVE  \A c \in OnTicket' :
           charge'[c].method = "SEPAY" /\ charge'[c].status \in ReceivedStatuses \union {"REFUNDED"}
             => Paid(c)'
<1>1. /\ IInv /\ created \in Nat /\ \A c \in Charges : charge[c] \in ChargeDoc
      /\ charge \in [Charges -> ChargeDoc]
  BY Reads DEF MoneyInv, IInv, TypeOK
<1>2. \A c \in OnTicket :
        charge[c].method = "SEPAY" /\ charge[c].status \in ReceivedStatuses \union {"REFUNDED"}
          => Paid(c)'
  BY <1>1, Lasting, OnTicketIsCharge DEF MoneyInv, MoneyIsBacked, Paid
<1>3. CASE UNCHANGED <<charge, created>>
  BY <1>2, <1>3 DEF OnTicket
<1>4. ASSUME NEW r \in Requests, CreateGuarded(r), ~UNCHANGED charge
      PROVE  \A c \in OnTicket' :
               charge'[c].method = "SEPAY"
                 /\ charge'[c].status \in ReceivedStatuses \union {"REFUNDED"} => Paid(c)'
  <2>1. PICK doc : doc = [Blank EXCEPT
                       !.purpose = IF req[r].op = "deposit" THEN "DEPOSIT" ELSE "BALANCE",
                       !.method = req[r].m, !.amount = req[r].amt, !.status = "PENDING"]
    OBVIOUS
  <2>2. /\ created' = created + 1 /\ created < MaxCharges
        /\ charge' = [charge EXCEPT ![created + 1] = doc]
    BY <1>4, <2>1 DEF CreateGuarded, Quiet
  <2>3. doc.status = "PENDING"
    BY <2>1 DEF Blank
  <2>4. created + 1 \in Charges /\ OnTicket' = OnTicket \union {created + 1}
        /\ created + 1 \notin OnTicket
    BY <1>1, <2>2, PaymentsAssumption DEF Charges, OnTicket
  <2> QED
    BY <1>1, <1>2, <2>2, <2>3, <2>4, OnTicketIsCharge DEF ReceivedStatuses
<1>5. ASSUME NEW r \in Requests, WriteStatus(r)
      PROVE  \A c \in OnTicket' :
               charge'[c].method = "SEPAY"
                 /\ charge'[c].status \in ReceivedStatuses \union {"REFUNDED"} => Paid(c)'
  <2>1. PICK x, doc : x = req[r].c /\ doc = [charge[x] EXCEPT !.status = req[r].put,
                                                            !.refunded = Refunded(r)]
    OBVIOUS
  <2>2. charge' = [charge EXCEPT ![x] = doc] /\ UNCHANGED <<created, sepay>>
    BY <1>5, <2>1 DEF WriteStatus
  <2>3. x \in Charges /\ x \in OnTicket
    BY <1>1, <1>5, <2>1, Reads, WorkingCharge DEF WriteStatus, At, Sound
  <2>4. doc.method = charge[x].method /\ doc.status = req[r].put
    BY <1>1, <2>1, <2>3 DEF ChargeDoc
  <2>5. req[r].put = "CANCELLED" \/ charge[x].method = "CASH" \/ Paid(x)
    BY <1>5, <2>1 DEF MoneyInv, BackedInv, Backed, WriteStatus, At
  <2> QED
    BY <1>1, <1>2, <2>2, <2>3, <2>4, <2>5, OnTicketIsCharge DEF ReceivedStatuses, OnTicket, Paid
<1>6. ASSUME NEW r \in Requests, ConfirmCas(r), ~UNCHANGED charge
      PROVE  \A c \in OnTicket' :
               charge'[c].method = "SEPAY"
                 /\ charge'[c].status \in ReceivedStatuses \union {"REFUNDED"} => Paid(c)'
  <2>1. PICK x, doc : x = req[r].c /\ doc = [charge[x] EXCEPT !.status = "CONFIRMED", !.by = r]
    OBVIOUS
  <2>2. charge' = [charge EXCEPT ![x] = doc] /\ UNCHANGED created
    BY <1>6, <2>1 DEF ConfirmCas
  <2>3. x \in Charges /\ x \in OnTicket
    BY <1>1, <1>6, <2>1, Reads, WorkingCharge DEF ConfirmCas, At, Sound
  <2>4. doc.method = "CASH"
    BY <1>1, <1>6, <2>1, <2>3 DEF ChargeDoc, MoneyInv, BackedInv, Backed, ConfirmCas, At
  <2> QED
    BY <1>1, <1>2, <2>2, <2>3, <2>4, OnTicketIsCharge DEF OnTicket
<1>7. ASSUME NEW r \in Requests, AdjustWrite(r)
      PROVE  \A c \in OnTicket' :
               charge'[c].method = "SEPAY"
                 /\ charge'[c].status \in ReceivedStatuses \union {"REFUNDED"} => Paid(c)'
  <2>1. PICK x, doc : x = req[r].c /\ doc = [charge[x] EXCEPT !.amount = req[r].net]
    OBVIOUS
  <2>2. charge' = [charge EXCEPT ![x] = doc] /\ UNCHANGED created
    BY <1>7, <2>1 DEF AdjustWrite
  <2>3. x \in Charges => doc.method = charge[x].method /\ doc.status = charge[x].status
    BY <1>1, <2>1 DEF ChargeDoc
  <2> QED
    BY <1>1, <1>2, <2>2, <2>3, OnTicketIsCharge DEF OnTicket
<1>8. UNCHANGED charge => UNCHANGED <<charge, created>>
  <2>1. ASSUME NEW r \in Requests, CreateGuarded(r), UNCHANGED charge PROVE UNCHANGED created
    <3>1. PICK doc : doc = [Blank EXCEPT
                       !.purpose = IF req[r].op = "deposit" THEN "DEPOSIT" ELSE "BALANCE",
                       !.method = req[r].m, !.amount = req[r].amt, !.status = "PENDING"]
      OBVIOUS
    <3>2. UNCHANGED created \/ (created < MaxCharges /\ charge' = [charge EXCEPT ![created + 1] = doc])
      BY <2>1, <3>1 DEF CreateGuarded, Quiet
    <3>3. created + 1 \notin OnTicket /\ (created < MaxCharges => created + 1 \in Charges)
      BY <1>1, PaymentsAssumption DEF OnTicket, Charges
    <3>4. doc.status = "PENDING" /\ Blank.status = "NONE"
      BY <3>1 DEF Blank
    <3> QED
      BY <1>1, <2>1, <3>2, <3>3, <3>4 DEF IInv, UnusedInv
  <2>2. ASSUME NEW r \in Requests, Arrive(r) PROVE UNCHANGED created
    BY <2>2 DEF Arrive, CreateRead, CancelRead, SweepRead, ConfirmRead, IpnRead, DepositRead,
                RefundRead, InvoiceRead, ApproveRead, Quiet
  <2>3. ASSUME NEW r \in Requests, Handle(r), ~CreateGuarded(r) PROVE UNCHANGED created
    BY <2>3 DEF Handle, CreateScan, CancelOrder, SweepPending, SweepNext, WriteStatus, Reread,
                StampTicket, GuardRead, GuardDelete, ConfirmCas, LedgerRead, LedgerWrite,
                DepositConfirm, DepositStamp, AdjustRead, AdjustWrite, InvoiceWrite, ApproveWrite, Quiet
  <2> QED
    BY <2>1, <2>2, <2>3 DEF Next, Abort, Gateway, ServeCheckout, SubmitForm, Capture, vars
<1> QED
  BY <1>3, <1>4, <1>5, <1>6, <1>7, <1>8, ChargeWriters DEF vars

\* Only markDepositConfirmed says that the deposit was collected.
LEMMA DepositKept ==
  ASSUME MoneyInv, [Next]_vars, ticket'.deposit = "CONFIRMED"
  PROVE  \E c \in OnTicket' : charge'[c].purpose = "DEPOSIT" /\ Paid(c)'
<1>1. IInv /\ ticket \in TicketDoc
  BY Reads DEF MoneyInv
<1>2. ASSUME NEW c \in OnTicket, charge[c].purpose = "DEPOSIT", Paid(c)
      PROVE  \E d \in OnTicket' : charge'[d].purpose = "DEPOSIT" /\ Paid(d)'
  BY <1>1, <1>2, Lasting, OnTicketIsCharge
<1>3. CASE ticket.deposit = "CONFIRMED"
  BY <1>2, <1>3 DEF MoneyInv, MoneyIsBacked, Paid
<1>4. CASE \E r \in Requests : DepositConfirm(r)
  BY <1>2, <1>4 DEF DepositConfirm, At, MoneyInv, BackedInv, Backed
<1>5. CASE ticket.deposit # "CONFIRMED" /\ ~\E r \in Requests : DepositConfirm(r)
  <2>1. ASSUME NEW r \in Requests, Arrive(r) PROVE ticket'.deposit = ticket.deposit
    BY <1>1, <2>1 DEF Arrive, CreateRead, CancelRead, SweepRead, ConfirmRead, IpnRead, DepositRead,
                      RefundRead, InvoiceRead, ApproveRead, Quiet, TicketDoc
  <2>2. ASSUME NEW r \in Requests,
               StampTicket(r) \/ DepositStamp(r) \/ InvoiceWrite(r) \/ ApproveWrite(r)
        PROVE  ticket'.deposit \in {ticket.deposit, "REQUESTED"}
    BY <1>1, <2>2 DEF StampTicket, DepositStamp, InvoiceWrite, ApproveWrite, TicketDoc
  <2>3. ASSUME NEW r \in Requests, Handle(r), ~StampTicket(r), ~DepositStamp(r),
               ~InvoiceWrite(r), ~ApproveWrite(r)
        PROVE  UNCHANGED ticket
    BY <1>5, <2>3 DEF Handle, CreateScan, CreateGuarded, CancelOrder, SweepPending, SweepNext,
                      WriteStatus, Reread, GuardRead, GuardDelete, ConfirmCas, LedgerRead,
                      LedgerWrite, AdjustRead, AdjustWrite, Quiet
  <2> QED
    BY <1>5, <2>1, <2>2, <2>3 DEF Next, Abort, Gateway, ServeCheckout, SubmitForm, Capture, vars
<1> QED
  BY <1>3, <1>4, <1>5

\* One commission row a charge, for cash that somebody confirmed.
LEMMA RowsKept ==
  ASSUME MoneyInv, [Next]_vars, NEW c \in Charges
  PROVE  rows'[c] <= 1 /\ (rows'[c] = 1 => charge'[c].by # Nobody)
<1>1. IInv /\ rows[c] <= 1 /\ (rows[c] = 1 => charge[c].by # Nobody)
  BY DEF MoneyInv, MoneyIsBacked
<1>2. charge[c].by # Nobody => charge'[c].by = charge[c].by
  BY <1>1, ChargeChanges DEF CashConfirmedOnceStep
<1>3. CASE rows'[c] = rows[c]
  BY <1>1, <1>2, <1>3
<1>4. ASSUME NEW r \in Requests, LedgerWrite(r), rows'[c] # rows[c]
      PROVE  rows'[c] <= 1 /\ (rows'[c] = 1 => charge'[c].by # Nobody)
  <2>1. rows' = [rows EXCEPT ![req[r].c] = rows[req[r].c] + 1]
    BY <1>4 DEF LedgerWrite
  <2>2. c = req[r].c /\ rows'[c] = rows[c] + 1
    BY <1>1, <1>4, <2>1 DEF IInv, TypeOK
  <2>3. charge[c].by = r /\ rows[c] = 0
    BY <1>4, <2>2 DEF MoneyInv, BackedInv, Backed, LedgerWrite, At
  <2> QED
    BY <1>2, <2>2, <2>3, PaymentsAssumption
<1>5. ASSUME NEW r \in Requests, Arrive(r) PROVE UNCHANGED rows
  BY <1>5 DEF Arrive, CreateRead, CancelRead, SweepRead, ConfirmRead, IpnRead, DepositRead,
              RefundRead, InvoiceRead, ApproveRead, Quiet
<1>6. ASSUME NEW r \in Requests, Handle(r), ~LedgerWrite(r) PROVE UNCHANGED rows
  BY <1>6 DEF Handle, CreateScan, CreateGuarded, CancelOrder, SweepPending, SweepNext, WriteStatus,
              Reread, StampTicket, GuardRead, GuardDelete, ConfirmCas, LedgerRead, DepositConfirm,
              DepositStamp, AdjustRead, AdjustWrite, InvoiceWrite, ApproveWrite, Quiet
<1> QED
  BY <1>3, <1>4, <1>5, <1>6 DEF Next, Abort, Gateway, ServeCheckout, SubmitForm, Capture, vars

\* Through any number of instances that interleave, fail and die, whatever says that money
\* came in is backed by money: a SePay charge is received or refunded only when SePay
\* captured its order, a deposit is credited only when one was captured, and a commission
\* is owed once, for cash that somebody confirmed.
THEOREM MoneyStaysBacked == Spec => []MoneyIsBacked
<1>1. Init => MoneyInv
  <2> SUFFICES ASSUME Init PROVE MoneyInv
    OBVIOUS
  <2>1. BackedInv
    BY DEF Init, BackedInv, Backed, Idle
  <2>2. OnTicket = {} /\ ticket.deposit = "NONE" /\ \A c \in Charges : rows[c] = 0
    BY DEF Init, OnTicket
  <2> QED
    BY <2>1, <2>2, InitIInv DEF MoneyInv, MoneyIsBacked
<1>2. MoneyInv /\ [Next]_vars => MoneyInv'
  <2> SUFFICES ASSUME MoneyInv, [Next]_vars PROVE MoneyInv'
    OBVIOUS
  <2>1. IInv'
    BY NextIInv DEF MoneyInv
  <2>2. MoneyIsBacked'
    BY ReceivedKept, DepositKept, RowsKept DEF MoneyIsBacked, Paid
  <2> QED
    BY <2>1, <2>2, BackedKept DEF MoneyInv
<1> QED
  BY <1>1, <1>2, PTL DEF Spec, MoneyInv
=============================================================================
