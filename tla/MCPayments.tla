----------------------------- MODULE MCPayments -----------------------------
(* Instances of Payments for TLC: one Cloud Run instance whose calls may fail at *)
(* any point, or two that never fail and interleave in every way.                *)
EXTENDS Payments, FiniteSets, TLC

CONSTANTS r1, r2

TwoSlots == {r1, r2}
SlotSymmetry == Permutations(TwoSlots)

\* Named bound of a behaviour, chosen at the start.
VARIABLE pace

Serial == Cardinality({r \in Requests : ~At(r, "idle")}) <= 1

MCInit == Init /\ pace \in {"serial", "race"}
MCNext ==
  /\ Next /\ UNCHANGED pace
  /\ IF pace = "serial" THEN Serial' ELSE Smooth
MCSpec == MCInit /\ [][MCNext]_<<vars, pace>>

\* Bounds.  Invoices are made and agreed to on a ticket quoted at the lower bill, before it
\* has a second charge, which follows no invoice or one that raised the bill.  With two
\* requests in flight a second charge follows no deposit; pending charges are swept, and
\* the higher bill is charged, on a ticket with one charge, and it is charged, and an
\* invoice made, only where there is no deposit.
LowBill ==
  /\ Bill = 1 /\ ticket.invoice = None /\ \A c \in Charges : charge[c].amount <= 1
  /\ \A r \in Requests : req[r].op # "invoice"
Bounds ==
  /\ \A r \in Requests : req[r].op \in {"invoice", "approve"} => created <= 1 /\ ticket.quote = 1
  /\ created > 1 => ticket.invoice = None \/ Bill = 2
  /\ pace = "race" =>
       /\ created <= 1 \/ ticket.deposit = "NONE"
       /\ (created <= 1 /\ ticket.deposit = "NONE") \/ LowBill
       /\ created <= 1 \/ \A r \in Requests : req[r].op # "sweep"

\* With requests handled one at a time charges follow each other: the guard keeps its
\* promise, the ticket shows its charge when no call failed, and a charge that was
\* cancelled or refunded is never held (createGuarded, stampTicketPayment;
\* handleSepayIpn takes a PENDING charge only).
ChargesInTurn ==
  [][pace = "serial" => OneActiveCharge' /\ ClosedNeverHeldStep]_<<vars, pace>>
=============================================================================
