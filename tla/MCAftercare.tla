----------------------------- MODULE MCAftercare -----------------------------
(* A walk-in booked with a deposit or not, in kinds of behaviour that each keep to *)
(* one subject: its charges, its work order, the tow back, and what is asked later. *)
EXTENDS Aftercare

Scope(charges, quotes, invoices, tows, faultsAllowed) ==
  [charges |-> charges, quotes |-> quotes, invoices |-> invoices, tows |-> tows, faults |-> faultsAllowed]

MCCare == Scope(2, 2, 0, 0, 1) :> [topics |-> {}, calls |-> 0]
       @@ Scope(2, 1, 1, 0, 1) :> [topics |-> {}, calls |-> 0]
       @@ Scope(2, 1, 0, 2, 1) :> [topics |-> {}, calls |-> 0]
       @@ Scope(1, 1, 0, 0, 0) :> [topics |-> {"dispute"}, calls |-> 2]
       @@ Scope(1, 0, 1, 0, 1) :> [topics |-> {"dispute"}, calls |-> 2]
       @@ Scope(1, 0, 0, 0, 0) :> [topics |-> {"dispute"}, calls |-> 3]
       @@ Scope(2, 0, 0, 0, 0) :> [topics |-> {"warranty"}, calls |-> 5]
       @@ Scope(2, 0, 1, 0, 1) :> [topics |-> {"invoice"}, calls |-> 2]
MCScopes == DOMAIN MCCare
=============================================================================
