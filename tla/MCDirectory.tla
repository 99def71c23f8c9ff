---------------------------- MODULE MCDirectory ----------------------------
(* Calls on nobody's records, on a tower's, on a tower's and a mobile shop's that *)
(* share a vehicle, and on a shop's; vehicles there already are numbered 0.  Then *)
(* ratings of the shop and the tower of one rider's two tickets.                 *)
EXTENDS Ratings

CONSTANTS ann, bob, plate1, plate2

Licence(kind, plate, v) ==
  [kind |-> kind, op |-> ann, plate |-> plate, type |-> IF plate = Nothing THEN Nothing ELSE "CAR",
   vehicle |-> v, status |-> "ACTIVE", suspended |-> FALSE, accepting |-> TRUE]
Applied(kind, plate, v) == [Licence(kind, plate, v) EXCEPT !.status = "PENDING", !.accepting = FALSE]
Car == 0 :> [owner |-> ann, type |-> "CAR"]
Start(prv, veh, n, open) ==
  [prov |-> prv, vehicle |-> veh, report |-> <<>>, office |-> [calls |-> n, desks |-> open]]
Tower == plate1 :> Licence("TOW", plate1, 0)
Both == Tower @@ 0 :> Licence("MOBILE_SHOP", plate1, 0)
Shop == 0 :> Licence("SHOP", Nothing, Nothing)

MCFounded ==
  {Start(<<>>, <<>>, 2, {"register"}),
   Start(Tower, Car, 2, {"register", "license"}),
   Start(plate1 :> Applied("TOW", plate1, 0), Car, 3, {"license", "garage"}),
   Start(Tower, Car, 4, {"discipline", "map"}),
   Start(Tower, Car, 4, {"license", "map", "tickets"}),
   Start(Both, Car, 3, {"edit", "tickets"}),
   Start(Both, Car, 3, {"garage", "tickets"}),
   Start(Shop, <<>>, 3, {"edit", "license", "tickets"}),
   Start(Shop, <<>>, 0, {"ratings"})}

\* A walk-in, and a tow to the shop, which did the work.
MCResolved ==
  1 :> [rider |-> bob, uid |-> ann, shop |-> 0, destination |-> Nothing, done |-> FALSE]
  @@ 2 :> [rider |-> bob, uid |-> ann, shop |-> Nothing, destination |-> 0, done |-> TRUE]
=============================================================================
