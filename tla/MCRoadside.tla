----------------------------- MODULE MCRoadside -----------------------------
(* What surrounds a tow and a shop, four specifications that share no variable, *)
(* in one run: a tow's fare (TowFare: a car, two tow trucks, one with its own  *)
(* card, a shop and a place), its drop-off (DropOff: two shops and a place),    *)
(* its chat (Chat: two helpers), and the hours of a shop (Hours: a week of      *)
(* three days of four minutes).                                             *)
EXTENDS TowFare, Chat, DropOff, Hours

CONSTANTS w1, w2, s1, p1, h1, h2, g1, g2

MCHaul == s1 :> 2000 @@ p1 :> 1200
MCPlatform == [base |-> 5000, perKm |-> 250, included |-> 1000, minimum |-> 0,
               deadheadPayable |-> TRUE]
MCCard == w1 :> None @@ w2 :> [base |-> 6000, perKm |-> 200]
MCWaitRate == w1 :> 10 @@ w2 :> 20

\* The schedules of one or two entries, of a shop that takes no bookings, and
\* twelve shops that do.
MCEntries == [day : {2, Every}, open : 0..Midnight, close : 0..Midnight]
MCShut(hours) ==
  [hours |-> hours, own |-> {}, enabled |-> FALSE, alwaysOpen |-> FALSE,
   slot |-> 1, capacity |-> 1, lead |-> 1, horizon |-> 1]
MCDaily == [day |-> Every, open |-> 1, close |-> 3]
MCNight == [day |-> Every, open |-> 2, close |-> 1]
MCFirstDay == [day |-> 0, open |-> 0, close |-> 2]
MCBooked ==
  {[MCShut(h) EXCEPT !.enabled = TRUE, !.own = x[1], !.alwaysOpen = x[2],
                     !.slot = y, !.horizon = 3 - y] :
     h \in {{MCDaily}, {MCNight, MCFirstDay}}, y \in {1, 2},
     x \in {<<{}, FALSE>>, <<{MCFirstDay}, FALSE>>, <<{}, TRUE>>}}
MCSettings == {MCShut({x, y}) : x, y \in MCEntries} \cup MCBooked

\* Which of the four a behaviour is about; the others stay as they began.
VARIABLE side

OfFare(A) == side = "fare" /\ A /\ UNCHANGED <<chatVars, dropVars, hoursVars, side>>
OfChat(A) == side = "chat" /\ A /\ UNCHANGED <<fareVars, dropVars, hoursVars, side>>
OfDropOff(A) == side = "drop-off" /\ A /\ UNCHANGED <<fareVars, chatVars, hoursVars, side>>
OfHours(A) == side = "hours" /\ A /\ UNCHANGED <<fareVars, chatVars, dropVars, side>>
all == <<fareVars, chatVars, dropVars, hoursVars, side>>

MCInit ==
  /\ side \in {"fare", "chat", "drop-off", "hours"}
  /\ FareInit /\ ChatInit /\ DropInit
  /\ side # "chat" => scope = "TOW"
  /\ side # "drop-off" => drop.dest = Place
  /\ side # "fare" => ticket.dest = p1
  /\ IF side = "hours" THEN HoursInit
     ELSE /\ shop = MCShut({}) /\ minute = 0 /\ offer = NoOffer
          /\ wish = Unset /\ confirmed = {}

\* A chat, a drop-off or a shop may be left alone for good; a tow may not.
LeftAlone == side # "fare" /\ UNCHANGED all

MCNext == OfFare(FareNext) \/ OfChat(ChatNext) \/ OfDropOff(DropNext) \/ OfHours(HoursNext) \/ LeftAlone

MCSpec == MCInit /\ [][MCNext]_all

\* The helpers are alike: the first to be assigned is h1.  At most two handlers
\* work on a drop-off at a time.  A room that was kept, and a drop-off that was
\* written over, are not followed further, nor are bookings past the first day.
Followed ==
  \/ side = "fare"
  \/ side = "chat" /\ ~kept /\ (job.version = 0 => job.assigned # h2)
  \/ /\ side = "drop-off" /\ ~crossed
     /\ Cardinality({a \in Actors : asked[a] # NotAsked}) <= 2
  \/ side = "hours" /\ (shop.enabled => minute < Midnight)
==============================================================================
