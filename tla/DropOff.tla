------------------------------ MODULE DropOff ------------------------------
(***************************************************************************)
(* Where a tow ends: the drop-off the rider picks and picks again, the shop *)
(* that declines it, the repair estimate the shop sends ahead, the rider's   *)
(* answer, and the delivery that hands the vehicle over (shop/estimate,      *)
(* shop/destination, tickets/destination, and the delivery in                *)
(* updateDispatchStatus with spawnShopTicket).                              *)
(*                                                                         *)
(* Every handler reads the ticket, checks it, and writes without looking     *)
(* again.  The tow's fare and waiting clock are module TowFare; admins do    *)
(* not act here (named bound).                                              *)
(***************************************************************************)
EXTENDS Naturals

CONSTANTS Absent, Driver, Tower,
          Garages,        \* the shops that may be picked
          Place,          \* a drop-off that is no shop
          MaxEstimates    \* bound: estimates sent

ASSUME DropOffAssumption ==
  /\ MaxEstimates \in Nat /\ Place \notin Garages
  /\ Absent \notin Garages \cup {"approve", "pick"}

Drops == Garages \cup {Place}
Actors == Garages \cup {Driver, Tower}

VARIABLES drop,      \* the ticket: over or not, destinationShopId, declinedShopIds, needsNewDestination
          estimate,  \* the ticket: estimateAmount, estimateBy, estimateExpiresAt, estimateApprovedAt
          duty,      \* the shops: "open", "off" duty, "gone" (suspended or no longer active)
          asked,     \* handlers in flight
          walkIn,    \* the walk-in the delivery filed: at which shop
          sent,
          refused,   \* history: the shops that declined, or whose estimate was declined
          misled,    \* history: the vehicle was handed to a shop that had refused it
          crossed    \* history: a handler wrote over what had changed under it

dropVars == <<drop, estimate, duty, asked, walkIn, sent, refused, misled, crossed>>

NoEstimate == [amount |-> Absent, by |-> Absent, ends |-> Absent, approved |-> FALSE]
NotAsked == [op |-> Absent, dest |-> Absent, declined |-> {}, amount |-> Absent]

\* createDispatch stored a tow to a shop on duty, or to a place.
DropInit ==
  /\ duty = [g \in Garages |-> "open"]
  /\ \E d \in Drops : drop = [over |-> FALSE, dest |-> d, declined |-> {}, needs |-> FALSE]
  /\ estimate = NoEstimate /\ asked = [a \in Actors |-> NotAsked]
  /\ walkIn = Absent /\ sent = 0 /\ refused = {} /\ misled = FALSE /\ crossed = FALSE

Reading(a, op, dest, amount) ==
  /\ asked[a] = NotAsked
  /\ asked' = [asked EXCEPT ![a] = [op |-> op, dest |-> dest, declined |-> drop.declined, amount |-> amount]]
  /\ UNCHANGED <<drop, estimate, duty, walkIn, sent, refused, misled, crossed>>
Writes(a, op) == asked[a].op = op /\ asked' = [asked EXCEPT ![a] = NotAsked]
Crossing(wrong) == crossed' = (crossed \/ wrong)

\* The four fields that every clearing of an estimate resets; estimateBy stays.
Cleared == [estimate EXCEPT !.amount = Absent, !.ends = Absent, !.approved = FALSE]

------------------------------------------------------------------------------
(* The estimate *)

SendRead(g) ==
  /\ ~drop.over /\ drop.dest = g /\ sent < MaxEstimates
  /\ ~estimate.approved /\ estimate.ends # "live"
  /\ Reading(g, "send", g, Absent)

SendWrite(g) ==
  /\ Writes(g, "send") /\ sent' = sent + 1
  /\ estimate' = [amount |-> sent, by |-> g, ends |-> "live", approved |-> FALSE]
  /\ Crossing(drop.dest # g)
  /\ UNCHANGED <<drop, duty, walkIn, refused, misled>>

Lapse ==
  /\ estimate.ends = "live" /\ estimate' = [estimate EXCEPT !.ends = "past"]
  /\ UNCHANGED <<drop, duty, asked, walkIn, sent, refused, misled, crossed>>

\* Neither answer looks at the ticket's status.
ApproveRead ==
  /\ estimate.amount # Absent /\ ~estimate.approved /\ estimate.ends # "past"
  /\ Reading(Driver, "approve", drop.dest, estimate.amount)

ApproveWrite ==
  /\ Writes(Driver, "approve")
  /\ estimate' = [estimate EXCEPT !.approved = TRUE]
  /\ Crossing(estimate.amount # asked[Driver].amount)
  /\ UNCHANGED <<drop, duty, walkIn, sent, refused, misled>>

\* The rider may name the shop, else it is the drop-off.
DeclineRead ==
  /\ estimate.amount # Absent
  /\ \E g \in Garages \cup {drop.dest} : Reading(Driver, "decline", drop.dest, g)

\* Mutant of DeclineWrite: the shop loses the drop-off and is not remembered.
DeclineWriteForgets ==
  LET was == asked[Driver]
      shop == was.amount
  IN
  /\ Writes(Driver, "decline")
  /\ estimate' = Cleared
  /\ drop' = [drop EXCEPT !.dest = IF shop = was.dest /\ shop \in Garages THEN Absent ELSE @,
                          !.needs = @ \/ (shop = was.dest /\ shop \in Garages)]
  /\ refused' = refused \cup ({shop} \cap Garages)
  /\ Crossing(drop.declined # was.declined \/ drop.dest # was.dest)
  /\ UNCHANGED <<duty, walkIn, sent, misled>>

\* Only what was read is compared: a drop-off that is the declined shop is
\* cleared, and the list is written as it was read, with that shop.
DeclineWrite ==
  LET was == asked[Driver]
      shop == was.amount
  IN
  /\ Writes(Driver, "decline")
  /\ estimate' = Cleared
  /\ drop' = [drop EXCEPT !.declined = IF shop \in Garages THEN was.declined \cup {shop} ELSE @,
                          !.dest = IF shop = was.dest /\ shop \in Garages THEN Absent ELSE @,
                          !.needs = @ \/ (shop = was.dest /\ shop \in Garages)]
  /\ refused' = refused \cup ({shop} \cap Garages)
  /\ Crossing(drop.declined # was.declined \/ drop.dest # was.dest)
  /\ UNCHANGED <<duty, walkIn, sent, misled>>

------------------------------------------------------------------------------
(* The drop-off *)

ShopDeclineRead(g) ==
  /\ ~drop.over /\ drop.dest = g
  /\ Reading(g, "refuse", g, Absent)

\* Mutant of ShopDeclineWrite: the estimate of the shop that bows out stays.
ShopDeclineWriteKeeps(g) ==
  /\ Writes(g, "refuse")
  /\ drop' = [drop EXCEPT !.dest = Absent, !.needs = TRUE, !.declined = asked[g].declined \cup {g}]
  /\ refused' = refused \cup {g}
  /\ Crossing(drop.declined # asked[g].declined \/ drop.over)
  /\ UNCHANGED <<estimate, duty, walkIn, sent, misled>>

\* The drop-off is cleared, whichever it is by now.
ShopDeclineWrite(g) ==
  /\ Writes(g, "refuse")
  /\ drop' = [drop EXCEPT !.dest = Absent, !.needs = TRUE, !.declined = asked[g].declined \cup {g}]
  /\ estimate' = Cleared /\ refused' = refused \cup {g}
  /\ Crossing(drop.declined # asked[g].declined \/ drop.over)
  /\ UNCHANGED <<duty, walkIn, sent, misled>>

\* resolveDestination: an active shop, on duty unless it is the drop-off already.
Resolves(d) == d \in Garages => duty[d] = "open" \/ (duty[d] = "off" /\ d = drop.dest)

\* Mutant of PickRead: a shop that declined may be picked again.
PickReadAny(d) ==
  /\ ~drop.over /\ Resolves(d)
  /\ Reading(Driver, "pick", d, Absent)

PickRead(d) ==
  /\ ~drop.over /\ d \notin drop.declined /\ Resolves(d)
  /\ Reading(Driver, "pick", d, Absent)

\* Mutant of PickWrite: an estimate stays when the drop-off changes.
PickWriteKeeps ==
  LET d == asked[Driver].dest IN
  /\ Writes(Driver, "pick")
  /\ drop' = [drop EXCEPT !.dest = d, !.needs = FALSE]
  /\ Crossing(d \in drop.declined \ asked[Driver].declined)
  /\ UNCHANGED <<estimate, duty, walkIn, sent, refused, misled>>

PickWrite ==
  LET d == asked[Driver].dest IN
  /\ Writes(Driver, "pick")
  /\ drop' = [drop EXCEPT !.dest = d, !.needs = FALSE] /\ estimate' = Cleared
  /\ Crossing(d \in drop.declined \ asked[Driver].declined)
  /\ UNCHANGED <<duty, walkIn, sent, refused, misled>>

\* Shops go on and off duty, and leave.
DutyChange(g) ==
  \E to \in {"open", "off", "gone"} :
    /\ duty[g] \notin {to, "gone"} /\ duty' = [duty EXCEPT ![g] = to]
    /\ UNCHANGED <<drop, estimate, asked, walkIn, sent, refused, misled, crossed>>

------------------------------------------------------------------------------
(* The end *)

\* The tower, loaded and near a drop-off, or anywhere when there is none: a
\* shop that is gone stops the delivery.
DeliverRead ==
  /\ ~drop.over /\ (drop.dest \in Garages => duty[drop.dest] # "gone")
  /\ Reading(Tower, "deliver", drop.dest, Absent)

DeliverWrite ==
  /\ asked[Tower].op = "deliver" /\ asked' = [asked EXCEPT ![Tower].op = "hand over"]
  /\ drop' = [drop EXCEPT !.over = TRUE]
  /\ UNCHANGED <<estimate, duty, walkIn, sent, refused, misled, crossed>>

\* Mutant of HandOver: the shop is the one that last sent an estimate.
HandOverToEstimator ==
  LET d == IF estimate.by # Absent THEN estimate.by ELSE asked[Tower].dest IN
  /\ Writes(Tower, "hand over")
  /\ walkIn' = IF d \in Garages /\ duty[d] # "gone" THEN d ELSE Absent
  /\ misled' = (misled \/ (d \in Garages /\ duty[d] # "gone" /\ d \in refused))
  /\ Crossing(drop.dest # asked[Tower].dest)
  /\ UNCHANGED <<drop, estimate, duty, sent, refused>>

\* spawnShopTicket, with the drop-off read when the delivery began: a walk-in is
\* filed there, or one the rider already has there is linked; a shop gone
\* by now fails it, which is only logged.
HandOver ==
  LET d == asked[Tower].dest IN
  /\ Writes(Tower, "hand over")
  /\ walkIn' = IF d \in Garages /\ duty[d] # "gone" THEN d ELSE Absent
  /\ misled' = (misled \/ (d \in Garages /\ duty[d] # "gone" /\ d \in refused))
  /\ Crossing(drop.dest # d)
  /\ UNCHANGED <<drop, estimate, duty, sent, refused>>

CancelTow ==
  /\ ~drop.over /\ drop' = [drop EXCEPT !.over = TRUE]
  /\ UNCHANGED <<estimate, duty, asked, walkIn, sent, refused, misled, crossed>>

DropNext ==
  \/ \E g \in Garages : \/ SendRead(g) \/ SendWrite(g) \/ ShopDeclineRead(g) \/ ShopDeclineWrite(g)
                        \/ DutyChange(g)
  \/ Lapse \/ ApproveRead \/ ApproveWrite \/ DeclineRead \/ DeclineWrite
  \/ (\E d \in Drops : PickRead(d)) \/ PickWrite
  \/ DeliverRead \/ DeliverWrite \/ HandOver \/ CancelTow

DropSpec == DropInit /\ [][DropNext]_dropVars

------------------------------------------------------------------------------
\* The vehicle and the estimate go together: an estimate on the ticket is the
\* present drop-off's own, only an estimate that is there is approved, no shop
\* that refused is the drop-off again, and none is handed the vehicle
\* (sendEstimate, approveEstimate, declineEstimate, declineDestination,
\* updateDispatchDestination and the delivery, each writing on what it read
\* before).  A handler that wrote over a change it had not seen is excused:
\* the drop-off or the estimate it had read was another's by then.
DropOffIsAgreed ==
  ~crossed =>
    /\ estimate.amount # Absent => estimate.by = drop.dest
    /\ estimate.approved => estimate.amount # Absent
    /\ drop.dest \notin refused
    /\ ~misled
==============================================================================
