------------------------------- MODULE TowFare -------------------------------
(***************************************************************************)
(* The price of one tow from its first accept to its end: the fare stamped  *)
(* at each accept and at each change of the drop-off, the waiting clock, the *)
(* legs frozen when a tower leaves, the payable partial of a breakdown and   *)
(* the fare the delivery settles (service/dispatch fare, waiting, helpers;   *)
(* tickets tow, transition, destination; shop/destination).                  *)
(*                                                                         *)
(* Who may do what is module Dispatch's; here a handler is one step, except *)
(* a tower's location update, which reads the ticket and later writes back   *)
(* the clock and the fare it remembers.  Named bounds: the tower is not      *)
(* replaced and the tow does not end while an update is in flight.           *)
(***************************************************************************)
EXTENDS Bills, FiniteSets

CONSTANTS Towers, Shops, Points,  \* tow trucks; drop-offs: shops and places
          Haul,                   \* kilometres from the pickup to each drop-off
          Approach, Tracked,      \* kilometres to the pickup; kilometres a GPS track shows
          Platform, Card,         \* the platform's rates and the towers' own, or None
          WaitRate,               \* fee of a minute of each tower's waiting
          Grace, Cap,             \* minutes of waiting that are free, and that count at most
          Night, Minutes, MaxTime,\* night times; minutes a tick takes; bound on the clock
          MaxTows                 \* bound on the accepts of the tow

DropOffs == Shops \cup Points

\* TowFareQuote, with what a cancel and the delivery add to it, and the clock.
Amounts == Nat \cup {None}
Fares == [estimate : Nat, ceiling : Nat, final : Amounts, deadhead : Nat, loaded : Nat,
          night : BOOLEAN, perKm : Amounts, base : Amounts, billable : Amounts,
          partial : BOOLEAN, waitingFee : Amounts]
Clocks == [active : BOOLEAN, since : Nat, fee : Amounts]

ASSUME RatesAssumption ==
  /\ Haul \in [DropOffs -> Nat] /\ Approach \subseteq Nat /\ Tracked \subseteq Nat
  /\ Platform \in [base : Nat, perKm : Nat, included : Nat, minimum : Nat, deadheadPayable : BOOLEAN]
  /\ Card \in [Towers -> [base : Nat, perKm : Nat] \cup {None}]
  /\ WaitRate \in [Towers -> Nat] /\ {Grace, Cap, Minutes} \subseteq Nat
  /\ None \notin Nat \cup Fares

VARIABLES ticket,    \* the tow: what the code stores of its price and progress
          ping,      \* the location update in flight: what it remembers, or None
          now,       \* minutes
          accepted,  \* accepts so far, for the bound
          promised,  \* history: the first ceiling stamped, or None
          leg        \* history: kilometres of the last leg frozen that count

fareVars == <<ticket, ping, now, accepted, promised, leg>>
history == <<promised, leg>>

FareInit ==
  /\ \E d \in DropOffs :
       ticket = [status |-> "PENDING", tower |-> None, loaded |-> FALSE, dest |-> d,
                 refused |-> {}, fare |-> None, cap |-> None, history |-> <<>>, trail |-> 0,
                 waiting |-> None, cancelledBy |-> None]
  /\ ping = None /\ now = 0 /\ accepted = 0 /\ promised = None /\ leg = 0

Underway == ticket.status \in {"MATCHED", "ARRIVED"} /\ ticket.tower # None

-----------------------------------------------------------------------------
(* Fares.                                                                  *)

IsNightFare == now \in Night
NightMult(night) == IF night THEN 3 ELSE 2      \* in halves

\* towRatesForProvider: a tower's own card, where it has one, for a car.
TowRatesForProvider(w) ==
  IF Card[w] = None THEN Platform
  ELSE [Platform EXCEPT !.base = Card[w].base, !.perKm = Card[w].perKm]

QuoteTowFare(rates, night, deadhead, loaded) ==
  LET billable == Most(0, loaded - rates.included)
      fare == NightMult(night) * (rates.base * 100 + rates.perKm * billable)
      estimate == RoundFare(Most(200 * rates.minimum, fare), 200)
  IN [estimate |-> estimate, ceiling |-> RoundFare(estimate * 11, 10), final |-> None,
      deadhead |-> deadhead, loaded |-> loaded, night |-> night, perKm |-> rates.perKm,
      base |-> rates.base, billable |-> billable, partial |-> FALSE, waitingFee |-> None]

\* A fare remembered without its rates falls back to the card given.
PartialTowFare(t, rates, km) ==
  LET perKm == IF t.fare = None THEN rates.perKm ELSE OrElse(t.fare.perKm, rates.perKm)
  IN IF rates.deadheadPayable THEN RoundFare(NightMult(IsNightFare) * perKm * km, 200) ELSE 0

CapOf(t) == IF t.cap # None THEN Most(0, t.cap - Total(t.history))
            ELSE IF t.fare # None THEN t.fare.ceiling ELSE None

\* Mutant of StampTowFare: a replacement tower's fare is capped without what
\* the earlier towers are already owed.
StampTowFareForgetful(t, w, deadhead) ==
  LET quote == QuoteTowFare(TowRatesForProvider(w), IsNightFare, deadhead,
                            IF t.dest = None THEN 0 ELSE Haul[t.dest])
      cap == OrElse(t.cap, CapOf(t))
  IN [quote EXCEPT !.estimate = IF cap = None THEN @ ELSE Least(@, cap),
                   !.ceiling = OrElse(cap, @)]

StampTowFare(t, w, deadhead) ==
  LET quote == QuoteTowFare(TowRatesForProvider(w), IsNightFare, deadhead,
                            IF t.dest = None THEN 0 ELSE Haul[t.dest])
      cap == CapOf(t)
  IN [quote EXCEPT !.estimate = IF cap = None THEN @ ELSE Least(@, cap),
                   !.ceiling = OrElse(cap, @)]

\* What a cancelled tow is left with: no rates, no waiting fee.
PartialFare(t, final, km) ==
  [estimate |-> IF t.fare = None THEN 0 ELSE t.fare.estimate,
   ceiling |-> IF t.fare = None THEN 0 ELSE t.fare.ceiling,
   final |-> final, deadhead |-> km, loaded |-> IF t.fare = None THEN 0 ELSE t.fare.loaded,
   night |-> IsNightFare, perKm |-> None, base |-> None, billable |-> None,
   partial |-> TRUE, waitingFee |-> None]

\* loadedTrackDistance and the cap of 15%: a sparse track falls back to the quote.
LoadedKm(quoted) ==
  IF quoted = 0 THEN Tracked
  ELSE {quoted} \cup {Least(km, (quoted * 115) \div 100) : km \in Tracked}

-----------------------------------------------------------------------------
(* The waiting clock.                                                      *)

CalcFee(elapsed, w) == Least(Most(0, elapsed - Grace), Cap) * WaitRate[w]
Elapsed(waiting) == Least(now - waiting.since, Cap)
Running(waiting) == waiting # None /\ waiting.active

StartWaiting(t) ==
  IF Running(t.waiting) THEN t
  ELSE [t EXCEPT !.waiting = [active |-> TRUE, since |-> now, fee |-> None]]

\* towerWithinRange, asked while the clock runs: only a tower that is still
\* assigned can be near.
WithinRange == IF Running(ticket.waiting) THEN BOOLEAN ELSE {FALSE}
StopWaiting(t, near) ==
  LET fee == IF near /\ t.tower # None THEN CalcFee(Elapsed(t.waiting), t.tower) ELSE 0
  IN IF ~Running(t.waiting) THEN t
     ELSE [t EXCEPT !.waiting = [active |-> FALSE, since |-> t.waiting.since, fee |-> fee],
                    !.fare = IF @ = None THEN None ELSE [@ EXCEPT !.waitingFee = fee]]

Tick ==
  /\ now + Minutes <= MaxTime /\ ticket.status \in {"PENDING", "MATCHED", "ARRIVED"}
  /\ now' = now + Minutes
  /\ UNCHANGED <<ticket, ping, accepted, history>>

\* accrue, up to its read of the ticket: the update remembers clock and fare.
PingRead ==
  /\ ping = None /\ Underway /\ Running(ticket.waiting)
  /\ \E near \in BOOLEAN :
       LET fee == IF near THEN CalcFee(Elapsed(ticket.waiting), ticket.tower)
                  ELSE OrZero(ticket.waiting.fee)
       IN ping' = [waiting |-> [ticket.waiting EXCEPT !.fee = fee],
                   fare |-> IF ticket.fare = None THEN None
                            ELSE [ticket.fare EXCEPT !.waitingFee = fee]]
  /\ UNCHANGED <<ticket, now, accepted, history>>

PingWrite ==
  /\ ping # None
  /\ ticket' = [ticket EXCEPT !.waiting = ping.waiting,
                              !.fare = IF ping.fare = None THEN @ ELSE ping.fare]
  /\ ping' = None
  /\ UNCHANGED <<now, accepted, history>>

-----------------------------------------------------------------------------
(* The tower takes, reaches and loads the vehicle.                         *)

\* The claim, then the stamp, whose failure is swallowed.
Accept ==
  \E w \in Towers, deadhead \in Approach, stamped \in BOOLEAN :
    /\ ticket.status = "PENDING" /\ ping = None /\ accepted < MaxTows
    /\ LET claimed == [ticket EXCEPT !.status = "MATCHED", !.tower = w, !.cancelledBy = None]
           fare == StampTowFare(claimed, w, deadhead)
       IN /\ ticket' = IF stamped THEN [claimed EXCEPT !.fare = fare] ELSE claimed
          /\ promised' = IF stamped /\ promised = None THEN fare.ceiling ELSE promised
    /\ accepted' = accepted + 1
    /\ UNCHANGED <<ping, now, leg>>

Arrive ==
  /\ ticket.status = "MATCHED"
  /\ ticket' = StartWaiting([ticket EXCEPT !.status = "ARRIVED"])
  /\ UNCHANGED <<ping, now, accepted, history>>

Load ==
  /\ ticket.status = "ARRIVED" /\ ~ticket.loaded
  /\ ticket' = [ticket EXCEPT !.loaded = TRUE]
  /\ UNCHANGED <<ping, now, accepted, history>>

\* updateDispatchDestination: the restamp is given the fare, not the cap or
\* the history of earlier towers.
ChangeDestination ==
  \E d \in DropOffs \ ticket.refused, near \in WithinRange, deadhead \in Approach,
     stamped \in IF Underway THEN BOOLEAN ELSE {FALSE} :
    /\ ticket.status \in {"PENDING", "MATCHED", "ARRIVED"}
    /\ LET moved == StopWaiting([ticket EXCEPT !.dest = d], near)
           seen == [ticket EXCEPT !.dest = d, !.cap = None, !.history = <<>>]
           fare == StampTowFare(seen, ticket.tower, deadhead)
       IN IF Underway /\ stamped
          THEN /\ ticket' = [moved EXCEPT !.fare = fare]
               /\ promised' = OrElse(promised, fare.ceiling)
          ELSE ticket' = moved /\ UNCHANGED promised
    /\ UNCHANGED <<ping, now, accepted, leg>>

\* freezeTowLeg: km travelled, none when the tower's last fix is not fresh.
FreezeTowLeg(t, km) == [t EXCEPT !.trail = @ + km,
                                 !.refused = @ \cup ({t.dest} \cap Shops)]
Frozen == Tracked \cup {0}

DeclineDestination ==
  /\ ticket.status \in {"PENDING", "MATCHED", "ARRIVED"} /\ ticket.dest \in Shops
  /\ LET left == [FreezeTowLeg(ticket, 0) EXCEPT !.dest = None]
     IN ticket' = IF ticket.tower # None THEN StartWaiting(left) ELSE left
  /\ leg' = IF ticket.tower # None THEN 0 ELSE leg
  /\ UNCHANGED <<ping, now, accepted, promised>>

-----------------------------------------------------------------------------
(* The tower leaves.                                                       *)

\* A cancel of the status by the tower: a partial kept for the record; the
\* clock runs on and the vehicle stays marked as loaded.
GiveUp ==
  \E km \in Frozen :
    /\ Underway /\ ping = None
    /\ LET frozen == FreezeTowLeg(ticket, km)
           final == PartialTowFare(ticket, TowRatesForProvider(ticket.tower), frozen.trail)
       IN ticket' = [frozen EXCEPT !.fare = PartialFare(ticket, final, frozen.trail),
                                   !.status = "PENDING", !.tower = None,
                                   !.cancelledBy = ticket.tower]
    /\ leg' = km
    /\ UNCHANGED <<ping, now, accepted, promised>>

\* cancelTowerSearch for another reason than a breakdown: audit only.
Rematch ==
  \E km \in Frozen :
    /\ Underway /\ ping = None
    /\ LET frozen == FreezeTowLeg(ticket, km)
           final == PartialTowFare(ticket, Platform, frozen.trail)
       IN ticket' = StopWaiting([frozen EXCEPT !.fare = PartialFare(ticket, final, frozen.trail),
                                               !.status = "PENDING", !.tower = None,
                                               !.loaded = FALSE], FALSE)
    /\ leg' = km
    /\ UNCHANGED <<ping, now, accepted, promised>>

\* The kilometres with the car loaded, none before that; a track may miss them all.
TrackedLoaded == IF ticket.loaded THEN Tracked \cup {0} ELSE {0}

\* A breakdown is owed: approach and loaded way join the history, and what
\* is left under the first ceiling caps the next tower.
Breakdown ==
  \E km \in Frozen, loadedKm \in TrackedLoaded :
    /\ Underway /\ ping = None
    /\ LET frozen == FreezeTowLeg(ticket, km)
           owed == PartialTowFare(ticket, Platform, frozen.trail + loadedKm)
           ceiling == IF ticket.fare = None THEN 0 ELSE ticket.fare.ceiling
           fare == [PartialFare(ticket, None, 0) EXCEPT
                      !.estimate = 0, !.ceiling = Most(0, ceiling - owed),
                      !.loaded = 0, !.partial = FALSE]
           cap == IF ticket.fare = None THEN ticket.cap ELSE OrElse(ticket.cap, ceiling)
       IN ticket' = StopWaiting([frozen EXCEPT !.fare = fare, !.cap = cap,
                                               !.status = "PENDING", !.tower = None,
                                               !.loaded = FALSE, !.history = Append(@, owed)], FALSE)
    /\ leg' = km
    /\ UNCHANGED <<ping, now, accepted, promised>>

-----------------------------------------------------------------------------
(* The tow ends.                                                           *)

\* The rider or an admin cancels: an engaged tower's partial is settled on its
\* card; a former tower stays named when no tower is engaged.
Cancel ==
  \E by \in {"rider", "admin"}, near \in WithinRange, km \in IF Underway THEN Frozen ELSE {0} :
    /\ ping = None
    /\ ticket.status \in {"PENDING", "MATCHED", "ARRIVED"}
    /\ LET stopped == StopWaiting(ticket, near)
           frozen == FreezeTowLeg(stopped, km)
           final == PartialTowFare(ticket, TowRatesForProvider(ticket.tower), frozen.trail)
           closed == IF ~Underway THEN stopped
                     ELSE [frozen EXCEPT !.fare = PartialFare(stopped, final, frozen.trail)]
       IN ticket' = [closed EXCEPT !.status = "CANCELLED",
                                   !.cancelledBy = IF ~Underway /\ @ # None THEN @ ELSE by]
    /\ leg' = IF Underway THEN km ELSE leg
    /\ UNCHANGED <<ping, now, accepted, promised>>

\* Mutant of Deliver: the settled fare is not held under the ceiling.
DeliverUncapped ==
  \E near \in WithinRange :
    /\ ticket.status = "ARRIVED" /\ ticket.loaded /\ ping = None
    /\ IF ticket.fare = None
       THEN ticket' = [StopWaiting(ticket, near) EXCEPT !.status = "RESOLVED"]
       ELSE \E km \in LoadedKm(ticket.fare.loaded) :
              LET rates == TowRatesForProvider(ticket.tower)
                  fare == QuoteTowFare(rates, ticket.fare.night, ticket.fare.deadhead, km)
              IN ticket' = [StopWaiting(ticket, near) EXCEPT
                              !.status = "RESOLVED",
                              !.fare = [fare EXCEPT !.ceiling = ticket.fare.ceiling,
                                                    !.final = fare.estimate]]
    /\ UNCHANGED <<ping, now, accepted, history>>

\* Mutant of Deliver: only the final amount is written over the quote.
DeliverOverQuote ==
  \E near \in WithinRange :
    /\ ticket.status = "ARRIVED" /\ ticket.loaded /\ ping = None
    /\ IF ticket.fare = None
       THEN ticket' = [StopWaiting(ticket, near) EXCEPT !.status = "RESOLVED"]
       ELSE \E km \in LoadedKm(ticket.fare.loaded) :
              LET rates == TowRatesForProvider(ticket.tower)
                  fare == QuoteTowFare(rates, ticket.fare.night, ticket.fare.deadhead, km)
              IN ticket' = [StopWaiting(ticket, near) EXCEPT
                              !.status = "RESOLVED",
                              !.fare = [ticket.fare EXCEPT
                                          !.final = Least(fare.estimate, ticket.fare.ceiling)]]
    /\ UNCHANGED <<ping, now, accepted, history>>

\* The fare is settled from the one read at the start of the handler, so the
\* waiting fee that stopping the clock has just written is overwritten.
Deliver ==
  \E near \in WithinRange :
    /\ ticket.status = "ARRIVED" /\ ticket.loaded /\ ping = None
    /\ IF ticket.fare = None
       THEN ticket' = [StopWaiting(ticket, near) EXCEPT !.status = "RESOLVED"]
       ELSE \E km \in LoadedKm(ticket.fare.loaded) :
              LET rates == TowRatesForProvider(ticket.tower)
                  fare == QuoteTowFare(rates, ticket.fare.night, ticket.fare.deadhead, km)
              IN ticket' = [StopWaiting(ticket, near) EXCEPT
                              !.status = "RESOLVED",
                              !.fare = [fare EXCEPT !.ceiling = ticket.fare.ceiling,
                                                    !.final = Least(fare.estimate, ticket.fare.ceiling)]]
    /\ UNCHANGED <<ping, now, accepted, history>>

Ended == ticket.status \in {"RESOLVED", "CANCELLED"} /\ UNCHANGED fareVars

FareNext ==
  \/ Tick \/ PingRead \/ PingWrite
  \/ Accept \/ Arrive \/ Load \/ ChangeDestination \/ DeclineDestination
  \/ GiveUp \/ Rematch \/ Breakdown
  \/ Cancel \/ Deliver \/ Ended

FareSpec == FareInit /\ [][FareNext]_fareVars
-----------------------------------------------------------------------------
(* Properties.                                                             *)

Delivered == ticket.status = "RESOLVED"

\* What the rider pays for a delivered tow, its waiting aside, is never more
\* than the first ceiling the tow was accepted under, or than the breakdowns
\* already owed where those alone exceed it, however many towers, changes of
\* the drop-off and failed stamps it took (stampTowFare, cancelTowerSearch,
\* the settlement of updateDispatchStatus).  A fare that was stamped once is settled
\* then: no estimate and no partial of an earlier tower is left as the price.
DeliveredWithinCeiling ==
  Delivered =>
    /\ TowBill(ticket) # None =>
         TowBill(ticket).amount - TowBill(ticket).waiting
           <= Most(OrZero(promised), Total(ticket.history))
    /\ promised # None =>
         ticket.fare # None /\ ticket.fare.final # None /\ ~ticket.fare.partial

\* The lines of a delivered tow's bill account for its amount: the recorded
\* base, distance and night make the fare, and only the ceiling takes from it
\* (towBreakdown reads the rates the settlement stored).
BillExplained ==
  Delivered /\ promised # None /\ ticket.history = <<>> =>
    \A l \in Range(TowLines(ticket, TowBill(ticket).amount)) : l.code # "ADJUSTMENT"

\* The fare of a delivered tow is the one promised, and its bill says why.
FareIsExplained == DeliveredWithinCeiling /\ BillExplained

\* Once a tow has a ceiling no step raises it: not a new tower, another
\* drop-off, nor a location update writing back the fare it remembers.
CeilingNeverRises ==
  [][ticket.fare # None => ticket'.fare # None /\ ticket'.fare.ceiling <= ticket.fare.ceiling]_fareVars

=============================================================================
