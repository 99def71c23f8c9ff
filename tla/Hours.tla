------------------------------- MODULE Hours --------------------------------
(***************************************************************************)
(* When a shop is open and when it can be booked: the opening hours read as *)
(* a week's schedule, what the search says of a shop at this minute, the     *)
(* slots a rider is shown for a date, and the request, the answer and the     *)
(* cancellation that follow (provider/schedule, booking/slots,              *)
(* booking/availability, createBooking).                                    *)
(*                                                                         *)
(* Minutes are local and counted from the start of the week; a day is        *)
(* Midnight minutes long.  How answers race for the slot's counter is        *)
(* module Bookings: here a booking holds the slot from its answer on.  A     *)
(* shop's settings do not change while they are looked at (named bound).     *)
(***************************************************************************)
EXTENDS Integers, FiniteSets

CONSTANTS
  Week,         \* days of the week
  Midnight,     \* minutes of a day
  Every,        \* an entry that names no day
  Settings,     \* the shops: openHours, bookingHours and the booking settings
  Offset,       \* the shop's clock ahead of UTC
  MaxAhead,     \* BOOKING_HORIZON_DAYS_MAX
  LastMinute,   \* bound: time passes until here
  MaxBooked,    \* bound: confirmed bookings
  Unset         \* no value

ASSUME HoursAssumption ==
  /\ Week \in Nat /\ Week >= 3 /\ Midnight \in Nat \ {0} /\ Every \notin Nat
  /\ {Offset, MaxAhead, LastMinute, MaxBooked} \subseteq Nat

Days == 0..(Week - 1)
DayMinutes == 0..(Midnight - 1)

VARIABLES shop,       \* the provider
          minute,     \* now
          offer,      \* what the rider was shown: when, for which date, which slots
          wish,       \* the time asked for, REQUESTED
          confirmed   \* the times confirmed, with how many bookings

hoursVars == <<shop, minute, offer, wish, confirmed>>

------------------------------------------------------------------------------
(* The schedule *)

\* An entry that names no day stands for all; one that closes as it opens, or
\* whose time is past 23:59 (Midnight here), is passed over.
ParseSchedule(hours) ==
  UNION {IF h.day = Every THEN {[h EXCEPT !.day = d] : d \in Days} ELSE {h} :
           h \in {x \in hours : {x.open, x.close} \subseteq DayMinutes /\ x.open # x.close}}

DayOf(at) == (at \div Midnight) % Week
MinuteOf(at) == at % Midnight
Yesterday(at) == (DayOf(at) + Week - 1) % Week

\* Mutant of IsOpenNow: hours past midnight end at midnight.
IsOpenNowToday(hours, at) ==
  \E e \in ParseSchedule(hours) :
    e.day = DayOf(at) /\ MinuteOf(at) >= e.open /\ (e.open <= e.close => MinuteOf(at) < e.close)

IsOpenNow(hours, at) ==
  \E e \in ParseSchedule(hours) :
    \/ /\ e.day = DayOf(at) /\ MinuteOf(at) >= e.open
       /\ e.open <= e.close => MinuteOf(at) < e.close
    \/ e.open > e.close /\ e.day = Yesterday(at) /\ MinuteOf(at) < e.close

\* Mutant of NextTransition: hours past midnight are said to end at midnight.
NextTransitionMidnight(hours, at) ==
  LET cur == MinuteOf(at)
      left == {e.close - cur : e \in {x \in ParseSchedule(hours) :
                  x.day = DayOf(at) /\ x.open <= x.close /\ cur >= x.open /\ cur < x.close}}
        \cup {Midnight - cur : e \in {x \in ParseSchedule(hours) :
                  x.day = DayOf(at) /\ x.open > x.close /\ cur >= x.open}}
        \cup {e.close - cur : e \in {x \in ParseSchedule(hours) :
                  x.open > x.close /\ x.day = Yesterday(at) /\ cur < x.close}}
  IN IF left = {} THEN Unset ELSE CHOOSE x \in left : \A y \in left : x <= y

\* The first of the entries open now to close.
NextTransition(hours, at) ==
  LET cur == MinuteOf(at)
      left == {e.close - cur : e \in {x \in ParseSchedule(hours) :
                  x.day = DayOf(at) /\ x.open <= x.close /\ cur >= x.open /\ cur < x.close}}
        \cup {Midnight - cur + e.close : e \in {x \in ParseSchedule(hours) :
                  x.day = DayOf(at) /\ x.open > x.close /\ cur >= x.open}}
        \cup {e.close - cur : e \in {x \in ParseSchedule(hours) :
                  x.open > x.close /\ x.day = Yesterday(at) /\ cur < x.close}}
  IN IF left = {} THEN Unset ELSE CHOOSE x \in left : \A y \in left : x <= y

------------------------------------------------------------------------------
(* The slots of a date *)

BookingHours == IF shop.own # {} THEN shop.own ELSE shop.hours

\* A date's hours end with the date.
RangesForDate(hours, date) ==
  {[open |-> e.open, close |-> IF e.open < e.close THEN e.close ELSE Midnight] :
     e \in {x \in ParseSchedule(hours) : x.day = date % Week}}

Ranges(date) ==
  IF shop.alwaysOpen THEN {[open |-> 0, close |-> Midnight]}
  ELSE RangesForDate(BookingHours, date)

\* Mutant of WithinRanges: the minute of closing is still within the hours.
WithinRangesClosing(m, ranges) == \E r \in ranges : m >= r.open /\ m <= r.close

WithinRanges(m, ranges) == \E r \in ranges : m >= r.open /\ m < r.close

Taken(at) == Cardinality({b \in confirmed : b.at = at})

\* Mutant of BuildSlots: slots are shown up to this minute, without the lead.
BuildSlotsNoLead(date) ==
  {[at |-> date * Midnight + m, left |-> shop.capacity - Taken(date * Midnight + m)] :
     m \in {x \in DayMinutes : /\ date * Midnight + x >= minute
                               /\ \E r \in Ranges(date) : /\ x >= r.open /\ x < r.close
                                                          /\ (x - r.open) % shop.slot = 0}}

BuildSlots(date) ==
  {[at |-> date * Midnight + m, left |-> shop.capacity - Taken(date * Midnight + m)] :
     m \in {x \in DayMinutes : /\ date * Midnight + x >= minute + shop.lead
                               /\ \E r \in Ranges(date) : /\ x >= r.open /\ x < r.close
                                                          /\ (x - r.open) % shop.slot = 0}}

------------------------------------------------------------------------------
(* The shop's day *)

NoOffer == [seen |-> Unset, date |-> Unset, slots |-> {}]

HoursInit ==
  /\ shop \in Settings /\ minute = 0
  /\ offer = NoOffer /\ wish = Unset /\ confirmed = {}

\* Time passes; a time that has come is of no more interest.
Minute ==
  /\ minute < LastMinute /\ minute' = minute + 1
  /\ confirmed' = {b \in confirmed : b.at > minute}
  /\ UNCHANGED <<shop, offer, wish>>

\* The date is compared in UTC with the furthest date any shop may allow.
GetAvailability(date) ==
  /\ shop.enabled /\ date * Midnight + Offset <= minute + MaxAhead * Midnight
  /\ offer' = [seen |-> minute, date |-> date, slots |-> BuildSlots(date)]
  /\ UNCHANGED <<shop, minute, wish, confirmed>>

\* createBooking: what stops a request for a time, with or without a note.
Bookable(at, note) ==
  LET ranges == Ranges(at \div Midnight)
      outside == ~shop.alwaysOpen /\ ~WithinRanges(MinuteOf(at), ranges)
  IN
  /\ shop.enabled
  /\ at >= minute + shop.lead /\ at <= minute + shop.horizon * Midnight
  /\ outside /\ ranges # {} => note
  /\ ~outside /\ ranges # {} => Taken(at) < shop.capacity

CreateBooking(at, note) ==
  /\ wish = Unset /\ Bookable(at, note)
  /\ wish' = at
  /\ UNCHANGED <<shop, minute, offer, confirmed>>

\* claimSlot counts every booking of the time, within the hours or not.
AcceptBooking ==
  /\ wish # Unset /\ Taken(wish) < shop.capacity
  /\ \E n \in (1..MaxBooked) \ {b.n : b \in confirmed} :
       confirmed' = confirmed \cup {[at |-> wish, n |-> n]}
  /\ wish' = Unset
  /\ UNCHANGED <<shop, minute, offer>>

\* Declined, or cancelled before the answer.
RefuseBooking ==
  /\ wish # Unset /\ wish' = Unset
  /\ UNCHANGED <<shop, minute, offer, confirmed>>

CancelBooking(b) ==
  /\ confirmed' = confirmed \ {b}
  /\ UNCHANGED <<shop, minute, offer, wish>>

Date == minute \div Midnight
HoursNext ==
  \/ Minute
  \/ \E d \in Date..(Date + MaxAhead) : GetAvailability(d)
  \/ \E at \in minute..(minute + MaxAhead * Midnight), note \in BOOLEAN : CreateBooking(at, note)
  \/ AcceptBooking \/ RefuseBooking \/ \E b \in confirmed : CancelBooking(b)

HoursSpec == HoursInit /\ [][HoursNext]_hoursVars

------------------------------------------------------------------------------
\* The minutes of the week an entry covers, from its opening to its closing, past
\* midnight and past the end of the week.
Covers(e) ==
  LET length == (e.close - e.open + Midnight) % Midnight
  IN {(e.day * Midnight + e.open + k) % (Week * Midnight) : k \in 0..(length - 1)}

IsOpenAt(hours, at) == \E e \in ParseSchedule(hours) : at % (Week * Midnight) \in Covers(e)

\* The entries that open on a date, and whether one of them covers a time of it.
OpensOn(date) == {e \in ParseSchedule(BookingHours) : e.day = date % Week}
IsTaken(at) ==
  \/ shop.alwaysOpen
  \/ \E e \in OpensOn(at \div Midnight) : at % (Week * Midnight) \in Covers(e)

\* isOpenNow holds during the minutes covered and no other; nextTransition has a value
\* just then, the shop stays open until then, and an entry closes then.
OpenAsSaid ==
  LET until == NextTransition(shop.hours, minute) IN
  /\ IsOpenNow(shop.hours, minute) = IsOpenAt(shop.hours, minute)
  /\ (until # Unset) = IsOpenAt(shop.hours, minute)
  /\ until # Unset =>
       /\ \A k \in 0..(until - 1) : IsOpenAt(shop.hours, minute + k)
       /\ \E e \in ParseSchedule(shop.hours) : e.close = MinuteOf(minute + until)

\* Every slot shown lies in hours that open on its date, and one shown free is had
\* without a note, unless the lead has passed, it was confirmed to others, or it lies
\* beyond the shop's own horizon.
OffersStand ==
  \A s \in offer.slots :
    /\ IsTaken(s.at)
    /\ s.left > 0 =>
         \/ Bookable(s.at, FALSE)
         \/ s.at < minute + shop.lead /\ minute > offer.seen
         \/ Taken(s.at) > shop.capacity - s.left
         \/ s.at > minute + shop.horizon * Midnight

\* A time on the grid of the hours that open on a date, had without a note, was shown.
NothingWithheld ==
  offer.seen = minute =>
    \A m \in DayMinutes :
      LET at == offer.date * Midnight + m
          opening == IF shop.alwaysOpen THEN {0} ELSE {e.open : e \in OpensOn(offer.date)}
      IN /\ IsTaken(at) /\ Bookable(at, FALSE)
         /\ \E o \in opening : m >= o /\ (m - o) % shop.slot = 0
         => \E s \in offer.slots : s.at = at

\* On a date with hours a request without a note is taken for just the minutes covered
\* by hours that open on that date, while there is room.  What yesterday's hours cover
\* of the date takes a note, though the search calls the shop open then.
RequestsAgree ==
  \A at \in (minute + shop.lead)..(minute + shop.horizon * Midnight) :
    shop.enabled /\ (shop.alwaysOpen \/ OpensOn(at \div Midnight) # {}) =>
      Bookable(at, FALSE) = (IsTaken(at) /\ Taken(at) < shop.capacity)

\* What the search, the slots and the requests each make of overnight hours.  Open-now
\* and closes-in follow an entry past midnight to its closing (isOpenNow,
\* nextTransition).  The slots shown, and the requests taken without a note, follow it
\* to midnight only (buildSlots, createBooking), and agree with one another.  A date
\* on which nothing opens shows no slot and takes any request.
HoursAgree == OpenAsSaid /\ OffersStand /\ NothingWithheld /\ RequestsAgree
==============================================================================
