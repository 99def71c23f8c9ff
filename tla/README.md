# RoadAssist backend: a TLA+ verification project

This directory models the backend in `src/functions` (TypeScript, Firebase
Functions, Firestore): riders ask for roadside help, providers tow and repair,
the platform takes the payments and pays the providers. It contains TLA+
modules that model the code, TLC configurations that check them on small
instances, and TLAPS proofs about them. `PROJECT.json` is the index: the
components, the runs, the mutants of the model that each property detects, the
lines of source each definition models, the hazards, and the theorems.

    tlc -config Payments.cfg MCPayments           # model-check a run
    tlapm PaymentsProofs.tla                      # check a module's proofs

Contents: [How the system executes](#1-how-the-system-executes),
[Inventory](#2-inventory), [Modules](#3-modules),
[Runs, bounds and fairness](#4-runs-bounds-and-fairness),
[Observations](#5-what-the-code-does-that-its-documents-do-not-say),
[Proofs](#6-proofs), [What is not modelled](#7-what-is-not-modelled),
[Plan](#8-plan).

## 1. How the system executes

An HTTP request is a chain `routes -> validation -> controller -> service ->
repository -> Firestore`. A service is an `async` function: it reads some
documents, decides, and writes. Nearly every write is an unconditional
`update` that rests on a read made several `await`s earlier. Cloud Run runs up
to 20 instances, so handlers interleave with each other, and with the
scheduler's sweeps: `sweepDispatch` (every 5 minutes; it also sweeps
bookings), `sweepMaintenance` (15) and `sweepData` (30). An instance may die
between any two awaits; nothing rolls back what it wrote.

Only these are transactions: `dispatchRepository.claimForAssignment`,
`paymentRepository.createGuarded` and `updateStatusWhen`,
`payoutRepository.applySettlement`, `subscriptionService.activate`, the claim
and release of a booking slot, `flagRepository.castSignedVote` and
`reconcileReporterAward`, the claim of a parent ticket before it is continued,
and the invoice counter.

Hence the shape of most modules: **a handler in flight is a record `req[r]`**
with the operation, a program point `pc` and what the handler remembers of its
reads; each action is the code between two awaits that matter. `XxxRead`
actions are a handler's entry up to its last early return; later actions are
its writes. `Abort(r)` is a call that throws or an instance that dies.

Where a handler makes many writes in a fixed order (`Shop`, `Aftercare`,
`Providers`), it is instead **a sequence of writes**: the handler reads and
decides, and `Perform` (`Shop`) or the steps after `Look` (`Aftercare`,
`Providers`) apply them, all of them, only those before the instance died, or
all but one whose failure the handler swallows.

Two devices keep the properties honest. *History variables* (`rough`, `cut`,
`crossed`, `kept`, `late`, `torn`, ...) record that two handlers overlapped or
that one died; a property that the code keeps only without that names the
variable. *Named bounds* (`pace`, `scope`, `office`, `bustle`, `calm`, `side`)
are chosen in `Init` and restrict what one behaviour is about; the run explores every
choice.

## 2. Inventory

The state is in Firestore unless it says otherwise.

| component | state | operations | talks to | what is hard | what makes it correct |
|---|---|---|---|---|---|
| payments | `payments`, `payment_guards/{ticket}`, payment fields of the ticket | create, switch method, cancel, sweep on close, confirm cash, checkout, notification (IPN), refund, collect deposit, amend the invoice | SePay, tickets, commission ledger | SePay calls back late and repeatedly; the guard is cleared outside a transaction; ticket stamps follow in another call | one active charge per ticket; held money is captured money; cash confirmed once; commission owed once; a credited deposit was paid |
| refund requests | `refunds` | request, approve, reject, send, confirm, fail | payments, ledger | looked up then created; a confirmation is three writes | one open request per charge; never refund more than was paid |
| commission ledger | `commission_ledger` | create, plan and settle, reverse | payments, payouts, refunds | absolute values computed from an earlier read | settled rows stay settled; no commission collected that a refund reversed; deductions equal what was settled |
| payouts | `payouts`, `payout_requests`, `payoutBatchId`/`payoutAt` of a charge | settle (selected or all), settle commission directly, request, approve, reject, legacy stamp, statement | payments, ledger | two admins; commit, then mark the request | a batch takes no charge that something paid before |
| subscriptions | `users/{uid}.subscription`, plan charges, their guards | create a plan charge, notification, activate, refund | SePay | duplicate notifications, at once or after a crash | a payment grants its days exactly once |
| hazard flags | `flags`, reporter's `points` | report, vote, moderate, retract, expire | users, routing (reads flags) | status decided in one transaction and written by another call; reconciliation later | the ledger is what votes and status earn; points follow the ledger; lapsed flags close |
| bookings | `bookings`, `booking_slots`, deposit copies on the ticket, arrival plan, opening hours | look at slots, create, accept, decline, cancel, complete, check in, tow, deposits, plan the arrival, sweep | tickets, payments, tasks | counter and booking are two writes; a ticket and a booking describe each other; a task outlives the plan it was made for; hours read in three ways | counter equals the bookings that hold a place; one work ticket; what was recorded of an arrival stays; a rider is told once of the last plan; a slot shown open can be booked |
| dispatch tickets (tows) | `dispatch_tickets`, provider's `accepting` | file, claim, arrive, load, deliver, give back, re-match, cancel, hold, drop-off, estimate, sweeps | nearly all | transitions checked on stale reads; the tower's duty is another document | a tower on a job asks for no other; a tow that is over stays over; duty follows the job; the rider is told; the vehicle goes to the shop agreed on |
| sos and continuation | tickets, chained by parent and child | accept, decline, visit, fix quote, unfixable, tow offer, continue, grace | tickets, chat | three parties continue the same ticket; the spawn may fail after the claim | one search per rider; nobody is stranded; a visit costs what it says |
| shop work | fields of walk-in tickets, releases | quote, amend, approve, decline, expire, work order, quick fix, invoice, release, unfixable, return tow | payments, warranty | a dozen calls that each look at another field | the bill is what is charged; a closed repair leaves no money behind; one tow back |
| tow fare; bills and breakdown | `towFare`, `waiting`, `towLegs` of the ticket; bills are computed | stamp, re-stamp, freeze a leg, count the wait, settle; break the amount down into lines | payments, invoices | several towers, several cards, a fare computed twice by different code | the ceiling never rises; the lines add up to the amount |
| invoices | `invoices`, a counter | issue | bills | two calls; a crash after the number was taken | a bill has one invoice |
| disputes | `disputes`, `disputeHold` of the ticket | file, decide, dismiss | payments, refunds | two filings; a filing and a decision; deciding again | a hold names an open dispute; nothing is payable under it |
| warranty | `warranty_claims` | claim, answer, dispute, decide, reopen | tickets | a rework is created before its claim names it | one remedy per claim; no claim waits on a rework that is over |
| ratings | `ratings`, averages | rate, reply | providers | average from a stale read | a lone rating mends the average |
| chat | `chat_rooms`, messages | open, join, send, event, archive, delete, expire | push | a room is looked up, then set, while the ticket changes hands | a former provider is out; nobody in a room is skipped |
| providers | `providers`, reports, locations, vehicles | apply, review, edit, report, suspend, revoke, duty, remove a vehicle, share a position, sweep presence | tickets | every call writes unconditionally what an earlier read allowed | records, vehicles and plates agree; a denied licence stays denied; ghosts leave the map |
| push and tasks | FCM tokens, Cloud Tasks | enqueue, deliver, retry, prune | all | at-least-once, late tasks | told once |
| routing and closures | route cache, closures | route, report a closure | flags | geometry, an external engine | a returned route crosses no known zone |
| response cache | in process | get, invalidate | all reads | a read that began before an invalidation fills the cache after it | invalidated values are not served |
| users and vehicles | `users`, `vehicles` | profile, role, delete | all | deletion with work in progress | - |
| saved places, routes, landmarks, support; reports, analytics, operations, audit; platform configuration; http layer; schedules; infrastructure and scripts | documents of one owner; logs; one document | create, read, delete | - | nothing that interleaving makes | - |

`PROJECT.json` lists under `hazards` the places of the code at which one of
these goes wrong, by line, with the property that covers it or the reason why
none does.

## 3. Modules

`X` is the model, `MCX` its instances for TLC, `XProofs` its theorems
(`RoadsideProofs` has
those of `Chat`, `DropOff`, `TowFare`, `Providers` and `Ratings`, `BookingsProofs`
those of `Bookings` and `Reminders`, `ShopProofs` those of `Subscription`, `Shop` and
`Aftercare`). The
components share only a few fields, so most modules carry the copy they read
(`Payments` has the `commission_ledger` rows a charge creates, `Settlement`
begins where a charge is received and its row is written). Three compositions
are real ones: `Aftercare` extends `Shop` and interleaves with its handlers,
`Ratings` extends `Providers`, and `TowFare`, `Sos` and `Shop` compute the bills
with `Bills`. Two MC modules hold several specifications that share no
variable, a *side* of the run each: `MCBookings` (`Bookings`, `Reminders`) and
`MCRoadside` (`TowFare`, `Chat`, `DropOff`, `Hours`).

### Payments

The charges of one ticket (`paymentService`, `paymentMethodSwitch`,
`paymentDepositService`, `paymentInvoice*`, `paymentRepository`).

| model | code |
|---|---|
| `charge[c]`, `created` | documents of `payments`, numbered in order of creation |
| `guard` | `payment_guards/{ticketId}` |
| `ticket` | the ticket's quote, its invoice and whether the rider agreed to it (`Bill` is what follows), deposit status, payment stamp |
| `sepay[c]` | the order at SePay: page served, form open, paid, cancelled (external) |
| `rows[c]` | commission rows written for the charge |
| `CreateRead`, `CreateSettled`, `CreateScan`, `CreateGuarded` | `createPayment` and the transaction in `createGuarded` |
| `CancelRead`, `CancelOrder`, `SweepRead`, `SweepPending`, `SweepNext` | method switch, cancellation, closing a ticket |
| `WriteStatus`, `Reread`, `StampTicket`, `GuardRead`, `GuardDelete` | `setStatus`: the write, the stamp of the ticket, `clearGuard` |
| `ConfirmRead`, `ConfirmCas`, `LedgerRead`, `LedgerWrite` | cash confirmation, and its commission row |
| `ServeCheckout`, `SubmitForm`, `Capture`, `IpnRead` | the gateway, and `handleSepayIpn` |
| `DepositConfirm`, `DepositRead`, `DepositStamp` | deposits |
| `RefundRead`, `InvoiceRead`, `AdjustRead`, `AdjustWrite`, `InvoiceWrite`, `ApproveRead`, `ApproveWrite` | refund of a charge; an invoice other than the quote, and the rider's approval of it |

### Settlement and PayoutBatches

What happens to the received charges of one payee (`refundService`,
`commissionRepository`, `payoutService`, `payoutRepository`, `adminService.payout`).
`Apply` is the transaction `applySettlement`; everything else reads and writes
in separate steps: the amount owed is read (`OwedRead`), the plan computed from
another read (`PlanRead`), and a refund writes the charge, the ledger and the
request in turn (`RefundWrite`, `ReverseWrite`, `WriteRefund`).
`ReversedShare` is the rounded integer arithmetic of `reverseForRefund`;
`Plan` the loop, oldest row first, that spreads a deduction over rows.

`PayoutBatches` is the abstract promise: the batches never change, and each lists
only received charges that nothing had paid, all of which it pays in the same step.
Every payment is counted (`times`), and the promise has one step that may pay a
charge again, the legacy payout of one charge, because the code asks there neither
for an earlier stamp nor for a batch (section 5). `Settlement` implements it
(`ImplementsPromise`) under the mapping `received <- charges received`,
`times <- pay[p].at`, how often the charge was stamped, and `batches <- the charges of
each`. The property is checked by TLC and proved.

### Subscription

Plan charges behind `payment_guards/SUB-{uid}-{plan}`, the SePay notification,
and the transaction that extends the term (`subscriptionService`,
`handleSepayIpn`). SePay repeats a notification until it is answered: an
order is `unpaid`, `paid`, or `answered`. `granted[c]` is a history variable.
`sub.ids` is the bounded list `paymentIds` (`MAX_HISTORY`, 50 in the code).

### Flags

The flags of one reporter (`flagService`, `flagRepository`, `utils/points`).
`Cast` and `Award` are transactions; `SetStatus`, `SweepSet` and `Delete` are
plain writes. Weights count in halves: a vote weighs 2, or 3 when the rider is
trusted; the consensus threshold of 3 is 6 halves. `torn` are the flags whose
ledger a handler left behind when it died.

### Bookings, Reminders and Hours

`Bookings`: the bookings of one slot of a shop's day (`bookingService`,
`booking/sweep`, `bookingRepository`, and the link from a delivered tow in
`dispatch/tickets/transition`). `slot` is the counter, `booking[b]` the
document, `tickets` the walk-ins and tows opened for the bookings. The clock
has the phases the code distinguishes: more than two hours before the booked
time (`early`), until half an hour after it (`open`), until two hours after it
(`grace`: no-shows are due, check-in is still possible), and later (`shut`).
`rough` are the bookings two requests of which overlapped, or whose handler
died: the counter is promised for the others.

`Reminders`: what a rider is told of the arrival plan of a booking
(`booking/reminders`, the named tasks of `taskQueueService`, and the sweep
behind them), and of a bill that is still to be paid (`paymentReminderService`).
A courier reads, pushes, and writes back what it read, marked as sent; a task
fires on time, late, twice or never.

`Hours`: the schedule a text of opening hours stands for (`ParseSchedule`), and
the three readings of it: `IsOpenNow` and `NextTransition` for the search,
`RangesForDate` and `BuildSlots` for the slots, `Bookable` for `createBooking`.

### Dispatch, TowPromise, DropOff and TowFare

`Dispatch`: tows from filing to the end (`dispatch/accept`, `tickets/transition`,
`tickets/tow`, `hold`, `sla`, `shop/sweep`, `dispatchRepository`). `ticket[t]` is
the document, `onDuty[w]` the provider's `accepting`, `wish[w]` what its operator
last asked for (history). `Claim` is the transaction; the other requests read
(`XxxRead`) and later write without a condition (`SetStatus`, `Given`, `Quiet`,
`Free`, `Release`, `Requeue`). `sweep` is what the scheduler listed and has not
handled. `clash` are the tickets two requests decided on at once (an accept is no
decision: it may lose its ticket, or win it under another's eyes), `rough` the towers two
requests of which overlapped, `cut` the tickets and towers a request of which died.

`TowPromise` is what the service promises: a filed tow is searched for, a tower on no
job asks for it, one of those who asked gets it (a tower that asked for two before
either was its own may get both), and once over it is over. `Dispatch` implements it
(`KeepsPromise`) under the mapping `Stage`, with `asking` the accepts in flight and
`astray` the tickets in `clash`, of which nothing more is promised.

`DropOff`: the drop-off of one tow, the estimate the shop sends ahead, and the
delivery (`shop/estimate`, `shop/destination`, `tickets/destination`,
`spawnShopTicket`). Every actor may have one handler in flight that remembers
what it read; `crossed` records that one wrote over a change it had not seen.

`TowFare` with `Bills`: the fare stamped at each accept and at each change of the
drop-off, the waiting clock, the legs frozen when a tower leaves, the partial
of a breakdown, and the settlement (`dispatch/fare`, `waiting`, `helpers`).
`Bills` has the amount a charge is created for and, separately, the lines the bill
shows (`bill/breakdown`, `bill/deposit`, `billService`).

### Sos, Shop and Aftercare

`Sos`: the visits of mobile shops and what follows an unfixable repair
(`dispatch/sos`, `shop/mobile`, `shop/unfixable`, `dispatch/summary`).
`ticket` is the chain; the rider, the shop and the sweep (`Callers`) each try to
continue it, first by the transaction that claims the parent, then by creating
the child, then by naming it.

`Shop`: a walk-in's quote, approval, expiry, work order, quick fix, invoice, release,
close and return tow, with the charges each leaves (`dispatch/shop`, the walk-in part of
`tickets/transition`). `Perform` applies a handler's writes, all, a prefix, or
all but one swallowed failure.

`Aftercare` extends it with disputes, warranty claims, their rework and invoices
(`disputeService`, `warrantyService`, `warrantyRework`, `tickets/warranty`,
`invoiceService`): here calls overlap, write by write.

### Providers and Ratings

`Providers`: records of shops, mobile shops and towers, their reports, vehicles and
rows on the map (`provider/crud`, `admin`, `location`, `vehicleProfileService`).
A call `Looks`, knows its writes, and makes them one at a time among the others';
what tickets do to a provider is one step each. A behaviour begins with one of
the directories `Founded`, which agree with themselves (`FoundedAssumption`), and
with the desks that are open in it (`office`). `Ratings` adds the ratings of
resolved tickets and the averages recomputed from a scan, by the kind of what was
rated (`ratingService`).

### Chat

The room of a ticket, one for each time it is assigned (`chatVersion`), and the
room of a hazard (`chatService`, `chatRepository`). A call reads the ticket, finds
the room, joins or creates it, and sends. `kept` records that the ticket changed
hands without a new room, `replaced` that a room's document was created over
another.

## 4. Runs, bounds and fairness

Every property of a passing run has a mutant in `PROJECT.json`: one plausible
bug in a definition, with which TLC finds that property violated. `TypeOK` is
the type invariant of the modules about which there are theorems; it is proved, not run (section 6).

| run | instance | what it shows |
|---|---|---|
| `payments` | 2 slots; 2 charges, bills {1,2}, deposit 1; `pace`: one handler at a time with crashes, or two without | `MoneyIsBacked`, `CashConfirmedOnce`, `NeverPendingAgain` survive both; `ChargesInTurn` (one active charge, a closed charge is never held, the stamp is current) where requests come one at a time |
| `settlement_serial` | 1 slot, crashes; one cash charge, one SePay; 2 refunds, batches, withdrawals | `BooksBalance`: no commission collected that a refund reversed, deductions equal what was settled, one open refund and withdrawal |
| `settlement_race` | 2 slots, crashes; 1 refund, 2 batches, 1 withdrawal, repeated legacy payouts | `RefundWithinAmount`, `SettledStaysSettled`, and the refinement `ImplementsPromise` |
| `subscription` | 2 notifications at once, 2 charges of a 2-day plan, 2 failures | `GrantedOnce`, `AnsweredIsGranted`; liveness `PaidIsGranted` |
| `flags` | 1 flag, 2 trusted voters, 2 requests and a sweep, 1 death | `AwardIsCurrent`, `PointsFollowLedger`; liveness `LapsedFlagsClose` |
| `bookings` | sides *life* (2 bookings of a slot for one, 2 requests, a sweep, 1 death) and *reminders* (2 couriers, 2 plans, 1 lost call) | `SlotIsExact`, `OneWorkTicket`, `ArrivalIsKept`, `ToldEnough`; liveness `BookingsClose`, `RemindersEnd` |
| `dispatch` | 2 tows, 2 towers, 2 requests, a sweep, 1 death; `bustle`: two tows at once, or one with the search, the ETA, a hold or shifts | `DutyFollowsJob`, the refinement `KeepsPromise`; liveness `SweepsAnswer` |
| `roadside` | sides *fare* (2 towers, one with a card of its own), *chat* (2 helpers), *drop-off* (2 shops and a place), *hours* (a week of 3 days of 4 minutes, every schedule of one or two entries, 12 shops that take bookings) | `FareIsExplained`, `CeilingNeverRises`; `RoomsFitTheJob`; `DropOffIsAgreed`; `HoursAgree` |
| `sos` | 3 mobile shops, the rider, a shop and the sweep; 3 tickets, 1 death | `OneSearch`, `VisitsAddUp`; liveness `NeverStranded` |
| `aftercare` | a walk-in in 8 scopes: charges, quotes, work orders, tows, disputes, warranty, invoices; up to 5 calls, 1 fault | `AccountsClose`, `OneReturnTow`, `HoldStands`, `GivenOnce`; liveness `NothingWaits` |
| `directory` | 2 operators, 2 plates, up to 4 calls, 2 requests and the sweep, from 9 beginnings; 2 resolved tickets | `RecordsAgree`, `RatingHeals`, `LicenceStands`; liveness `GhostsFade` |
| `dispute_rider` | the instance of `aftercare` | violation of `RiderWonOwesNothing` (section 5) |

**Bounds, and why they are enough.** Two charges are the least with which a
charge has a successor or a rival, and a deposit a balance. Amounts are the
smallest that tell apart full, partial and no coverage; in settlement an odd
amount, so that the commission's share of a refund is rounded. Two voters of
weight 3 reach the threshold exactly, and with a changed vote cross it in both
directions. A slot of capacity one is full with one booking; `MaxTickets = 3`
lets a tow and the walk-in it leads to coexist with one more. Two tows and two
towers are the least with which a tower is free while another is busy and a tow
is taken by one after the other; three rounds let a search widen twice and
stop. The fare's instance has a distance above and one below the kilometres
included, a tower on the platform's card and one on its own, and a wait longer
than the grace. With one flag a sweep that a deletion breaks off is one that did not come
to the flag; the flags behind it are not seen one by one. Four minutes a day are enough for hours that
are empty, adjacent, overlapping, overnight and all day. Three shops let a SOS
go from one to the next and be taken over. The scopes of `aftercare` keep to
one subject each, since the states of all at once are out of reach: an
interleaving of a dispute with, say, a warranty claim is not explored. Each
module's bounds are constants named `Max...`.

**State constraints** (in the `MC` modules). `Bounds` (`MCPayments`): invoices are made
and agreed to on a ticket with the lower quote, before a second charge, which follows
none or one that raised the bill; with two requests in flight a second charge follows no
deposit, and the higher bill and the sweeps occur on a ticket that has one charge; the
serial pace has the combinations.
`RefundsOrRepeats`, `RefundsAndOneBatch` (`MCSettlement`): refunds and withdrawals are
not both filed, because they share only the batches, and a charge is stamped twice only
where there is neither. `Apart` (`MCBookings`): each booking has a slot of its own, so
that its own requests do not overlap; the sweep, which lists first and writes later, may
be crossed by a request of the first booking as long as nothing died and the second was
never made; the second, which competes for the place, is only accepted and cancelled.
`Followed` (`MCDispatch`): a tow that two requests decided on is not followed further,
and of the requests about one tower only accepts and cancels overlap, with two tows about
and nothing dead. The rest of what overlaps there is in the theorems (section 6), which
have no constraint. `Followed` (`MCRoadside`): the first
helper of a chat is `h1`, since helpers are alike; at most two handlers work on
a drop-off; a behaviour whose property is already excused (`kept`, `crossed`)
is not followed further; bookings are made on the first day.
In the runs with both a constraint and a liveness property (`bookings`,
`dispatch`) a state outside the constraint ends the behaviour, so the liveness
is about behaviours that stay inside.

**Symmetry** is declared between request slots only in runs without liveness
properties, and the slots are interchangeable: no definition names one.

**Deadlock** is checked in `payments` and `roadside`. Elsewhere
`CHECK_DEADLOCK FALSE`, since the system really stops once its bounds are
used up, or everything is closed or deleted. In `roadside` only a chat, a drop-off
and a shop may be left alone (`LeftAlone`): a tow may not.

**Fairness.** No user, admin or rider is ever assumed to act. What is assumed:

- `Subscription`: a handler that started and does not fail runs on
  (`WF(Handle)`), and SePay delivers again as long as a notification is not
  answered (`SF(Redeliver)`; strong, because delivery is disabled while
  all slots are busy). The number of failures is finite (`MaxFailures`).
- `Flags`, `Bookings`: the scheduler starts the sweep again and again and its
  steps run (`WF(SweepStep)`); time passes. Finitely many handlers die.
  Requests get no fairness.
- `Reminders`: time passes, a courier that began goes on, the sweep comes again.
- `Dispatch`: time passes, and each of the three sweeps runs to its end again
  and again (strong fairness: they take turns in one scheduled function).
- `Sos`: the steps of the sweep, and of a handler that goes on.
- `Aftercare`: the two sweeps (expired quotes, reworks that went nowhere).
- `Providers`: the sweep of the presence rows, and calls that started run on.

## 5. What the code does that its documents do not say

One disagreement is a run that ends in a violation; `PROJECT.json` quotes the text.

- `dispute_rider` (`RiderWonOwesNothing`): the outcome RIDER does not touch an
  invoice that was approved before, so the rider who won still owes it.
  `docs/PAYMENTS.md:452` and `docs/DISPUTES.md:104` say that nothing is due.

The following were met while modelling. The passing runs exclude them by a
named bound or by a history variable in the property, and say so, because a
property must not be stated stronger than the code keeps it.

*Payments, settlement, subscriptions, flags*

- SePay answers 404 to the cancel of an order that nobody opened yet, and the
  switch takes that as cancelled; a page served before opens the order
  afterwards, and the rider pays by both methods.
- A received deposit keeps the ticket's guard, so a request to pay the balance
  is answered with the deposit (`paymentRepository:141`).
- With two requests in flight a late notification revives a cancelled charge,
  and a ticket can have two active charges.
- A refund confirmation that dies after it wrote the charge is repeated and
  applies the refund again (`refundService:207`); the sum is capped.
- The payout of a single charge (`adminService:15`) asks neither for an earlier stamp
  nor for a batch: repeated, or after or across a batch, it pays the charge again.
- Two refunds or withdrawals opened at once both stay; a reversal overwrites a
  settlement's row; a withdrawal is approved and rejected when the approval dies
  before its mark (`payoutService:493`, `509`); a commission row that cannot be
  written is only logged (`paymentService:481`); `myPayouts` shows the net before
  deductions (`payoutService:353`).
- A subscription remembers 50 payments; one it forgot is granted again. A guard whose
  clearing failed blocks the renewal (`subscriptionService:133`, `161`).
- A vote in flight while an administrator locks a flag writes CONFIRMED over
  LOCKED (`flagService:221`). Points stop at 0 while the ledger goes on below.

*Bookings, reminders, hours*

- With two overlapping requests of one booking the place is released or
  claimed twice, two check-ins open two walk-ins. A no-show written by the sweep over an
  arrival that crossed it overwrites the status ARRIVED; the time of the arrival and the
  ticket it opened stay (`ArrivalIsKept`).
- A rider whose outbound tow is still under way is marked NO_SHOW.
- An old task fires at its old time for a later plan and marks it as told;
  a delivery under way overwrites a new plan with the old one, marked as sent; a
  task that exists already under the same name counts as queued.
- Overlapping or adjacent hours make "closes in" end with the first of them
  (`API.md:341`); the after-midnight part of yesterday's hours is open to the
  search and outside hours to a booking; overlapping hours give a slot
  twice; capacity is counted per exact minute, so 09:10 does not count for 09:00;
  slots past the shop's own horizon are shown and then refused.

*Tows*

- Overlapping writers of one ticket: an accept that races a rider's cancel
  leaves the tower off duty (`API.md:1137`); two accepts by one operator give a
  tower two jobs. `DutyFollowsJob` excuses the first (`rough`), and what is left of a
  request that died (`cut`) until its tow is over; `TowPromise` has the second as two
  answers to one who had asked twice.
- A tower that cancels by its status leaves the vehicle "loaded" for its
  successor; a new search inherits the round and the expired time to accept.
  A sweep looks at 200 tickets (`CACHE.md:101`).
- The waiting fee survives no end of a tow (`PAYMENTS.md:97`, `102`); the wait is
  capped before the grace is taken off, not after (`API.md:1640`); a partial of a
  breakdown is not capped (`PAYMENTS.md:289`) and sums the legs of earlier towers.
- An estimate or an approval that was on its way lands on another shop's
  drop-off; two declines lose one another; a re-pick races the shop's own decline;
  a declined estimate after the delivery re-opens the search for a drop-off on a
  closed tow. `DropOff` excuses these by `crossed`.

*SOS, shop, aftercare*

- The look-up for an open ticket and the creation are two steps: two filings at
  once leave two tickets. A late `SetFix` reopens a cancelled ticket. A crash
  between the claim and the creation leaves a continuation that names nothing;
  one between UNFIXABLE and the grace leaves no task (`STATUS.md:122`).
- An approval repeated after the quote's time wipes an approved quote and
  reopens a closed ticket (`PAYMENTS.md:194`); a quick fix on a rework or a
  held ticket is refused after its first write; cash switched to SePay leaves a
  rider who cannot resolve though everything is paid (`PAYMENTS.md:145`);
  READY's late write puts a closed offer back; `disputeHold` is
  looked at by some handlers only.
- With only a deposit paid the bill's item is PARTIAL, which counts neither as
  paid nor as due: the bill shows 0 due.
- Two filings at once: the one that does not hold drops the hold of the other. A
  PARTIAL outcome without an amount resolves the dispute and leaves the hold.
  Two accepts of a claim open two reworks. Two invoice calls take two numbers.

*Providers, ratings, chat*

- A denied tower cannot re-apply with its own plate (`API.md`, Providers); a
  changed plate leaves the old one taken (`SCHEMA.md:238`); a suspended
  operator can turn accepting on again, and so does the end of a job; two
  overlapping applications give two records of a kind.
- Two ratings at once leave an average without one of them, until the next.
- A re-match clears the assignment without archiving the room: the next tower
  joins it with the former one in it (`API.md:2397`). Two openings of a new
  room overwrite each other's participants. A message sent while its room is
  deleted is orphaned.

## 6. Proofs

TLC checks an instance; the theorems below hold for all constants that satisfy
the module's named assumption (`PaymentsAssumption`, ...): any number of
charges, tickets, bookings, towers, shops, riders' calls and requests in flight.
The assumptions say only that bounds are natural numbers, that sets of actors are
finite where they are counted, and that actors and the markers for "nobody" differ.
All obligations are discharged by Z3, Zenon and LS4.

Each module has the same argument. `IInv` is the property, strengthened by what
makes it inductive; the temporal theorem combines `Init => IInv`,
`IInv /\ [Next]_vars => IInv'` and `IInv => Inv`. The strengthening nearly always
says **what a handler in flight may still rely on**: the code reads, awaits and
writes, so an invariant of the documents alone is not preserved by a write whose
guard was a read made earlier. One lemma for each *shape* of step (a
write that leaves a booking's holder alone, a note on a ticket, a ticket that
is added) carries the argument; the lemma for an action shows which
shape it has.

| theorem | property | what it excuses |
|---|---|---|
| `PaymentsProofs!NoSecondConfirm`, `NoRevival`, `MoneyStaysBacked` | `CashConfirmedOnce`, `NeverPendingAgain`, `MoneyIsBacked` | - |
| `SettlementProofs!RefundsBounded`, `ClosedRows`, `StampedOnce`, `KeepsPromise` | `RefundWithinAmount`, `SettledStaysSettled`, -, `ImplementsPromise` | - |
| `SettlementProofs!BooksStayBalanced` | `BooksBalance` | calls that overlap (`Serial`) |
| `ShopProofs!PaidNotLost`, `GrantedAtMostOnce` | `AnsweredIsGranted`, `GrantedOnce` | the second needs `History >= MaxCharges` |
| `ShopProofs!CareOneReturnTow`, `CareHoldStands` | `OneReturnTow`, `HoldStands` | a handler or a call that died (`faults`), in the properties |
| `ShopProofs!CareGivenOnce` | `GivenOnce` | calls that overlap (`overlap`) and, of a claim, calls that died, in the property |
| `FlagsProofs!AwardNeverForgotten`, `PointsAddUp` | `AwardIsCurrent`, `PointsFollowLedger` | a handler that died (`torn`), in the first |
| `DispatchProofs!DutyKept`, `KeepsThePromise` | `DutyFollowsJob`, `KeepsPromise` | towers whose requests overlapped or died (`rough`, `cut`), in the first; tows that two requests decided on, `astray` in the promise of the second |
| `SosProofs!SearchedOnce`, `ShopsComeOnce` | `OneSearch`, a part of `VisitsAddUp` | two filings that overlap (`overlap`); a claim whose handler died (`faults`) |
| `RoadsideProofs!ChatStaysPrivate`, `DropOffStaysAgreed` | `RoomsFitTheJob`, `DropOffIsAgreed` | `kept`, `crossed`, in the properties |
| `RoadsideProofs!LicencesStand`, `RecordsStayInAgreement`, `RatingsHeal` | `LicenceStands`, `RecordsAgree`, `RatingHeals` | a call that looked while another was under way (`tangled`), in the second |
| `RoadsideProofs!CeilingHolds`, `PriceStaysPromised` | `CeilingNeverRises`, a part of `FareIsExplained` | - |
| `BookingsProofs!SlotStaysExact`, `OneWorkStays` | `SlotIsExact`, `OneWorkTicket` | `rough`, in the properties |
| `BookingsProofs!ArrivalStaysKept` | `ArrivalIsKept` | - |
| `BookingsProofs!RidersToldEnough` | `ToldEnough` | deliveries that overlapped or died after the push (`mixed`), in the property |

All of these modules but `RoadsideProofs` also have the theorem `Typing` (`TypeOK`); in
`RoadsideProofs` the types are the first part of the invariants.

**PaymentsProofs.** `IInv == TypeOK /\ RequestInv /\ ConfirmedInv /\ UnusedInv`.
`RequestInv`: the charges a handler works on exist, and the status it is about to
write is never PENDING. `ConfirmedInv`: a charge that somebody confirmed is not
pending, which makes a second success of the transaction `updateStatusWhen`
impossible. `UnusedInv` keeps the documents not created yet blank. From it:
`Typing` (amounts are never negative, because differences are clamped),
`NoSecondConfirm`, `NoRevival`. `MoneyStaysBacked` adds `BackedInv`, what a request
may still write: a handler of a notification holds a captured order, one past the
confirming transaction is the only one that confirmed, so that its commission row
is the first, and any other writes CANCELLED only. `Lasting` (a captured order
stays captured, a charge keeps its method and purpose) makes this last.

**SettlementProofs.** `IInv == Shape /\ RequestInv /\ PayoutInv /\ BatchInv /\
StampNamesBatch /\ RefundWithinAmount`. `BatchInv` (no charge names a batch that
was not written) makes `StampNamesBatch` inductive; `RequestInv` (a handler about
to write a refund carries at most the charge's amount) does so for the refund's
bound; `PayoutInv` (a deduction fits in its batch, whose withdrawal exists)
completes the typing. `KeepsPromise`: every step of the model is a step of
`PayoutBatches` or a stutter.

`BooksStayBalanced` is about calls that come one after another (`Serial`: one slot,
as in the run `settlement_serial`; the run `settlement_race` shows what two
approvals at once do). Between the steps of the one call, charges are settled and
ledger rows appear, and it may die after any of its writes. `Books` is therefore
made of what such a death may leave, and of `Holds`, what the call in flight may
rely on: the charge it approves has no other open request; the plan it computed
`Fits` the rows as they are now and `Gain`s what its batch deducts, though rows
were added after it looked. `OldestFirst` is the lemma about `planSettlement`: what
it spreads over the oldest rows is all it was asked for and no more than each owes.

**ShopProofs** extends `Subscription` and `Aftercare`, which share nothing. For
`Subscription`, `IInv == Shape /\ IdsInv /\ RequestInv /\
AnsweredIsGranted`; `IdsInv`: the remembered charges are distinct, were granted,
and are no more than the history keeps. The hypothesis `History >= MaxCharges` of
`GrantedAtMostOnce` is the exact condition: a subscription that has forgotten a
payment grants it again.

For repairs, `CareInv == ShopState /\ CallsInv /\ HoldInv`. A handler of `Shop` is a list of
writes of which any prefix may be all that happened, or any soft one missing: the
lemma `KeptAlong` says that a property of the documents kept by each write on a list is kept by
every part of it, by way of `Stays`, the step from one write to the next without an
induction theorem. `TowInv` counts the tows under way and the one that may still be
asked for: together one, and one more for each handler that died. It needs the order of the
writes, since the tow is filed first, the answer to the offer recorded after it, and the offer
made again only when a tow is over. `HoldInv` says what `HoldStands` says of calls at rest for
calls in flight too: the dispute that holds the repair is open or its outcome is on some
call's list; no charge is pending or a call is about to cancel them. It is kept because a
call's writes stand in a certain order on its list (`CallsInv`: a dispute is filed before the ticket
names it, decided before its outcome is applied, and a hold is followed by the cancelling),
and because no dispute is decided while the call that files it runs, which is a bound of the
model (`Decide`). Two calls that overlap may each put the repair on hold; the invariant
needs only that the last to do so has an open dispute. The theorems hold for any number
of calls, two under way at a time as in the model.

`CareGivenOnce` adds `GivenInv`, of behaviours in which no two calls overlapped: what the
one call under way still writes to claims and reworks (`Busy`) and what it may rely on. A
call that books a rework has it filed and not told the claim; one that closes a rework
leaves, until its last write, a claim rebooked on work that is done; in every other case
all claims are at rest (`AtRest`: at most one live rework, none and no money back before
the shop's answer, and a rebooked claim's rework is its own and not done). The sweep may
come between two writes of a call, and takes nothing from it that it relies on
(`FollowsHolds`). `InvoiceLast`: a call's number goes on the invoice in its last write, and
there is none until then.

**FlagsProofs.** `IInv == TypeOK /\ HandlersInv /\ AwardIsCurrent`.
`HandlersInv` says that a handler in flight remembers what its next step needs.
`AwardNeverForgotten`: whatever disturbs the ledger, some handler in flight
is about to repair it, or one died. `PointsAddUp` has the invariant
`Tally == AwardsBounded /\ PointsFollowLedger`: a reconciliation moves a
reporter's points by as much as the flag's ledger entry, because both are written
in one transaction that has read the entry, and a flag never costs its reporter
more than one point for each voter, so that a reporter who starts with enough
never meets the floor at zero, where a point taken would be lost.

Sums over finite sets are reasoned about in `FlagsProofs`, `SettlementProofs` and
`RoadsideProofs` (the total of the legs owed, a fold that its definition computes as a
function on sets) without an induction theorem: a statement about all parts of a finite set that
failed would fail for a smallest one (`SmallestPart`, from the well-foundedness of
the strict subset), and that part less one element contradicts it.

**DispatchProofs.** `IInv == TypeOK /\ Placed /\ Good`. `Placed` says which program
points a request of each kind has. `Good` is `Filed` (a request is about a ticket that
was filed) with `TicketInv(t)` for every ticket not in `clash` and `TowerInv(w)` for
every tower not in `rough`. `TicketInv`: one request at most decides on the ticket, and
what that request read still `Holds` of it, except that a cancel may have seen a claim land.
`TowerInv`: the tower has one job and one request about it at most, and `OnItsWay` says
at each point of that request what the job and the duty are by then. No overlap and no
crash is excluded by a hypothesis: a step that makes a ticket or a tower fall out of its
invariant is shown to put it into `clash` or `rough`, which are never left, and a tower or
ticket touched by a death is in `cut`. The lemmas `TicketAside`, `TowerAside` and
`ElsewhereKeeps` say that a step leaves the other tickets and towers alone, so that each
action is looked at for one of each; `OwnTower`, that a request about a job knows whose it is.
`KeepsThePromise` maps each document by `Stage` and shows that every step is a step of
`TowPromise` or a stutter: a claim answers somebody in `asking`, who had no job when it
asked, and a decision finds the ticket as it was read, or the ticket is astray.

**SosProofs.** `IInv == TypeOK /\ TicketInv /\ RequestInv /\ IdsApart /\ Single
/\ ClaimsKept`. `Single`: a fault has one search or tow under way; the threat to
it is a continuation in flight, which claimed its parent in one step and files the
child in a later one. `IdsApart` and `ClaimsKept` therefore reserve the child's
id: two calls never hold the same one, and a claim names a ticket that exists or
that a call is about to file, unless one died. The only overlap excused is that of
two first filings. `ShopsComeOnce` (`NoShopTwice`) adds `VisitInv`: a shop that came
to a ticket, or to one it continues, is there now or excluded from its searches.

**RoadsideProofs** extends `Chat`, `DropOff`, `TowFare` and `Ratings`, which share nothing.
`ChatIInv`: each version of a ticket's chat has *one tenant at most* besides the
rider. `PrivateInv` says there is an assignment of helpers (or nobody) to versions
such that whoever is in the room of a version, wrote in it, or is about to join it
is that tenant; `CallSound` and `ServerSound` say what a call in flight will
do to a room it has found. The helper's change is a new version, and that is
why a call that read the old one cannot reach the new room. `Chat` assumes that the
rider is no helper. The code does not forbid a rider who has a provider's record to
accept his own ticket; then nobody is there to be kept out. `DropIInv` is the
property and that a shop that refused stays among `declined`.

The directory: `DirKept` types the documents and says that the list of writes of
every call in flight is `Proper`: it writes to records that exist, or that it
creates itself. `LicencesStand` follows, with any number of calls at once: no write
brings a denied licence back, because the decision of an application looks
at the status again and every other write leaves it alone or denies.
`RecordsStayInAgreement` needs more, because a call may die after any of its
writes, and another begins from what it left: `InOrder` says that every list is
in an order no crash turns into disagreement (a record and a vehicle are there
before they are linked; all records linked to a vehicle are denied and unlinked
before it is scrapped; a plate that is written is free or the operator's own). While
nothing was tangled, one call at most has writes left, and what it looked at holds.
`RatingsHeal` rests on `RatingKept`: a rating that is alone on its target `Knows`
every score there is when it writes the average.

The fare: `PriceInv` types the tow and says `Priced`, that what its fare and the
breakdowns owed come to is within what the rider was promised, and that what the cap
leaves for a next tower is within the ceiling of the present one (a tow
without a fare was never promised a price and owes nothing yet).
`Remembers`: a location update in flight holds a fare with the same ceiling, so that
writing it back raises nothing, whatever was restamped since. A change of the drop-off
restamps from the fare without the cap and the earlier legs; that is sound only
because of `Priced`. Most steps carry the price over (`Carried`).

**BookingsProofs.** `IInv == TypeOK /\ SweepShape /\ (\A c : Shape(req[c])) /\
(\A b : Good(b)) /\ SlotIsExact`. `Shape` says what a request remembers and whether it
holds the place, and is true of overlapping requests too. `Good(b)` says of
every booking that its deposit exists and that it owns its tickets, and of a booking that
is not `rough`: one request at most handles it (`Alone`); the documents are
`Tidy`, told by the one request there may be (ten parts: where a begun walk-in
is, whether the ticket was received, which tow is linked, that there is one tow
and one work ticket, that the vehicle is parked, what is charged and what
became of the deposit); the sweep's list is right about it (`Swept`); the
request's step fits (`Sound`). A lone handler leaves a booking untidy between its
writes in a way that only its program point tells: hence `Neat` and `Fit`, and
the lemma `StepFits` for each step. `CountHolders` turns "b was a holder and is one no
more" into the counter's step by one. The sweep lists, releases and marks in
separate steps; what it lists is CONFIRMED and alone, or a request came in between and
made the booking rough. `ArrivalStaysKept` is about rough bookings too; its `ArrivalInv`
is made of what no overlap disturbs: a booking names its own work ticket, a delivery that
leaves the ticket alone found one there, and tickets are only added. The theorems do not
use the run's constraint `Apart`: bookings interleave with each other in every way
the code allows, for any capacity. For `Reminders`, `RemIInv` says what a courier
carries of the plan or the bill, that one delivery at most is under way
while nothing is mixed, and that who was told of the plan is marked or about to be.

**Model-checked only**, and why:

- the liveness properties: fairness and `ENABLED` are out of the provers' reach;
- `AccountsClose`, not proved yet: it needs an invariant of which charge is the newest,
  what it asks for and what was received, along every handler's list of writes;
- what is said of an amount computed by a fold over a list of lines:
  `VisitsAddUp` (the bill of the visits), and of `FareIsExplained` the part `BillExplained` (true where base fee and distance come to whole thousands
  and the minimum fare does not bite, as in its run; otherwise the lines of a night,
  each rounded, can miss the amount by a thousand);
- `ChargesInTurn`, which is a property of the instance where requests come one at
  a time;
- `HoursAgree` compares a parser, a search and a slot builder over a bounded week.

## 7. What is not modelled

Not modelled anywhere: authentication, roles, validation, wording, push
messages, caching, formatting, list limits, geometry.

- *Payments*: a quote that changes, or is declined, under its invoice (`Shop` has it); deposits collected in cash or waived (`Bookings` has them);
  `disputeHold` and blocked statuses (folded into the ticket being payable);
  the refund request for an excess deposit; a token's time to live; the
  notification's check of amount and secret. `DISPUTED` is never written.
- *Settlement*: refund policies other than FULL; bank accounts; the settlement
  of a list of charges given by the admin is one read; `settleAgainst` and
  `payoutRepository.create` have no callers.
- *Subscription*: old documents without `paymentIds`; the deletion of a user; the
  plan and start fields; the steps within a refund, which is one step, with or without
  the clearing of the guard.
- *Flags*: the legacy `voters` array, photos, own destinations, reporters whose
  account is gone.
- *Bookings*: catalogue and prices, suggestions, the way back (RETURN tows);
  auto-completion six hours after an arrival is the phase `shut`. Each booking
  has a rider of its own. In `Hours` the settings do not change while they are
  looked at.
- *Dispatch*: what becomes of a tow that two requests decided on at once (anything may,
  in `TowPromise`; TLC follows it no further), distances,
  the admin's moves other than cancel, the cash charge filed at delivery,
  duplicate tickets of a vehicle, SOS and walk-in tickets (`Sos`, `Shop`).
- *TowFare*: route lookup; one location update in flight; deliveries by an admin.
- *Sos*: who is told of a new search; the payments of the visits; the handlers
  of a visit are single steps; either visits one at a time, or the aftermath
  overlapping (`calm`).
- *Shop*: the catalogue; handlers one at a time; the deposit is settled
  online before the quote; the excess of a deposit over a lower invoice is not asked
  back. A swallowed failure skips one write; in a declined quote it would skip the
  refunds behind it too. An approval past the quote's time counts as a fault. A repair's
  `finalAmount` is left out of its bill: no code writes it without the quote. *Aftercare*: disputes filed before the work is over
  or by the system; a hold that races `createPayment`.
- *Providers*: the sweep's limit, an edit that changes plate and type in one call,
  pricing, catalogue, settings, ride configurations; a ticket's
  effect on a provider is one step.

The components without a module, and the reason for each: ticket views and
provider search are reads; live sharing, push delivery, users and roles, saved
places, reports, platform configuration are single writes nothing else rests
on; routing is geometry and an external engine; the response cache is worth a
model that is not written; the http layer, the schedules and the scripts have no
state of their own. `PROJECT.json` lists them.

## 8. Plan

What would come next, most valuable first:

1. The proof of `AccountsClose`.
2. A response cache that is filled by a read begun before an invalidation.
3. The payments of an SOS visit, composed with `Sos`.
