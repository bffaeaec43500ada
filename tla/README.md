# Ocar: a verification project for the ride backend

Ocar is a ride-hailing system: a TypeScript API (`src/api`) over Postgres, Redis and BullMQ, with web and mobile
apps for riders, drivers and admins around it. Several API processes and workers run at once. Almost every rule
that matters (one driver, one ride; one rider, one ride; a ride is charged once; an earning is paid out once; nobody
is left waiting) is kept by compare-and-swap updates, row locks and partial unique indexes, in handlers that read first
and write later. This directory models those handlers in TLA+, checks them with TLC on small instances and proves the
central facts with TLAPS for every size.

## 1. Inventory

The state is in Postgres unless said otherwise. `rides/` stands for `src/api/src/modules/rides/`.

| component | state | operations | hard behaviour | what makes it correct |
|---|---|---|---|---|
| Driver presence (`rides.service.ts` goOnline, goOffline; `auth.service.ts`; cleanup worker) | `driver_sessions`, `driver_location_snapshots` | go online, go offline, idle sweep, login on another device | read of the session, later write by id; two writers | one active session; a driver on a trip keeps theirs |
| Matching (`rides.service.ts`, `rides.repository.ts`, `broadcast.processor.ts`, `dispatch-scheduled.processor.ts`) | `rides.status`, `rides.driver_id`, `ride_assignments`, `ride_advance_meta`, BullMQ jobs | book, dispatch, broadcast, lapse, decline, accept, manual and forced assignment, grace check, stale sweep | late jobs, concurrent accepts, assignment against broadcast, crash between statements | no double assignment; only an offered driver drives; a card can be accepted; every booking is answered |
| Trip (`rides.service.ts`) | `rides.status`, `driver_sessions` | arrive, start, return leg, end, early end, cancel by rider, driver and sweep, admin's resolution | compare-and-swap on an old read; the driver is freed in another statement | status moves along legal edges; a driver is freed once the ride is over, and not before |
| Integrity guards (migration 109) | trigger, two partial unique indexes | every update of a ride | indexes exist only if the data allowed it | the last line of defence for the above |
| Settlement (`rides.service.ts`) | `fare_snapshots`, `payments`, `rides.cash_collected_at` | final fare, early end, collect cash, stranded sweep | fire and forget after the end, re-run by a sweep; the early end writes its fare before its compare-and-swap | charged once; every completed online or wallet ride is billed |
| Offers (`modules/offers`) | `offers`, `offer_redemptions`, `offer_user_usage` | reserve, consume, release, true down, stale sweep, an admin's patch | concurrent reservations, release against reopening, a release on the pool, read then write of the discount | budget and limits never exceeded; counters equal the redemptions; a billed discount is backed |
| Payments (`modules/payments`) | `payments`, wallets, ledgers | record, order, debit, confirm, retry, PayU callback, reconcile | duplicated and late callbacks, retry with a new transaction, sweep against callback | one bill, settled by one payer; captured money settles or is flagged; a debit settles |
| Purchases (`modules/packages`, `payments.service.ts`) | `package_purchase_orders`, `wallet_topup_orders`, ledgers | order, callback, claim, credit, replay, sweep | several callbacks at once, over several statements; a death between claim and credit | credited once; what was paid is found |
| Payouts (`payments/submodules/settlements`) | `driver_earnings`, `settlements`, the bank's transfers | accrue, clear, batch, cash-out, approve, submit, retry, webhooks | the job and an admin submit at once; lost answers; webhooks early, late, repeated | an earning leaves once; an open settlement is backed; none is stuck |
| Ride PIN (`rides.service.ts` markArrived, `lib/otp.ts`) | `rides.start_otp_hash`, a Redis key | arrive, repeat, fetch, start | two stores, repeated and overlapping calls | the PIN shown is the PIN checked |
| Logins (`modules/auth`) | `refresh_tokens`, `auth:driver-sid` | log in, refresh, reuse, log out | racing refreshes, overlapping logins | one usable token per family; the last device goes on |
| Admin API, onboarding, pricing, call masking, geo, safety, notifications, chat, shares, analytics, caches, WebSocket, housekeeping jobs, apps | | | | not part of the ride protocol |

How they interact: `createBooking` commits a ride, then enqueues three broadcast jobs (or writes `ride_advance_meta`
for a later dispatch). The broadcast worker reads online sessions and writes assignment rows, which drivers answer.
An accept locks the ride row, then takes the driver's session. The trip handlers move the ride on and, at its end,
give the session back; then the settlement writes the final fare, trues the offer down, and bills the ride by its
channel. PayU's callbacks and the reconcile job confirm online bills, the rider's wallet is debited, the driver collects
cash; each of them books commission and earning, and consumes the offer, in its own transaction. Earnings are later
swept into settlements and paid out through RazorpayX. The cleanup and scheduler workers sweep what nobody finished. Admins enter at any point.
Messages to apps (WebSocket, push) carry nothing that is not in these rows.

## 2. Modules

| module | models | state it owns |
|---|---|---|
| `RideBase` | the shared rows, jobs and half-done requests; constants, bounds, types | all variables |
| `DriverSessions` | goOnline, goOffline, the idle sweep and the login on another device | `session`, `presence` |
| `RideMatching` | booking to assigned driver, the admin's assignments, the stale sweep | `offer`, `meta`, `queued`, `grace`, `casts` |
| `RideTrip` | assigned driver to the end of the ride, freeing the driver | `requests` of the trip handlers |
| `RideSystem` | composition of the three, processes that die, fairness, all properties | `failures` |
| `RideLifecycle` | abstract: what a ride may do, whoever races | `status`, `driver` |
| `RideMoney` | the rows offers, settlement and payments share; requests and jobs between two statements | all money variables |
| `OfferRedemptions` | an offer's books: reserve, consume, release (in and outside a transaction), true down, stale sweep, patch | `offer`, `usage`, `redemption`, `held`, `discount`, `listed` |
| `RidePayments` | the end of a ride to its payment: fare, record, order, debit, confirm, cash, retry, callback, sweeps | `payment`, `settled`, `debited`, `txn`, `tasks` |
| `MoneySystem` | composition of the two, fairness, all properties, refinement mappings | |
| `OfferBudget` | abstract: grants within a budget, made once, never grown, never taken back once given | `grant`, `total` |
| `RideCharge` | abstract: one bill of one amount, settled once by one payer | `charge` |
| `GatewayPurchases` | packages and top-ups through PayU | `order`, `page`, `credits`, `settler` |
| `DriverPayouts` | earnings, settlements, submitters, the bank, its webhooks | `earning`, `payout`, `bank`, `submitter`, `hook` |
| `RidePin` | markArrived and the two copies of the PIN | `hash`, `cached`, `shown`, `arrival` |
| `DriverLogins` | one device, refresh rotation, reuse, logout | `sid`, `token`, `login`, `refresh` |
| `MC_Ride`, `MC_Money`, `MC_Parts` | definitions for TLC's instances | |
| `Totals` | sums of amounts, counted coin by coin | |
| `RideSystem_proofs`, `RideSafety_proofs`, `MoneySystem_proofs`, `OfferBooks_proofs`, `GatewayPurchases_proofs`, `DriverPayouts_proofs`, `RidePin_proofs`, `DriverLogins_proofs` | theorems | |

### State and code

`status` and `driver` are `rides.status` and `rides.driver_id`. `offer[r][d]` is the `ride_assignments` row, as far
as it decides an accept: *open* (offered, unexpired), *grace* (offered, expired less than the five seconds
`acceptAssignment` still takes), *closed* (declined, expired, cancelled, or past the seconds), *accepted*.
`session[d]` is the sequence of a driver's `driver_sessions` rows, so that writes by a remembered id hit the row they
mean. `meta` is `ride_advance_meta`, `queued` and `grace` are BullMQ jobs.

A SQL statement, or a transaction, is one step. A handler of several is several steps: `requests`, `casts` and
`presence` hold the handlers in between, with what their first read saw (`seen`, `driver`, `row`, `todo`). That is
where the interleavings are. A transaction is split where it must be: `acceptAssignment` takes the row lock in its
first statement and reads the driver's session in the second, so it is two steps (`AcceptLock`, `AcceptCommit`), and
everything that updates that ride, or accepts for that driver, waits in between (`Locked`, `LockFree`). At commit the
session index may refuse (`AcceptRollback`).

Abstractions, and why they lose nothing the properties speak of:

- Where a driver is, vehicles, categories and wallets: a broadcast may find any set of online drivers. Refusals for
  those reasons are the empty set.
- `is_available`: every location ping sets it again and `findNearbyDrivers` takes unavailable drivers after a grace
  time, so it excludes nobody for good.
- In the modules of the ride: PINs, fares, coupons and stops are left out; a handler that gets past them is modelled.
  `RidePin` and `MoneySystem` take up the first three.
- Time: an offer may lapse at any moment, a delayed job may run at any moment, a sweep may list a ride at any moment.
  This is more than the real clocks allow, so safety carries over; where a property could fail for timing alone it is
  not stated.
- Equal requests (a double tap) and equal queued jobs are one element of a set; the second would lose the same
  compare-and-swap.
- An accept that waits for a lock checks the offer when it gets the lock; Postgres re-checks the ride's status then
  and the offer by the statement's snapshot.
- `rides_one_live_per_driver_idx` and `rides_one_live_per_user_idx` are taken to exist; migration 109 (lines 47-75)
  only warns when old data forbids them. The mutants `CanAcceptTwice` and `OpenUnchecked` show what they are worth.

In the money modules a ride keeps only what the money sees (`unbooked`, `waiting`, `underway` and the three ends).
`tasks` is the set of requests and jobs between two statements; each carries what its earlier statements read
(`at`, `n`, `txn`). `payment[r]` is the `payments` row, of which `ride_id` is unique; `settled` counts how often
commission, earning and cashback were booked. Two deliveries of one PayU callback at the same statement are one element;
the reconcile job and the retry are others beside it. A transaction is one step; `undo` on the pool (the broadcast
worker) is four, `finaliseDiscount` three. `settleRideCompletionPayment`'s calls of `finaliseDiscount` are one step where
they are made and three in the early end. Amounts are computed (a percentage of the fare, at most the estimate), so the
division rounds down as the code's does.

In `DriverPayouts` an earning's `by` is its `settlement_id`, a settlement's `id` is NULL, the placeholder of a claim, or
the bank's. `bank` is the truth at the bank: one transfer per idempotency key. The history variables `lost`, `late`,
`early`, `broken` (payouts), `trouble` (PIN), `overlapped` and `ended` (logins), `cut` (offers) record that a hazard has
happened; a property names the ones it cannot survive, and each of those exemptions is needed: without it TLC finds a
violation. `logout` also calls `goOffline`, which is `ReadOnline`/`ReadAgain` of `DriverSessions`.

### The abstract specifications

`RideLifecycle` is what the ride service promises: a status moves along the edges the code uses (a subset of those
migration 109 allows), a driver is assigned only to a waiting ride and only when free, and only an unassignment takes
them off. `RideSystem` implements it with `status` and `driver` as they are, which is not obvious: every handler writes
on the strength of an older read, and `verifyEndOTP` and `markArrived` expect other statuses than they read.

`OfferBudget` is what an offer promises. `MoneySystem` implements it with the state and the amount of a ride's
redemption for `grant`: the budget's counter is not in the mapping, so the refinement says that a counter updated by
increments, releases and true-downs never lets the redemptions that stand exceed the budget.

`RideCharge` is what a ride's payments promise. The mapping makes *pending* and *failed* rows one due bill (a retry
reopens the bill, it does not write another), and takes as payer cash, the wallet, or the gateway transaction that was
confirmed: a second capture can neither settle the ride again nor replace the first.

## 3. Runs

`MC_Money` and `MC_Parts` use the modules of their names, the others `MC_Ride`. "Rounds" is `LastRound`; in the code it
is 3. One round that closes the ride and one that does not (2) are all the kinds there are. `MaxCasts` is 1 in the large
instances and 2 in `MC_Live` and `MC_Parts`, where the worker has 20: a second job overlaps the first in `MC_Live`, and
one stale job overlaps every other handler anywhere. `MaxRequests` = 2 lets any two handlers overlap, which is what
every race here needs. `CHECK_DEADLOCK FALSE` everywhere: a finite set of bookings, orders and logins ends, and then
nothing happens. Drivers are interchangeable, so are rides with riders of their own, earnings and submitters (symmetry,
in safety runs only).

| run | instance | shows |
|---|---|---|
| `MC_Core` | 2 rides, 2 drivers, 2 rounds | types, no double assignment, accepted row, no stranded `on_trip`, acceptable cards, no late offer, the life cycle |
| `MC_Presence` | 1 ride, 2 drivers, 2 sessions each, 1 crash | one active session, and the above while drivers come and go |
| `MC_Admin` | a scheduled and an immediate ride, 1 assignment | no double assignment, accepted row, life cycle, no late offer under manual, forced and reverted assignments |
| `MC_Live` | 1 scheduled ride, 2 drivers, 2 rounds, 2 broadcasts at work, every way a trip ends, fair | life cycle, no stranded `on_trip`; dispatched, answered or closed, abandoned pickup ended, driver freed |
| `MC_Money` | 2 cash rides of 2 riders on one offer, or 1 ride paid online or from the wallet; 2 requests or jobs at work, 2 transactions, 1 retry, 1 death; fair | types, the offer's books, both refinements, backed bills; every capture, stranded ride and reservation resolved |
| `MC_Parts` | one part per behaviour: 2 rides of one rider, 1 driver, 1 assignment; 2 earnings, 2 settlements, 2 submitters, 1 webhook, 1 fault; 1 package, 1 top-up, 2 settlers, 1 crash; 3 arrivals; 2 logins, 4 tokens, 2 refreshes | one open immediate ride per rider while an admin reopens; payouts, purchases, PIN and tokens |

In `MC_Money` the offer's budget (3) holds one full discount of 2 and not two, one less after an early end (1) and not
before, both after an admin's raise (4): reservations are refused, and freed by a true-down, a release or a patch. In
`MC_Parts` the parts share no state, so a behaviour runs one of them while the others rest; nothing is lost by that and
the state spaces add up instead of multiplying. Two settlements let one be retried into the other, two submitters let the
job race an admin, four tokens let one login rotate twice while another starts. One webhook at a time there and any
number in the theorems.

The bounds are small, but each case happens: the mutant of every property is found in the same instance, and every
action fires in one of the runs.

Runs that TLC must refute; each states what the repository says of itself:

| run | what happens | what it contradicts |
|---|---|---|
| `MC_CrashBooking` | crash between the booking's commit and `ride_advance_meta`: no sweep ever sees the ride | `scheduler.worker.ts:26-27` |
| `MC_StaleDriver` | cancellation read driver 1; forced assignment reverted; driver 2 accepts; the compare-and-swap on `accepted` succeeds and frees driver 1 | `load-tests/README.md:263-264` |
| `MC_RevertCard` | the reverted driver's row stays `accepted`, the new card can never be accepted | `rides.repository.ts:1220-1222` |
| `MC_ManualOffer` | a broadcast round adds offers after the manual assignment cancelled all | design of manual assignment, line 52 |
| `MC_CrashFinish` | crash before the driver is freed: `on_trip` for good, goOnline answers 409 | `rides.service.ts:236-240` |
| `MC_Replace` | login reads *online*, driver accepts, `goOffline` reads again and ends *on_trip* | `auth.service.ts:91` |

`OnTripIsExplained` and `CardIsAcceptable` thus hold without forced assignments (`MC_Core`) and not with them;
`ScheduledDispatches` and `DriverReleased` hold without a crash (`MC_Live`) and not with one.

What the history variables exempt is where the money paths give way; each of these is a behaviour TLC shows when the
exemption is dropped:

- The last broadcast round releases the offer on the pool (`broadcast.processor.ts:151`). A death in between leaves the
  budget, the rider's use or the snapshot's discount behind (`cut`), and the stale sweep, which looks for reserved rows,
  never finds it; a ride an admin then reopens is billed with a discount nothing backs, contrary to what
  `offers.repository.ts:238-239` says of the discount.
- A payout whose answer is lost, or whose id is not stored, falls into the catch: the settlement is failed and its
  earnings freed although the transfer went out, and the next batch pays them again (`lost`). The comment at
  `settlements.service.ts:330-336` expects the placeholder to stay.
- The claim asks for a NULL payout id and not for the status (`settlements.service.ts:340`): a submitter that read the row
  before another one failed it submits a failed settlement (`late`).
- A payout webhook that comes before the id is stored matches nothing and is marked processed (`early`); its comment
  (`payments.service.ts:873-877`) has it match later.
- A death between a webhook's two updates makes the redelivery a no-op (`broken`), although it is commented idempotent
  (`payments.service.ts:821-822`).
- Arrivals that overlap may leave the hash of one PIN and the clear text of another; logins that overlap may revoke each
  other's tokens.

### Fairness

`FairSpec` assumes that a handler that has begun goes on (its queries return), and that the repeatable jobs of the
scheduler and cleanup workers keep running, so that they reach each ride they list: weak fairness per ride on
`Publish`, the end of an accept, `Finish`, the second half of the pickup sweep, `Dispatch`, `ExpireStaleRequested`,
`ListStalePickup`. No user, driver or admin is assumed to do anything, nor is a broadcast job to find anyone. A sweep
stays enabled while the ride has the status it looks for, except that it waits for an accept in progress; that accept
ends, by fairness, and either is the progress wanted or gives the lock back.

`MoneyFairness` assumes the same of the money paths: a request that has begun goes on (for PayU's callbacks per
statement, since several are at work beside the others), the payment-reconcile and offers jobs keep running, so that the
stranded sweep and the stale-reservation sweep reach each ride, and, about the environment, that PayU delivers the
notification of a capture again until it is answered, which is what the 500 answers of the callback rely on. With a
budget of deaths that is finite, one delivery gets through. `CaptureIsAccounted` needs the delivery (the reconcile job
looks at the row's current transaction only, not at one a retry has replaced). The other modules have safety properties
only: `PaidPurchaseIsFound` and `EarningIsNotStuck` say that somebody is left who will act, not that they do.

## 4. Proofs

TLAPS proves, for every set of rides, riders and drivers, every bound, with crashes and the admin's handlers
(assumptions: the named ASSUMEs of `RideBase` - `NoDriver` is no driver, the bounds are numbers, there is a session
row and a round, riders are riders):

- `TypeCorrect`: `TypeOK`, one step per action.
- `RideInvAlways`, from which `NoDoubleAssignment` (`OneLiveRidePerDriver`) and `DriverHoldsRow`
  (`LiveRideHoldsAcceptedOffer`). Neither is inductive: an accept checks *requested* and *no live ride* in its first
  statement and commits later. `RideInv` adds what the lock protects: while an accept holds it the ride is still
  requested and its driver still has no ride (`LockHeld`), and no two accepts share a ride or a driver
  (`LockExclusive`). Then only the commit puts a ride on the way, and it commits what was checked. That no step takes an
  accepted row back (`KeepsAccepted`) gives the other half.
- `SeenAlways`: what a handler remembers of its first read is a status that lets it go on. The compare-and-swaps use
  it as the expected status, so the refinement needs it.
- `ImplementsLifecycle` (`LifecycleSpec`): initial states map to initial states, every step to a life cycle step or a
  stutter, one case per action, from `TypeOK`, `RideInv` and `SeenIsRead`.
- `ClosedOffersStay` (`NoOfferComesBackLate`): only the two callers of `createRideAssignment` can reopen a closed row.
- `OneOpenRide` (`OneOpenRidePerRider`): with the fact that only rides booked for later are ever *scheduled*, which
  exempts `Dispatch` from the rider's index.
- `OneSessionEach` (`OneActiveSession`): every writer either adds no active row or adds one beside no other.

Two properties fail once an admin forces a driver onto a ride and the grace check takes the driver off again
(`MC_StaleDriver`, `MC_RevertCard`), so their theorems assume `"force" \notin Handlers`, and nothing else: manual
assignments, crashes and every other handler stay in. Under it no request of a forced assignment and no grace check
exists (`NothingForced`), so a ride that has begun stays begun and keeps its driver (`BegunStays`). From that:

- `OnTripAlwaysExplained` (`OnTripIsExplained`): a trip handler frees the driver of its first read, so the invariant
  needs `ReadDriverStays`: if it read a ride on the way, that ride has begun and still has that driver. A ride then
  leaves the way only by a handler that frees its driver or leaves a *finish* behind (`TripEnds`), and a *finish* is
  lost only with its process (`FinishKept`).
- `CardsCanBeAccepted` (`CardIsAcceptable`): an accepted row belongs to a ride that has begun (`AcceptedHasBegun`), so
  `createRideAssignment` never meets one on a ride that waits.

For the money, with any number of rides, riders, transactions, requests at work, retries and deaths (assumptions: the
named ASSUMEs of `RideMoney`):

- `MoneyTypeCorrect`: not inductive by itself (a task that carries no transaction could be anywhere), so it is proved
  with `MoneyInv`. `TasksAreSound` is its core: what a request can be at, given what it is and how its ride is paid.
- `PaidOfferUsed`: *completed* is written only together with the consumption, and a reservation is made only before
  anything is billed (`BookedFirst`).
- `DebitIsSettled`: a wallet debit only happens for a ride that names the wallet, whose row no sweep fails
  (`WalletPays`), so the confirmation that follows finds it pending, or finds what an earlier one settled.
- `PaymentsKeepTheCharge` (`RideChargeSpec`): the refinement, for every step; `CashIsCollected` and `UnbilledIsUnpaid`
  give the two ways a bill is settled.
- `SettledByItsCapture` and `AnsweredAccounted`: money captured by PayU settles a bill only if it was captured for this
  ride and in the billed amount, and a capture that was answered with 200 (so that PayU reports it no more) has settled
  its ride or is flagged. Both are parts of `CaptureInv`: a row names only a transaction minted for its ride
  (`MintedForRow`), a notification or poll that goes on to confirm still knows a capture that pays for its ride
  (`TaskIsPaid`), and minted transactions and bills never change what they are (`RowsStay`), so what was compared before
  PayU's answer is still true at the confirmation. The converse is not claimed: a capture may be flagged *and* settle its
  ride, when the reconcile job has read it as captured, a retry (to which PayU had said *unknown*) then gives the row
  another transaction, and the notification finds no row before the job confirms; whoever refunds a flagged capture has
  to look at the row (`payments.service.ts:1040-1046` against `:1189`).
- `BooksAlwaysBalance` (`BooksBalance`): `budget_spent`, `redemption_count` and the riders' uses are those of the
  reserved and consumed redemptions, plus what a release on the pool has taken and not yet given back (`Owed`). Every
  step does one of eight things to the books (`BookStep`: nothing, reserve, true down, release in a transaction, begin a
  release on the pool, give back its budget, give back its use, end it), and a lemma over plain values says of each that it
  keeps them balanced; the transactional release is proved as the composition of the pool release's statements. It is
  inductive with `PlaceInv`: which rides have a redemption or a discount, where a request can be, that a cut-off request
  is gone (`CutIsOver`).
- `DiscountsWithinBudget`: from it, what is reserved or consumed never sums to more than the offer's budget.
- `BilledDiscountBacked` (`BilledDiscountIsBacked`): `DiscountIsBacked` follows the copy of the discount in the ride's
  fare against the redemption's amount through true-down and release.
- `OfferKeepsItsPromise` (`OfferBudgetSpec`): the refinement. The abstract guard speaks of the sum of all grants, the
  code's of one counter, and the books are what makes the two the same.

Sums are written as the number of coins in a set of piles (`Totals`): a fold would need induction over data, while the
cardinality of a finite set with one element more or less is a theorem of the library. Any set of rides is covered,
since only finitely many are ever booked.

For the parts, with any number of orders, settlements, submitters, webhooks, arrivals and logins:

- `CreditedOnce` and `PaidPurchaseFound`: both rest on what a settler knows at each statement (`SettlerKnows`): a package
  is credited under the reference its claim stored, a top-up under our own transaction id, so two settlers credit under
  one reference and the ledger's uniqueness makes it one credit.
- `OpenIsBacked`, `PaidOnce`, `NothingIsStuck`: `PaidOutOnce` follows from `PaidIsBacked` (what the bank is paying is
  still in its settlement), since an earning is in one settlement. That is inductive only with `OneClaim` (one claim at a
  time unless it was late), `UnaskedIsUnclaimed` and `GivenBackUnpaid` (rows go back only where the bank was not asked or
  refused). `EndInv` follows each way a payout ends, and names who still has work to do.
- `PinsAgree` and `ShownPinStays`; `OneTokenIsUsable`: the invariants say what each call between two awaits holds.
- `PinTypeCorrect`, `PurchaseTypeCorrect`, `PayoutTypeCorrect`, `LoginTypeCorrect`: the type invariants under them.

Only model-checked: the liveness properties, since liveness under fairness is out of the prover's reach. Every other
property of a passing run is a theorem. With forced assignments `OnTripIsExplained` and `CardIsAcceptable` do not hold;
`ManualOfferIsExclusive` and `ReplacementSparesTrip` do not hold at all.

## 5. Not modelled

`PROJECT.json` lists every component, with what is left out of each modelled one. In the ride: `is_available`,
return-cab routes, stops, wrong PIN attempts, the ack-check nudge, the two rarer enders of a session (documents revoked,
`admin.repository.ts:849`; account deletion, `account.service.ts:66`), loss of data in Redis. A driver who accepts
without an online session drives without being `on_trip`; the model has that behaviour (`OnlineRow` 0), and
`docs/RIDE_FLOWS_AUDIT.md` (2.5) describes it. In the money: how a fare is computed, tolls and waiting charges,
cancellation fees, the Razorpay collection paths PayU replaced, cashback offers, payout holds and negative earnings, the
consumption of a package's balance. Locks inside a transaction have no order in the models: that `reserveRedemption` and
`undo` take the offer and the usage row in opposite order (`offers.repository.ts:229`) can only make Postgres abort one
of the two, and is not seen.

Most of the repository is outside a model's reach. Of its code lines, about half are the three apps' screens, and of
`src/api` most are routes, validation, SQL text for listings and reports, mapping of rows to answers, messages and
calls to providers: `admin.repository.ts` and `admin.controller.ts` are forms over single rows. They have no
interleaving that a property could be about. The definitions here name the lines that decide a state change, which is a
few per cent of the whole and nearly all of what the handlers of the ride and its money do to shared state.

## 6. What remains

In this order, each with what it would add:

1. Package balance: its consumption by rides against a purchase's credit and an admin's adjustment (the same
   `driver_package_wallets` row, three writers).
2. Call masking: a masked number is released once its ride ends, whoever dies; the same shape as `DriverReleased`.
3. SOS and disputes: paging sweeps against an operator's answer.
4. In the ride: documents revoked and account deletion as enders of a session; a driver who is online while driving as a
   property of matching.
5. Bounds: two broadcasts at work with two rides; three rounds; two webhooks at once in `MC_Parts`; the mix of a cash
   ride and an online ride on one offer in `MC_Money` (today either two cash rides or one of the others).
