# Verification of the kick-sharing server

TLA+ models of the NestJS server in `src/`: riders rent electric scooters with a
phone, pay by card and bonuses, and a CRM watches over them. The modules say what
the handlers of the server do to the database, to Redis, to the devices and to the
payment gateway; TLC checks them on small instances and TLAPS proves the main
properties for every size.

## 1. The system

One node process serves the mobile application and the CRM and runs a few cron jobs.
Everything of interest is spread over five places that fail independently:

| place | what it keeps | how the code reaches it |
|---|---|---|
| PostgreSQL | users, trips, active trips, scooters, payments, ... | Prisma, `DbService` |
| Redis | the record of each trip being ridden; login sessions | `cacheManager`, with a TTL |
| Rightech platform | the devices: lock, engine, speed limit, packets | `ScooterCommandHandler.sendCommand`, `getScooterPackets` |
| CloudPayments | the deposit hold and the charges | `AcquiringService` |
| YooKassa | renewals of subscriptions, old cards | `YooCheckout` |

Every handler is an `async` function: between two awaits it runs alone, at each
await anything else may run. Two facts shape all models:

- `dbService.$transaction(async () => { ... this.dbService ... })` does not use the
  transaction's client. Each statement in it commits by itself, and an exception
  rolls nothing back.
- No handler takes a lock or checks what it read again before it writes.

### Components

| component | state | operations | interacts with | what is hard | what makes it correct |
|---|---|---|---|---|---|
| trip process: start, end, terminate | `Trip`, `ActiveTrip`, `Scooter.rented`, cached trip, device lock, deposit | `start`, `endTripTest`, `terminateTrip` | all five places | overlapping calls, lost answers, failure between steps, repeats | a rented scooter has a trip; a ride has its deposit; a payment has its money; an unpaid trip can be found |
| trip process: monitoring | cached trip, device engine and speed | `pauseOn`, `pauseOff`, `updateTripInfoBackground` | Redis, devices | read-await-write of whole records, overlapping cron runs | records are coherent; a ban is enforced; ended trips are left alone |
| trip process: settlement | `User.bonuses`, charges | the split and the branch over the deposit | users, gateway | rounding, stale bonuses, repeats | cost = bonuses + card; no overdraft; paid in full |
| zones | `Geofence` | `getGeofencingTripStatus`, schedules, CRUD | monitoring | boundaries, midnight | the strictest rule of the zones applies |
| acquiring, payment methods | `PaymentMethod`, `User.activePaymentMethod` | bind, confirm webhooks, charges | gateway, users | repeated and late webhooks | the active method is an own, active one |
| payments, subscriptions | `Payment`, `UserSubscriptionsOptions` | save gateways, renewal cron | YooKassa | charge, then row | a paid renewal extends |
| debts, fines | `Debt`, `Fine`, `User.balance` | create, pay, delete | gateway | repeat, delete while paying | PAID means paid |
| promocodes | `Promocode`, `User.bonuses` | CRUD, `usePromocode`, archive cron | users, payments | check, then grant | once per user |
| authentication | login session, `TokenErp` | code by call, confirm, refresh, reset | Redis, flash call, mail | counters over an await | a code admits its own phone |
| scooters | `Scooter`, Rightech object | create, remove | Rightech | two systems, one failing | both know the same scooters |
| tariffs | `Tariff.orderInList` | reorder, archive | - | read, then renumber | active tariffs are 1..n |
| trips in the CRM and the application | `Trip`, photos on the disk | list by pages, create, edit, remove | trips, debts, fines | pages that move, a refused delete | no page hides a trip; a row keeps its photo |
| CRM access | `ErpUser`, `TokenErp`, letters of reset | register, login, refresh, reset | mail | two grants at once, a failed look | a token and a letter serve once |
| franchises, cities, types of geofences | rows | create, connect, order and edit types | geofences | inserts nobody awaits | a franchise has all its types |
| statistics | none | a report of three queries | trips, fines, debts, tariffs | no snapshot, rows that lose their references | charges are what was collected |
| settings, scooter models | rows | CRUD | - | - | - |

## 2. The plan

The modules in the order they were written, the most important behaviour first.

| step | modules | state |
|---|---|---|
| 1 | `TripProcess` with the abstract `TripLifecycle` and `CachedTrip` | checked, proved, both refinements proved |
| 2 | `TripMonitor`, which implements `CachedTrip` too | checked, safety and refinement proved |
| 3 | `TripSettlement` | checked, proved |
| 4 | `Promocodes` | checked, proved |
| 5 | `Obligations` | checked, proved |
| 6 | `PaymentMethods`, `Receipts` | checked; the safety proved |
| 7 | `TripZones` | checked; the safety proved |
| 8 | `Renewals` | checked, proved |
| 9 | `MobileAuth`, `EmployeeAccess` | checked, proved |
| 10 | `ScooterRegistry`, `TariffOrder`, `FranchiseSetup` | checked, proved |
| 11 | `TripHistory`, `Reports` | checked, proved |
| 12 | `MCRental`, `MCTripMonitor`, `MCTripRecords`, `MCOffers`, `MCBackOffice`, `MCPayments`, `MCProgress`: the compositions the runs check | checked; all their safety properties proved |

Still worth doing: action properties of the modules whose guarantees are invariants so
far (a settled row keeps what it was settled for), and abstract specifications of the
smaller components in the manner of `TripLifecycle`.

## 3. The modules and the code

All modules share these conventions. One action is the code between two awaits. A call
of a remote system can succeed, fail, or take effect while the answer is lost; a
command to a device can fail silently, because `sendCommand` catches everything. A
handler that throws stops where it is; nothing it did is undone. Program points are
strings that say what the handler did last. Definitions headed "Mutant" are used by no
specification: each is a plausible slip in the definition below it, and shows that the
property it is paired with in `PROJECT.json` can tell the difference.

### TripProcess, TripLifecycle, CachedTrip

`TripProcess` is the rental saga of `trip-process.service.ts`: a call of `start` per
trip, and calls of `endTripTest` and `terminateTrip` as finishes.

| actions | code |
|---|---|
| `StartFind` ... `StartCache` | `start`, await by await: the scooter is read and checked, the deposit held, the device unlocked, the three statements of the callback, the answer of the callback, the record in Redis |
| `UndoUnlock`, `UndoTransaction`, `UndoLock` | the two roll-backs of `start`: void the deposit, lock the device |
| `StartDie`, `FinDie` | an exception, or the end of the process, at any await |
| `EndRead`, `TerminateRead` | the two ways into the finish; the CRM's looks the trip up by its ActiveTrip row |
| `FinEnd` ... `FinDrop` | end of the rows, lock, confirmation or void of the deposit, charge, Payment row, deletion of the record, the track, deletion of the ActiveTrip row |
| `RewriteRead`, `RewriteWrite`, `RewriteDie` | whoever reads the cached trip and writes it back: pauses and the job |
| `CacheExpire` | the TTL of Redis |

State: `rented`, `tripRow`, `activeRow` are the rows; `cache` the entries of Redis;
`lock` the device; `hold`, `charged`, `unconfirmed` the gateway; `paid` the Payment
rows. The fare is one of three classes, since the code only tells 0, up to 300 and
above 300 apart. `DepositModelAtTop` is TRUE if the gateway's answer carries the
transaction id in the field lines 128 and 171 read, which differs from the one the
rest of the code reads; the source does not settle which answer comes. With FALSE
every roll-back dies before its void, and the behaviours are a subset of those with
TRUE (where a roll-back may die at that point too), so the runs use TRUE and the
proofs both.

`TripLifecycle` is what the saga promises: a trip is asked for, ridden, over, settled,
in this order; the deposit is pledged once and returned or kept once; a trip is taken
off the list of active trips only when settled. `TripProcess` implements it under
`phase <- Phases, pledge <- hold, listed <- Listed`.

`CachedTrip` is where TripProcess and TripMonitor meet. It says what may happen to the entry of a
trip in Redis. Its start stores it once; whoever else writes it has read it while it was
there, and may write it after it is gone. TripProcess has the pauses and the job as
unnamed handlers that do just this (`RewriteRead`, `RewriteWrite`, `RewriteDie`);
TripMonitor has them with their copies, and implements the same specification, so that
what TripProcess shows does not hang on a convenient picture of them.

### TripMonitor

The record in Redis as `pauseOn`, `pauseOff` and `updateTripInfoBackground` use it:
each reads the entry, awaits the device, and writes its whole copy back. `CallRead`,
`PauseCommand`, `ResumeCommand`, `CallWrite` are the calls; `JobStart`, `JobGet`,
`JobLook`, `JobNoPackets`, `JobThrow`, `JobEngine`, `JobSpeed`, `JobWrite` the job.
Runs of the job overlap because Nest starts it every ten seconds whether or not the
last one is done. An exception in a run (`JobThrow`) ends that run only: the scheduler
catches what a cron handler throws. `Forget` and `Unlist` are the end of the trip as
TripProcess models it, `Move` changes the zones the scooter is in, `Expire` is the TTL.
Positions, zones and times of day are abstracted to the first status in the list that
`getGeofencingTripStatus` returns, which is all the job looks at.

### TripSettlement

The money of one rider: the split of the cost between bonuses and card
(`Split`, translated from lines 256-274 and their copy in 503-521), the decrement of
the bonuses, the deposit and the charge. Every finish is a call on one of the rider's
trips; two may be on the same one, since neither `endTripTest` nor `terminateTrip` asks
whether the trip is over. The deposit belongs to the trip (`hold`), is confirmed
(`AcceptDeposit`, whose failure is only logged) or voided (`VoidDeposit`, whose failure
ends the handler), and `collected` is what the trip got from the card; a void and a
charge may take effect without an answer. Amounts are whole kopecks. `toFixed(2)` of a
half kopeck goes up or down depending on the binary representation, so `Halves` allows
both. The code's own quantities (`maxBonusUsage`, the two roundings, the correction)
are kept; what they should come to is `FairSplit`. Pauses are not part of the cost:
the code computes them and never passes them to `calcTripCost`.

`PaidInFull` bounds a trip from both sides. From below whoever ended it: a finish that
went through has its cost collected, or all but the deposit. From above only a trip that
one call ended: a second call may collect the cost again, and does in the model as in
the code.

### Promocodes

One code, borne by one row after another, since it is unique. `UseFind`, `UseRefuse`,
`UseGrant`, `UseBook`, `UseFail` are `usePromocode`, which works on the copy it read;
the nested update that connects the user and increments the bonuses is one statement
(`UseGrant`), the Payment row another (`UseBook`). `Create`, `Edit`, `Remove` are the
CRM; the form may change every field. `JobFind`, `JobArchive` are `checkPromoExp`,
whose `forEach(async ...)` sends all updates off and waits for none. An update that is
rejected there is an unhandled rejection, which ends the process: `Crash`.

### Obligations

`payOfDebt`, `payOfFine` and the top-up are one handler over two tables: `PayFind`,
`TopUpFind`, then the charge, the Payment row, the balance and the closing of the row,
each a commit of its own. A call reads the row once and never its `paidStatus`. The CRM
files, waives and deletes meanwhile; the photos of a fine are a folder written before
the row and removed after it.

### PaymentMethods

How a card gets bound. YooKassa's row is created before the user pays and confirmed by
a webhook, which then removes an older row of the same card (`ConfirmFind` ...
`ConfirmActivate`); CloudPayments' row is created by the webhook of a hold of ten
rubles, which the handler voids (`BindSeek` ... `BindVoid`). Webhooks come late, again
and in parallel. `Ask` and `Get` are `getActivePaymentMethod`. A ghost, `overlapped`,
remembers the cards of which two rows were confirmed side by side.

### Receipts

The tail of `tripEnd` drops the trip from the cache, fetches packets and only then
stores the transaction id; the webhook of the receipt looks the trip up by that id and
refuses until it is there.

### TripZones

`getGeofencingTripStatus`, `getCurrentScheduleTimeInterval` and `getCurrentSpeedLimit` as
operators over a table of geofences, and the engine and speed steps of the job that read
them. A shape is the set of places it covers, so the geometry is a parameter. A run that
finds no packets (`JobNoPackets`) commands nothing and writes the record back.

The operators are compared with what the geofences say. `BanHasCause`: who may ban a
place. `ScheduleInHours`: the interval that is found is the one whose hours it is, but
that an interval over midnight is not found after midnight, and a first one over midnight
never. `DeviceSettles`: which geofence the device obeys in the end, told from the
geofences (`BansAt`, `SlowsAt`, `Heard`) and not from the status: the newest one that
bans or slows down here. That is less than one would wish, and it is what the code does:
a ban under a newer zone of slow riding is not obeyed, and in a zone with a schedule the
scooter is set to 25, since only the limit of the whole day is sent.

### Renewals

`checkSubscriptionExp`: `Midnight` selects the rows that expire on the day that begins
and each is worked on from a copy (`Drop`, `Look`, `Charge`, `Extend`, `Book`,
`Cancel`). A failure is logged and the row keeps its date, which no later run selects:
`missed` collects those rows.

### MobileAuth, EmployeeAccess

`MobileAuth` is `authMobile` and `confirmMobileAuth` over the sessions in Redis - the
code, the count of requests, the lapse after 50 seconds - and the users they find
or create. A code is named by the call that dictated it. A call may ring while its answer
is lost (`AskFail`); the handler then ends before it writes the session, so that nothing
counts that call, and the limit of three is one of codes given out (`rung`). The profile
form of `UserService.update` (`ProfileCheck`, `ProfileWrite`) has an address, which is
looked up, and a phone, which is not: `typed` remembers the phones that came this way.
`RemoveUser` deletes the row, `DeleteUserAccount` renames its phone. `EmployeeAccess` has
the accounts of the CRM, refresh tokens per agent and letters of reset. In both, ghosts
(`raced`, `lapped` and their like) remember that two handlers looked before either wrote;
the properties say that nothing else, but for `typed`, can break uniqueness.

### ScooterRegistry

A scooter is a row, a folder and an object at Rightech, made in the order folder, row,
object and removed in the order object, row, folder. Each statement may fail, Rightech
may act and not answer, the process may end. `mixed` and `collided` are the histories
(an edited IMEI, a number drawn twice) that the guarantees except.

### TariffOrder

The places of the tariffs in the application: `Create` takes a number of the sequence,
`Count` and `SetStatus` are `changeTariffStatus`, `ListActive` and `Place` the numbering
of the list after an archival, one commit per row. `Reorder` is one line of
`updateTariffsOrders`: any row gets any place, since the handler writes what the CRM
sends, whatever list the CRM had before it. So density is not assumed of it: `rough`
says that the places may have gaps or repetitions. It is cleared by a numbering that
nobody disturbed and by a line of the CRM that makes the places dense, and set by
everything else that can spoil them.

### FranchiseSetup

Cities, franchises, owners and the types of geofences. `createGeofenceType` leaves its
inserts to `forEach(async ...)`: they are the set `work`, which an answer does not wait
for and an end of the process loses.

### TripHistory, Reports

`TripHistory` is the list of a rider's trips, a query per page, while trips start, end,
are edited (their times, and the rider they belong to) and are removed. `unsteady` says
that during the reading a trip left the list, moved in it, or tied with another. Beside
the list it has the folder of photos of a row: `Create` writes one, `RemoveRow` deletes
it after the row, and `PhotoFind`, `PhotoWrite`, `PhotoUpdate` are `saveTripPhoto`, which
writes into the same folder and deletes it when the row cannot be updated, whatever was
in it before; `refused` remembers those trips.

`Reports` is a report of `stats.service.ts`: `ReadTrips`, `ReadFines`, `ReadDebts` are its
queries, which the `$transaction` around them does not make a snapshot, `AmountOfCharges`
and the credits of the franchises its sums. Trips are found by the owner their scooter
has now and priced by the boarding their tariff has now. Beside each row stands what the
Payment rows have of it: an end of the trip (`EndTrip`) leaves its card share `owed` by
that call, `BookTrip` books it, and it may never come to that; the trip may be ended
again, which writes over price and bonuses and owes a share of its own (`again` is what
the earlier ends left to the card). `EditTrip` is `PATCH trip/:id`, which writes a price,
a scooter and a tariff (`patched`).

`ChargesExplained` accounts for a report to the kopeck, but only for one that nothing
disturbs, over rows and tariffs that nobody edited. `CountsWhatIsPaid` is about the
disturbed ones: a fine or debt that is paid, opened or deleted between the queries is
neither lost nor invented (`first`, `gone`). `CreditedOnce`: two franchises are credited
with one trip only if its scooter moved or its row was edited.

### Sums, MCGeofences

`Sums` defines the sum of a function as the number of its units, `{x} \X (1 .. f[x])`
over its arguments, without recursion: the library's theorems on cardinalities apply to
it, and TLC counts a few dozen pairs. The wallets of Promocodes, the balances of
Obligations and the charges of Reports are such sums. `MCGeofences` holds the tables of
geofences of the two runs of TripZones.

## 4. What is checked

Systems that share no state are checked in one run. The module of such a run has a
variable `part`, which the initial state chooses and no step changes: a behaviour runs one
of the systems while the others rest in their initial states, so the run explores the sum
of the systems and not their product, and an invariant of a system means in the run what
it means alone. Where a module serves several small instances (phones that are called
often, phones that get accounts) each is a part too. A property that is a conjunction says
one thing of each part, and `TypesOK` the types of all.

| run (module) | parts and their instances | properties |
|---|---|---|
| `trip_process` (`MCRental`) | TripProcess: 1 scooter, 2 trips, 2 finishes, every failure at every step; MobileAuth: 1 device, 2 phones, 2 users, 1 call and forms that write one of the phones, and 2 phones that are called 4 times; ScooterRegistry: 2 numbers, 2 IMEIs, 2 rows; 2 requests each | `RentedHasOpenTrip`, `RideHoldsDeposit`, `PaymentBacked`, `ActiveRowUntilPaid`; `KeepsLifecycle`, the refinement; `SessionsHold`, `OneAccount`; `ScootersAgree` |
| `one_rider` (`MCTripProcess`) | TripProcess | violated: two overlapping starts both get the scooter |
| `live_rented` (`MCTripProcess`) | TripProcess, starts one at a time | violated: the repeat of a failed end frees the next rider's scooter |
| `trip_monitor` (`MCTripMonitor`) | TripMonitor: 1 trip, 3 calls, 1 run of the job, 3 statuses; TripZones: tables of 2 of 6 geofences, 3 places, a day of 6 minutes | `RecordCoherent`, `QuietStaysQuiet`; `ScheduleInHours` |
| `ban_enforced` (`MCTripMonitorLive`) | TripMonitor, fair: 1 trip, 1 call, 2 overlapping runs; 2 trips, 1 run, devices that fail | `BanIsEnforced` |
| `settlement` (`MCTripRecords`) | TripSettlement: 3 finishes of up to 3 trips, deposit 3, costs 1, 4, 6; TripHistory: 3 trips, pages of 1, 1 removal, and 3 trips with photos, 1 removal, 2 calls that save one | `SplitIsFair`, `NoOverdraftAlone`, `PaidInFull`; `NothingIsLost` |
| `promocodes` (`MCOffers`) | Promocodes: 1 user, 2 rows, 3 calls, 2 sums; TariffOrder: 3 tariffs, 2 requests, places up to 3 | `OnceUnlessOverlapped`, `BooksExplainBonuses`; `ListInOrder` |
| `once_per_user` (`MCPromocodes`) | Promocodes: 1 user, 1 row, 2 calls | violated: two overlapping calls both get the bonuses |
| `obligations` (`MCBackOffice`) | Obligations: 2 debts in turn, 1 fine, 2 calls; EmployeeAccess: 2 employees and 2 addresses, or 2 agents and 3 tokens, or 2 letters; FranchiseSetup: 2 of everything, or 1 franchise whose types are ordered twice and edited twice; 2 requests each | `PaidIsCovered`, `ToldIsTrue`, `BalanceWithinPayments`; `RowsUnique`, `ServesOnce`; `TypesWhole` |
| `payments` (`MCPayments`) | Renewals: 2 rows, period 2, 5 days; Receipts: 2 trips, 3 ends, 2 webhooks; Reports, in four parts: a fine and a debt of a ride; a trip that is ended twice and edited; 2 trips of 2 tariffs that are edited; 2 scooters that move and 2 reports | `OneChargePerPeriod`, `OverdueHasCause`; `ReceiptOfOwnCharge`; `ReportsAddUp` |
| `trip_zones` (`MCTripZones`) | TripZones, fair: tables of 2 of 6 geofences, 3 places, a day of 6 minutes | `DeviceSettles` |
| `progress` (`MCProgress`) | PaymentMethods, fair: a row of each gateway, or 2 of YooKassa, 1 card, 2 handlers; Promocodes, fair: 2 rows, 1 call; Receipts, fair: 1 trip, 2 ends, 2 webhooks | `PaysWithConfirmedOwn`, `BoundStaysPayable`, `HoldIsReleased`; `ExpiredIsArchived`; `ReceiptArrives` |

Some properties are proved (section 5) without a run of their own: the type invariants of
TripMonitor, TripZones and PaymentMethods, `RollbackReleasesDeposit`, `PhotosBehindFine`,
`RenewalIsPaid`, `BanHasCause`, `ChargesByRow` and the two refinements of `CachedTrip`
(`KeepsRecord`).

### Bounds, and why they are enough

- Two trips of one scooter are the smallest instance in which a rider can do another
  rider harm, and two finishes that in which a repeat, or the CRM, meets a finish under
  way. Scooters share nothing but the rider's card, so one is enough.
- One trip suffices for the records, which are read and written whole and one at a
  time; three calls admit a pause, a pause on top of it and a resume, `MaxPauses` 2 the
  two open intervals, and of the calls at most two overlap (`TwoCallsAtATime`), so that
  with the run of the job there are three copies in every order. (Two calls and two
  runs were checked as well, four million states, with the same result.) Two trips are needed only where one run's
  failure starves another trip, and there no calls.
- Deposit 3, costs 1, 4 and 6: nothing due, odd and even amounts, a card share below
  and above the deposit. Three finishes, since an overdraft needs two that overlap and
  the third is the repeat; and of one trip the first may take the deposit, the second
  charge the rest, the third everything. `MaxBonuses` bounds what promocodes add.
- Three calls of a promocode: two that overlap and one that comes after. Two rows: the
  code is removed and created anew. The same instance with two users passed as well
  (1.3 million states); users share only the row.
- Two handlers of one kind are what a check-then-write needs to go wrong, a third is
  the one that comes after; the runs of the CRM modules have two, whose requests come one
  after the other without end, and each property is violated by a mutant of the code at
  these sizes. Two debts are one row and its successor. Two rows of one card, of the same
  gateway and of different ones, are every way in which a confirmation meets an older row;
  with a second card there are three times the states and the same result (three minutes,
  mostly for the liveness). Five midnights hold two periods and a missed night
  between them. A day of six minutes has room for an interval, a gap and one that passes
  midnight; the operators compare minutes only. Pages of one trip move as pages of ten.
- `MaxCalls`, `MaxTokens`, `MaxResets`, `MaxRows`, `MaxPlace`, `MaxBatches`, `MaxEdits`,
  `LastDay`, `LastTime` bound what is only counted up.
- The runs of TripProcess and TripMonitor do not look for deadlocks: handlers end and
  calls are finite there. Where one part of a run comes to rest (the calendar of Renewals
  ends, the bounded rows of the CRM are used up) that part may stutter, so that the parts
  that never stop are still searched for deadlocks. In `progress` rows, calls and
  webhooks are used up too, and the run does not look.

### Fairness

`TripMonitor!FairSpec`: weak fairness of each run, because the cron starts it every ten
seconds for ever and node goes on with a pending await; strong fairness of a
successful look and of a command that arrives, per trip: a device that is asked again
and again is at some time reached. Without the second nothing could be promised, since
each single command may be lost. The calls of the rider, the movement of the scooter
and the TTL are not fair. `Promocodes!FairSpec`: weak fairness of the twelve-hourly job,
strong fairness of each update, because `Crash` may lose one but does not come between
for ever.
`PaymentMethods!FairSpec` and `Receipts!FairSpec`: CloudPayments repeats a webhook until
it is answered, so the start of a handler for it is strongly fair; a handler under way
goes on (`Proceed`), and not every statement fails, so those of the handler are strongly
fair too. `TripZones!FairSpec`: the job comes
every ten seconds, not every run finds no packets (it asks for those since the start of
the trip), and not every command is lost. Nothing else
is fair. In the runs of several parts each fairness condition is that of a disjunction with
one action of each part: since `part` never changes, that is the condition of the part
that runs, and it keeps the number of conditions TLC has to check small.

### Findings

- `one_rider`: `start` checks `rented` on a copy (trip-process.service.ts:68-70) and
  sets it five awaits later. Both riders get the scooter the code says is busy.
- `live_rented`: `endTripTest` does not ask whether the trip is over already. Its
  repeat after a failed charge clears `rented` of a scooter the next rider has, and the
  map, which skips rented scooters (scooter.service.ts:229-231), offers it again.
- `once_per_user`: `usePromocode` checks `usedByUsers` on a copy; two calls of one user
  both pass, though the code says «Вы уже использовали промокод»
  (promocode.service.ts:115).

Other places where the code does less than its names or comments suggest were met while
modelling, and the models do what the code does. They have no run of their own:

- The job obeys the first status of the list, and the list follows the age of the
  geofences (trip-process.service.ts:928); outside any `mainZone` means banned, so two of
  them ban each other (1103); the second interval of a schedule over midnight ends before
  it begins (1238); the limit of a schedule is computed and 25 is sent (947).
- Addresses of users and employees are looked up and then written, without a unique
  column; a look that fails counts as "free" (user.service.ts:157, erp-user.service.ts:139).
  The phone of a profile form is written without a look (user.service.ts:165).
- A flash call whose answer is lost is not counted as one of the three
  (auth.service.ts:159).
- A trip that is ended twice is paid twice (trip-process.service.ts:392); one whose charge
  is declined after the deposit was taken is over and not paid (381).
- `saveTripPhoto` deletes the folder of a trip that stays, with the photo it had before,
  when the update of the row fails (trip-process.service.ts:1001).
- `createGeofenceType` awaits none of its inserts (geofence.service.ts:336).
- The branch that takes a refused scooter back is unreachable (scooter.service.ts:68).
- The order of tariffs commits row by row, and is what the CRM sends (tariff.service.ts:58).
- `PATCH trip/:id` writes price, scooter, tariff and rider of a trip unchecked
  (trip.service.ts:180).
- A removed tariff makes every report with a trip of it fail (stats.service.ts:234); the
  sums of a report read `debt` where the queries fill `dept`, so nothing is ever unpaid
  (148); `totalSum` adds the bonuses to the full price of a trip where `charges` subtracts
  them (254-275), and an unpaid trip whose debt was paid counts twice.

In each case of the three runs the passing runs say how far the damage goes: a second rider does not
touch the first one's deposit (`RideHoldsDeposit`), the rows still have a trip behind
each rented scooter, a code is granted twice only if the checks overlap.

## 5. What is proved

Every safety invariant and every action property a passing run checks is a theorem, and
so are the refinements of `TripLifecycle` and `CachedTrip`. The theorems hold for any sets of trips, scooters,
calls, runs, users, rows and requests, for any table of geofences, any calendar and any
amounts, under the named assumptions of the modules: the `No...` values are not members
of the sets they are kept apart from, amounts and bounds are naturals, and the sets that
are counted or summed over (the tariffs, the trips of a list, the rows of a report) are
finite, as tables are. Sets that are not counted may be infinite.

A module of proofs extends the composition its run checks, since the properties of the
run are named there (`PaymentMethodsProofs` needs only PaymentMethods). A lemma `Runs...` per part says that a behaviour of the composition
is one of the part: it starts in the part's initial states, and each of its steps is a
step of the part or leaves it alone. So what is proved of a part holds in the
composition.

| module | inductive invariants | theorems |
|---|---|---|
| `RentalProofs` | TripProcess, `IInv`: types, `StartInv`, `FinInv`, `RentedHasOpenTrip`, `ActiveRowUntilPaid`; ScooterRegistry, `RegistryInv`: types, `CarriesInv`, `FilesInv`, `RegisterInv`, `RemovalInv` and the three guarantees; MobileAuth, `SignInInv`: types, `CallInv`, `SessionInv`, `CountInv`, `PhoneInv`, `EmailInv` | `TypeCorrect`, `RentedIsBacked`, `RideIsPledged`, `PaymentIsBacked`, `UnpaidStaysListed`, `RollbackIsComplete`, `ImplementsLifecycle`, `RentalKeepsRecord`; `DatabaseAgrees`; `SessionsAreSound`, `AccountsAreOne`; `RentalTypesCorrect` |
| `TripMonitorProofs` | TripMonitor, `IInv`: types, `RecordCoherent`, `CallInv`, `JobInv`; TripZones: types, and the status of a table | `MonitorTypeCorrect`, `RecordIsCoherent`, `QuietIsFinal`, `MonitorKeepsRecord`; `ZonesTypeCorrect`, `BanNeedsCause`, `IntervalsInHours` |
| `TripRecordsProofs` | TripSettlement, `IInv`: types, `TripInv`, `CoveredInv`, `AloneInv`, `FairInv`, `LedgerInv`; TripHistory, `HistoryInv`: types, `PhotoInv`, `ReaderInv` | `SettlementTypeCorrect`, `SplitAlwaysFair`, `OverdraftNeedsOverlap`, `PaidTripIsPaidInFull`; `NothingGetsLost`; `TripRecordsTypesCorrect` |
| `OffersProofs` | Promocodes, `IInv`: types, `CallsInv`, `ConnectedInv`, `OverlapInv`, and `BooksInv`; TariffOrder, `OrderInv`: types, `HandlerInv`, `PlacesDense`, `OrderKept` | `PromocodesTypeCorrect`, `TwiceNeedsOverlap`, `BooksExplained`; `ListStaysInOrder`; `OffersTypesCorrect` |
| `BackOfficeProofs` | Obligations, `IInv`: types, `CallsInv`, `AboutInv`, `PhotosInv`, `PaidIsCovered`, `ToldIsTrue`, and `BalanceInv`; EmployeeAccess, `AccessInv`: types, `AccountInv`, `NumberInv`, `GrantInv`, `PostInv`, `ResetInv`; FranchiseSetup, `SetupInv`: types, `StepInv`, `WorkInv`, `TypesComplete`, `EditInv` | `ObligationsTypeCorrect`, `PaidNeedsCover`, `ToldStaysTrue`, `PhotosOutliveFine`, `BalanceIsPaidFor`; `RowsAreUnique`, `ServedOnce`; `TypesAreWhole`; `BackOfficeTypesCorrect` |
| `PaymentsProofs` | Renewals, `IInv`: types, `ChargeInv`, `OverdueInv`, `BooksInv`; Receipts, `ReceiptInv`: types, `EndInv`, `StoredInv`, `HookInv`; Reports, `StatsInv`: types, `TripInv`, `ReadInv`, `WaivedInv` | `RenewalsTypeCorrect`, `NoPeriodChargedTwice`, `EveryRenewalIsPaid`, `OverdueIsExplained`; `ReceiptIsOfOwnCharge`; `ChargesCountEachRow`, `TripIsCreditedOnce`, `ReportsAreExplained`; `PaymentsTypesCorrect` |
| `PaymentMethodsProofs` | `IInv`: types, `RowInv`, `CallInv`, `PairInv`, `BoundStaysPayable` | `MethodsTypeCorrect`, `PaysWithOwnCard`, `BoundCardStays` |
| `SumsProofs` | - | lemmas: a sum of naturals is the number of its units (`NaturalSum`), grows with its function (`SumGrows`), changes by what one argument changes (`SumChangesAt`), does not depend on the names of its arguments (`SumReindexed`), and adds pointwise (`SumAdded`) |

**TripProcess.** None of the invariants is inductive alone. `RideHoldsDeposit` needs to
know for each program point of a start what its deposit is (`StartInv`); that no finish
can touch it needs that a finish works on a started trip, and past its update on an
ended one (`FinInv`). `PaymentBacked` needs `DepositResolved` at the program points
between the branch over the fare and the Payment row. The refinement follows action by
action from `IInv`: each action is one step of `TripLifecycle` or none, and the second
finish of a settled trip is where `Resolve` must be allowed after `Settle`.

**TripMonitor.** A record is coherent because every copy in hand is (`CallInv`, `JobInv`): a
handler writes back what it read, changed in a way that keeps it coherent; only between
the job's look and its engine command does its copy tell two stories, and it is never
written then. This is why
stale writes lose updates but never mix two stories. `QuietIsFinal` follows from the
guards alone: without an entry and without a copy there is nothing to act on. For the
refinement of `CachedTrip` a step changes what one handler holds (`HeldByCall`,
`HeldByJob`): a trip is let go of only if no other handler holds it too.

**TripSettlement.** `SplitIsReference` compares the two-stage computation with bonuses
up to half for every natural cost and every amount of bonuses; `SplitFair` adds that
the card never pays less than half. `NoOverdraftAlone` needs that, without an overlap,
only one finish has read and not yet taken, and the row holds at least what it read
(`LedgerInv`). `PaidInFull` parts what a trip has collected into the
deposit it took and what it was `Charged`. The charges only grow, and of a trip that no
call has named there are none (`TripInv`); the trip of a finish past its charge was
charged at least what that finish counted, whatever other calls on it do (`CoveredInv`);
and of a trip with a single call it is known at each program point what it has collected,
which is never more than the share of the card (`AloneInv`). A step of one call is about
one trip, so that the calls on other trips keep theirs (`OneCallMoves`).

**Promocodes.** `OnceUnlessOverlapped` needs that the row of a grant remembers the
user while it is there (`ConnectedInv`), so that nobody passes the check after it, and
that two calls past the check did so side by side (`OverlapInv`). The books are a sum of
Payment rows and a sum of grants without one. Each step changes what one call adds to
one of the two (`SumChangesAt`): a grant adds to the second what it adds to the bonuses,
the booking moves it to the first. That a row is booked once needs that only a call at
its end has one (`BookedLast`).

**Obligations.** A row that says PAID has a charge taken or a waiver behind it because
every call that is about to close a row has been charged, whatever happened to the row
since; a deleted row stays deleted, so nobody who was told "paid" is told otherwise. The
balance is within the payments, but by itself this is lost when a call writes its Payment
row and another credits: a call that stands between its row and its credit has not raised
the balance yet (`CreditedOf`), and what the others were credited bounds it; no call has
a row before it comes to write it (`NotYetBooked`).

**EmployeeAccess.** An address is free when it is registered unless two raced for it
(`AccountInv`). Tokens and letters are numbered as they are issued, so that an exchanged
one never returns (`NumberInv`, `PostInv`). What a grant saw of the tokens of its employee
and agent is still all there is, unless another overlapped it (`GrantInv`). A letter that
reset a password is gone, or the handler that will delete it is on its way (`ResetInv`).

**FranchiseSetup.** An order of types that nobody awaits is complete at every moment if
the inserts under way are counted: each step replaces an insert of `work` by its row, and
the row of parameters belongs to the franchise and kind it was ordered for (`WorkInv`).
An edit that is half done is in the hands of the one call that edits the type, unless two
did (`EditInv`).

**TripZones.** The statuses of a table are compared with what its geofences say by the
position each status has in the list; the two copies of the interval test are compared with
each other and with the hours, minute by minute for a day of any length.

**Renewals.** The job is never told what an earlier run did. That no period is charged
twice needs that every charge lies in the past (`ChargeInv`): only rows that expire today
are taken up, and a row that was charged and not extended stays behind for ever. That
none is forgotten is `OverdueInv`; the counts need that a charge is for a new date, so that
the set of charged dates grows by one (`OneMore`).

**PaymentMethods.** `BoundStaysPayable` is inductive together with `PairInv`: of two
handlers between their update and their deletion with different rows of one card, the
later one saw the other, so the card is `overlapped`; hence whoever overlapped nobody
still has his row, and the row he removes is another.

**ScooterRegistry.** The guarantees are nearly inductive: each needs what the handlers
between their statements have done. The number of a create belongs to it alone from its
folder to its row (`FilesInv`); a create about to register still has its row and nobody
else registers its IMEI (`RegisterInv`); a removal that drops its row leaves nothing at
Rightech, and has `touched` the row before, so no promise to the user is broken
(`RemovalInv`, `Quiet`). All three hold but for IMEIs and numbers with the histories the
ghosts remember.

**MobileAuth.** The code in a session was dictated to the phone beside it because the
call that writes the session is the one that dictated it (`SessionInv`, `CallInv`). The
limit of calls is not inductive: the call is made first and counted afterwards, so
`CountInv` says what the request under way knows and, without one, what the cache
knows; two requests at once in a session make its device `lapped`, until the session
lapses with one of them at most under way. A call without an answer changes neither. An
account is one per phone and address because the request that creates it is alone between
its look and its insert, or is `raced`, or the phone was `typed` into a form.

**TripHistory.** A trip that was over when the reading began has been seen or stands behind
the pages that were turned: with `Ahead` the number of trips before it in the list,
`Ahead(t) >= page * PageSize`. Trips that end in the meantime come behind it or in front
of it, where they only raise the number; what could lower it makes the list `unsteady`.
That each page shows exactly those between its bounds, and that the reading ends, are
counts of finite sets. A row with a photo has its folder because whoever deletes the
folder has deleted the row before, or is a `saveTripPhoto` that remembers the trip in
`refused`; and a photo that was just written has its folder already when the row comes to
name it (`PhotoInv`).

**TariffOrder.** The count that an activation read, and the list that a numbering goes
along, are true of the table while the request is `calm`, and the places behind the
numbering are those of the list (`HandlerInv`). When it ends, the places are 1 to n
because an injection of the n active tariffs into n places is onto.

**Receipts.** The id in a row is that of a charge of this trip (`StoredInv`); what a webhook
found stays in the row unless the row is gone or the trip was ended twice (`HookInv`).

**Reports.** What a report has read is still so while nothing has moved (`ReadInv`), and
every trip satisfies an equation that no step breaks, repeated ends and edits included:
what its Payment rows have and what its calls owe is what its last end and those before it
left to the card, `booked + owed = share + again` (`TripInv`); if nobody edited the row,
the share is the price and the boarding less the bonuses. Hence a calm report counts row
by row what was booked, owed, boarded or paid (`ChargesByRow`); that its three sums come
to the sum over the rows is `SumReindexed`, which takes what was read to the rows it was
read of, and `SumAdded`. What was paid when the report began is in its answer, or is not
read yet and still paid, or was deleted (`Counts`).

Only model-checked: the liveness properties `BanIsEnforced`, `DeviceSettles`,
`HoldIsReleased`, `ExpiredIsArchived` and `ReceiptArrives`, since the prover handles
neither fairness nor ENABLED; and the three violations, which are behaviours of an
instance.

## 6. What is not modelled

`PROJECT.json` lists every component with its status.

- Wording, logging, the contents of pictures, mail, sockets, the web redirects: pure I/O.
- Settings, scooter models, the list of a user's payments, subscriptions' own rows: one
  row read or written at a time, and nothing in the models depends on them.
- Roles and permissions, and with them the variants of a list by role; the lists of the
  CRM are one query each.
- The geometry of the map: which places a polygon or circle covers is given to TripZones;
  and `canParking`, which answers a question and changes nothing.
- The CRM's editing and removal of `Trip`, `Scooter` and `Tariff` rows under a live trip:
  TripHistory, ScooterRegistry and Reports have them, TripProcess takes its rows for
  given. Nothing in the code prevents it, and nothing says what should happen.
- The application is taken to send the id and the uuid of its own trip with the
  request that ends it; the code does not compare them.
- YooKassa as a gateway of trips, and the cards of SBP and SberPay, which the
  confirmation of a method cannot read.
- The averages of a report over its interval of days.
- Renaming the code of a promocode in the CRM's form.
- What the answer to a lost UNLOCK should lead to, what a pause promises about the engine
  while the job runs, whether a rented scooter may be removed, and whose role a refresh
  token carries after a change of roles: nothing in the repository says what is right.
