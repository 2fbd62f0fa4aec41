---------------------------- MODULE TripProcess ----------------------------
(***************************************************************************)
(* The rental saga of src/src/trip-process/trip-process.service.ts: the    *)
(* handlers start, endTripTest and terminateTrip, run concurrently by one  *)
(* node process over PostgreSQL (rows), Redis (the cached trip), the       *)
(* Rightech IoT platform (the device lock) and the CloudPayments gateway   *)
(* (the deposit hold and the fare).                                        *)
(*                                                                         *)
(* One action stands for the code between two awaits.  A call of start is  *)
(* named by the trip it is to create, so Trips is both the set of calls of *)
(* start and the set of trips; Finishes is the set of calls of endTripTest *)
(* and terminateTrip.  A call to a remote system may succeed, fail, or     *)
(* take effect while its answer is lost.                                   *)
(***************************************************************************)
EXTENDS Naturals

CONSTANTS
  Scooters,
  Trips,
  Finishes,
  NoScooter,        \* the scooter of a call of start that has not arrived
  NoTrip,           \* the trip of a finish that has not arrived
  DepositModelAtTop \* the gateway's answer has a Model field of its own, as
                    \* lines 128 and 171 read it, besides response.Model,
                    \* the field lines 196 and 381 read

ASSUME TripProcessAssumption ==
  /\ NoScooter \notin Scooters
  /\ NoTrip \notin Trips
  /\ DepositModelAtTop \in BOOLEAN

VARIABLES
  startPc,     \* where each call of start stands
  on,          \* the scooter each call of start is about
  finPc,       \* where each finish stands
  finTrip,     \* the trip each finish is about
  card,        \* cardSpent of each finish, against 0 and the deposit of 300
  rented,      \* Scooter.rented
  tripRow,     \* the Trip row: absent, endTime null, endTime set
  activeRow,   \* the trips that have an ActiveTrip row
  cache,       \* the trips that have a Redis entry
  rewriting,   \* the trips some handler read from Redis and will write back
  lock,        \* what the device does
  hold,        \* the deposit at the gateway
  unconfirmed, \* finishes that logged a failed confirmation (lines 347-349)
  charged,     \* finishes whose card charge happened at the gateway
  paid         \* finishes that stored a Payment row

startVars == <<startPc, on>>
finVars   == <<finPc, finTrip, card>>
dbVars    == <<rented, tripRow, activeRow>>
redisVars == <<cache, rewriting>>
payVars   == <<hold, unconfirmed, charged, paid>>
vars      == <<startVars, finVars, dbVars, redisVars, lock, payVars>>

(***************************************************************************)
(* Program points.  Each value names what the handler has done last.       *)
(***************************************************************************)
UndoPcs     == {"lockRefused", "txFailed", "voided"}
RunningPcs  == {"found", "held", "unlocked", "tripCreated", "activeCreated",
                "rented", "committed"}
StartEndPcs == {"idle", "refused", "rolledBack", "died", "started"}
StartPcs    == StartEndPcs \cup RunningPcs \cup UndoPcs

FinRunning == {"read", "ended", "confirm", "void", "charge", "save", "forget",
               "track", "drop"}
FinPcs     == FinRunning \cup {"idle", "done", "died"}

Fares == {"zero", "small", "large"}  \* 0, at most 300, more than 300

Init ==
  /\ startPc = [t \in Trips |-> "idle"]
  /\ on = [t \in Trips |-> NoScooter]
  /\ finPc = [f \in Finishes |-> "idle"]
  /\ finTrip = [f \in Finishes |-> NoTrip]
  /\ card = [f \in Finishes |-> "zero"]
  /\ rented = [s \in Scooters |-> FALSE]
  /\ tripRow = [t \in Trips |-> "none"]
  /\ activeRow = {}
  /\ cache = {}
  /\ rewriting = {}
  /\ lock = [s \in Scooters |-> "locked"]
  /\ hold = [t \in Trips |-> "none"]
  /\ unconfirmed = {}
  /\ charged = {}
  /\ paid = {}

StartGoto(t, from, to) ==
  /\ startPc[t] = from
  /\ startPc' = [startPc EXCEPT ![t] = to]
  /\ UNCHANGED finVars

FinGoto(f, from, to) ==
  /\ finPc[f] = from
  /\ finPc' = [finPc EXCEPT ![f] = to]
  /\ UNCHANGED <<startVars, finTrip, card>>

(***************************************************************************)
(* start                                                                   *)
(***************************************************************************)

\* findOneMobile reads the scooter row; the check of `rented` uses that copy.
\* An unknown device, user, payment method or tariff refuses the call too.
StartFind(t, s) ==
  /\ on' = [on EXCEPT ![t] = s]
  /\ \/ ~rented[s] /\ StartGoto(t, "idle", "found")
     \/ StartGoto(t, "idle", "refused")
  /\ UNCHANGED <<dbVars, redisVars, lock, payVars>>

\* Mutant: the deposit is charged in one stage.
StartAuthorizeOneStage(t) ==
  /\ StartGoto(t, "found", "held")
  /\ hold' = [hold EXCEPT ![t] = "captured"]
  /\ UNCHANGED <<on, dbVars, redisVars, lock, unconfirmed, charged, paid>>

\* createReccurentPaymentTwoStage: a declined or unanswered authorisation
\* throws; when only the answer is lost the hold stays at the gateway.
StartAuthorize(t) ==
  /\ \/ /\ StartGoto(t, "found", "held")
        /\ hold' = [hold EXCEPT ![t] = "authorized"]
     \/ /\ StartGoto(t, "found", "refused")
        /\ hold' \in {hold, [hold EXCEPT ![t] = "authorized"]}
  /\ UNCHANGED <<on, dbVars, redisVars, lock, unconfirmed, charged, paid>>

\* sendCommand swallows every error and answers undefined.
StartUnlock(t) ==
  LET unlocked == [lock EXCEPT ![on[t]] = "unlocked"] IN
  /\ \/ StartGoto(t, "held", "unlocked") /\ lock' = unlocked
     \/ StartGoto(t, "held", "lockRefused") /\ lock' \in {lock, unlocked}
  /\ UNCHANGED <<on, dbVars, redisVars, payVars>>

\* $transaction is given a callback that uses dbService and not the
\* transaction's client, so each statement commits on its own.
StartCreateTrip(t) ==
  /\ \/ /\ StartGoto(t, "unlocked", "tripCreated")
        /\ tripRow' = [tripRow EXCEPT ![t] = "open"]
     \/ StartGoto(t, "unlocked", "txFailed") /\ UNCHANGED tripRow
  /\ UNCHANGED <<on, rented, activeRow, redisVars, lock, payVars>>

\* Mutant: the row is given the scooter's id for the trip's.
StartCreateActiveWrongId(t) ==
  /\ StartGoto(t, "tripCreated", "activeCreated")
  /\ activeRow' = activeRow \cup {on[t]}
  /\ UNCHANGED <<on, rented, tripRow, redisVars, lock, payVars>>

StartCreateActive(t) ==
  /\ \/ /\ StartGoto(t, "tripCreated", "activeCreated")
        /\ activeRow' = activeRow \cup {t}
     \/ StartGoto(t, "tripCreated", "txFailed") /\ UNCHANGED activeRow
  /\ UNCHANGED <<on, rented, tripRow, redisVars, lock, payVars>>

StartRent(t) ==
  /\ \/ /\ StartGoto(t, "activeCreated", "rented")
        /\ rented' = [rented EXCEPT ![on[t]] = TRUE]
     \/ StartGoto(t, "activeCreated", "txFailed") /\ UNCHANGED rented
  /\ UNCHANGED <<on, tripRow, activeRow, redisVars, lock, payVars>>

\* The surrounding transaction, which holds no statement, commits or times out.
StartCommit(t) ==
  /\ \/ StartGoto(t, "rented", "committed")
     \/ StartGoto(t, "rented", "txFailed")
  /\ UNCHANGED <<on, dbVars, redisVars, lock, payVars>>

StartCache(t) ==
  /\ StartGoto(t, "committed", "started")
  /\ cache' = cache \cup {t}
  /\ UNCHANGED <<on, dbVars, rewriting, lock, payVars>>

\* A void that takes effect at the gateway: only an open hold can be voided.
Voided(t) ==
  /\ hold[t] = "authorized"
  /\ hold' = [hold EXCEPT ![t] = "voided"]

\* Both roll-backs of start void the deposit first.  Reading Model off an
\* answer that has none throws before the gateway is called, and so does a
\* void that fails or whose answer is lost.
UndoVoid(t, from, to) ==
  /\ \/ DepositModelAtTop /\ StartGoto(t, from, to) /\ Voided(t)
     \/ DepositModelAtTop /\ StartGoto(t, from, "died") /\ Voided(t)
     \/ StartGoto(t, from, "died") /\ UNCHANGED hold
  /\ UNCHANGED <<on, dbVars, redisVars, lock, unconfirmed, charged, paid>>

UndoUnlock(t) == UndoVoid(t, "lockRefused", "rolledBack")

UndoTransaction(t) == UndoVoid(t, "txFailed", "voided")

UndoLock(t) ==
  /\ StartGoto(t, "voided", "rolledBack")
  /\ lock' \in {lock, [lock EXCEPT ![on[t]] = "locked"]}
  /\ UNCHANGED <<on, dbVars, redisVars, payVars>>

\* An exception no handler catches, or the end of the process, at any await.
StartDie(t) ==
  /\ startPc[t] \in RunningPcs \cup UndoPcs
  /\ startPc' = [startPc EXCEPT ![t] = "died"]
  /\ UNCHANGED <<on, finVars, dbVars, redisVars, lock, payVars>>

(***************************************************************************)
(* endTripTest and terminateTrip: the same code after the first reads.     *)
(***************************************************************************)
FinRead(f, t) ==
  /\ t \in cache
  /\ finPc[f] = "idle"
  /\ finPc' = [finPc EXCEPT ![f] = "read"]
  /\ finTrip' = [finTrip EXCEPT ![f] = t]
  /\ \E fare \in Fares : card' = [card EXCEPT ![f] = fare]
  /\ UNCHANGED <<startVars, dbVars, redisVars, lock, payVars>>

\* The rider's app sends the id and uuid of its trip; without a cached trip
\* calcTripCost throws and nothing has changed.
EndRead(f, t) == FinRead(f, t)

\* The CRM names the trip row; the uuid comes from the ActiveTrip row.
TerminateRead(f, t) == t \in activeRow /\ FinRead(f, t)

\* Mutant: the nested update forgets the scooter.
FinEndKeepsRented(f) ==
  /\ FinGoto(f, "read", "ended")
  /\ tripRow' = [tripRow EXCEPT ![finTrip[f]] = "ended"]
  /\ UNCHANGED <<rented, activeRow, redisVars, lock, payVars>>

\* Mutant: a failed update is logged and passed over.
FinEndLogged(f) ==
  /\ FinGoto(f, "read", "ended")
  /\ UNCHANGED <<dbVars, redisVars, lock, payVars>>

\* One nested Prisma update: endTime, Scooter.rented and the bonuses.
FinEnd(f) ==
  /\ FinGoto(f, "read", "ended")
  /\ tripRow' = [tripRow EXCEPT ![finTrip[f]] = "ended"]
  /\ rented' = [rented EXCEPT ![on[finTrip[f]]] = FALSE]
  /\ UNCHANGED <<activeRow, redisVars, lock, payVars>>

\* The answer to LOCK is not looked at; then the fare picks the branch.
FinLock(f) ==
  /\ \/ card[f] = "zero"  /\ FinGoto(f, "ended", "save")
     \/ card[f] = "small" /\ FinGoto(f, "ended", "void")
     \/ card[f] = "large" /\ FinGoto(f, "ended", "confirm")
  /\ lock' \in {lock, [lock EXCEPT ![on[finTrip[f]]] = "locked"]}
  /\ UNCHANGED <<dbVars, redisVars, payVars>>

\* acceptPayment: a failure, real or apparent, is logged and passed over.
FinConfirm(f) ==
  LET t == finTrip[f]
      Captured == hold[t] = "authorized"
                  /\ hold' = [hold EXCEPT ![t] = "captured"] IN
  /\ FinGoto(f, "confirm", "charge")
  /\ \/ Captured /\ UNCHANGED unconfirmed
     \/ (Captured \/ UNCHANGED hold) /\ unconfirmed' = unconfirmed \cup {f}
  /\ UNCHANGED <<dbVars, redisVars, lock, charged, paid>>

\* voidPayment has no catch: a failure ends the handler.
FinVoid(f) ==
  /\ \/ FinGoto(f, "void", "charge") /\ Voided(finTrip[f])
     \/ FinGoto(f, "void", "died") /\ (Voided(finTrip[f]) \/ UNCHANGED hold)
  /\ UNCHANGED <<dbVars, redisVars, lock, unconfirmed, charged, paid>>

\* Mutant: a declined charge does not end the handler.
FinChargeDeclined(f) ==
  /\ FinGoto(f, "charge", "save")
  /\ charged' \in {charged, charged \cup {f}}
  /\ UNCHANGED <<dbVars, redisVars, lock, hold, unconfirmed, paid>>

\* createReccurentPayment: its catch leaves acceptAuthPayment undefined, and
\* reading response off it ends the handler.
FinCharge(f) ==
  /\ \/ FinGoto(f, "charge", "save") /\ charged' = charged \cup {f}
     \/ FinGoto(f, "charge", "died") /\ charged' \in {charged, charged \cup {f}}
  /\ UNCHANGED <<dbVars, redisVars, lock, hold, unconfirmed, paid>>

FinSave(f) ==
  /\ FinGoto(f, "save", "forget")
  /\ paid' = paid \cup {f}
  /\ UNCHANGED <<dbVars, redisVars, lock, hold, unconfirmed, charged>>

FinForget(f) ==
  /\ FinGoto(f, "forget", "track")
  /\ cache' = cache \ {finTrip[f]}
  /\ UNCHANGED <<dbVars, rewriting, lock, payVars>>

\* The device's packets are fetched and stored with the trip.
FinTrack(f) ==
  /\ FinGoto(f, "track", "drop")
  /\ UNCHANGED <<dbVars, redisVars, lock, payVars>>

\* The delete is not awaited and its failure is only logged.
FinDrop(f) ==
  /\ FinGoto(f, "drop", "done")
  /\ activeRow' \in {activeRow, activeRow \ {finTrip[f]}}
  /\ UNCHANGED <<rented, tripRow, redisVars, lock, payVars>>

\* Mutant: a failing handler cleans up the active trip.
FinDieDrops(f) ==
  /\ finPc[f] \in FinRunning
  /\ finPc' = [finPc EXCEPT ![f] = "died"]
  /\ activeRow' = activeRow \ {finTrip[f]}
  /\ UNCHANGED <<startVars, finTrip, card, rented, tripRow, redisVars, lock, payVars>>

FinDie(f) ==
  /\ finPc[f] \in FinRunning
  /\ finPc' = [finPc EXCEPT ![f] = "died"]
  /\ UNCHANGED <<startVars, finTrip, card, dbVars, redisVars, lock, payVars>>

(***************************************************************************)
(* pauseOn, pauseOff and updateTripInfoBackground read the cached trip,    *)
(* wait for the device, and write it back without looking again.           *)
(***************************************************************************)
RewriteRead(t) ==
  /\ t \in cache
  /\ rewriting' = rewriting \cup {t}
  /\ UNCHANGED <<startVars, finVars, dbVars, cache, lock, payVars>>

\* Another handler may still hold a copy of the same trip.
RewriteWrite(t) ==
  /\ t \in rewriting
  /\ cache' = cache \cup {t}
  /\ rewriting' \in {rewriting, rewriting \ {t}}
  /\ UNCHANGED <<startVars, finVars, dbVars, lock, payVars>>

RewriteDie(t) ==
  /\ t \in rewriting
  /\ rewriting' = rewriting \ {t}
  /\ UNCHANGED <<startVars, finVars, dbVars, cache, lock, payVars>>

\* CACHE_TTL elapses, or Redis loses the entry.
CacheExpire(t) ==
  /\ t \in cache
  /\ cache' = cache \ {t}
  /\ UNCHANGED <<startVars, finVars, dbVars, rewriting, lock, payVars>>

StartNext(t) ==
  \/ \E s \in Scooters : StartFind(t, s)
  \/ StartAuthorize(t) \/ StartUnlock(t) \/ StartCreateTrip(t)
  \/ StartCreateActive(t) \/ StartRent(t) \/ StartCommit(t) \/ StartCache(t)
  \/ UndoUnlock(t) \/ UndoTransaction(t) \/ UndoLock(t) \/ StartDie(t)

FinNext(f) ==
  \/ \E t \in Trips : EndRead(f, t) \/ TerminateRead(f, t)
  \/ FinEnd(f) \/ FinLock(f) \/ FinConfirm(f) \/ FinVoid(f) \/ FinCharge(f)
  \/ FinSave(f) \/ FinForget(f) \/ FinTrack(f) \/ FinDrop(f) \/ FinDie(f)

RedisNext(t) ==
  RewriteRead(t) \/ RewriteWrite(t) \/ RewriteDie(t) \/ CacheExpire(t)

Next ==
  \/ \E t \in Trips : StartNext(t) \/ RedisNext(t)
  \/ \E f \in Finishes : FinNext(f)

Spec == Init /\ [][Next]_vars

(***************************************************************************)
(* Properties.                                                             *)
(***************************************************************************)
TypeOK ==
  /\ startPc \in [Trips -> StartPcs]
  /\ on \in [Trips -> Scooters \cup {NoScooter}]
  /\ finPc \in [Finishes -> FinPcs]
  /\ finTrip \in [Finishes -> Trips \cup {NoTrip}]
  /\ card \in [Finishes -> Fares]
  /\ rented \in [Scooters -> BOOLEAN]
  /\ tripRow \in [Trips -> {"none", "open", "ended"}]
  /\ activeRow \subseteq Trips
  /\ cache \subseteq Trips
  /\ rewriting \subseteq Trips
  /\ lock \in [Scooters -> {"locked", "unlocked"}]
  /\ hold \in [Trips -> {"none", "authorized", "voided", "captured"}]
  /\ unconfirmed \subseteq Finishes
  /\ charged \subseteq Finishes
  /\ paid \subseteq Finishes

\* A scooter whose row says rented has an open trip.  The flag is set and
\* cleared by different handlers, any of which may die, be repeated or run
\* next to another for the same scooter; were it to stay set with no trip
\* open, no call of the API could ever clear it.
RentedHasOpenTrip ==
  \A s \in Scooters :
    rented[s] => \E t \in Trips : on[t] = s /\ tripRow[t] = "open"

\* From the authorisation until the trip's end the deposit stays at the
\* gateway: no finish of this or another trip, and no roll-back of another
\* start, releases or captures the pledge of a ride that goes on.
RideHoldsDeposit ==
  \A t \in Trips :
    /\ startPc[t] \in (RunningPcs \ {"found"}) \cup {"started"}
    /\ tripRow[t] # "ended"
    => hold[t] = "authorized"

\* A Payment row of a trip is backed by money: the trip is over, the card was
\* charged by the finish that stored the row (or nothing was due), and a fare
\* above the deposit also captured the deposit, unless its confirmation was
\* reported as failed; a smaller fare gave the deposit back.
PaymentBacked ==
  \A f \in paid :
    /\ tripRow[finTrip[f]] = "ended"
    /\ card[f] # "zero" => f \in charged
    /\ card[f] = "small" => hold[finTrip[f]] = "voided"
    /\ card[f] = "large" /\ f \notin unconfirmed => hold[finTrip[f]] = "captured"

\* The ActiveTrip row of a started trip outlives every failed finish: it is
\* gone only when some finish of that trip stored its payment.  It is the
\* only record by which the CRM can still find an unpaid trip.
ActiveRowUntilPaid ==
  \A t \in Trips :
    startPc[t] = "started" /\ t \notin activeRow
    => \E f \in paid : finTrip[f] = t

\* A start that reports a completed roll-back left no money on hold.
RollbackReleasesDeposit ==
  \A t \in Trips : startPc[t] = "rolledBack" => hold[t] = "voided"

\* The trip as its rider and the CRM see it.
Phase(t) ==
  IF startPc[t] # "started" THEN "asked"
  ELSE IF \E f \in paid : finTrip[f] = t THEN "settled"
  ELSE IF tripRow[t] = "ended" THEN "over"
  ELSE "riding"

Phases == [t \in Trips |-> Phase(t)]

Listed == {t \in activeRow : startPc[t] = "started"}

Lifecycle == INSTANCE TripLifecycle
  WITH phase <- Phases, pledge <- hold, listed <- Listed

\* Overlapping, repeated and failing handlers keep the promise of
\* TripLifecycle: no trip is revived or settled twice, no deposit is pledged,
\* given back or kept twice or during the ride, and a trip leaves the list of
\* active trips only when settled.
KeepsLifecycle == Lifecycle!Spec

Record == INSTANCE CachedTrip
  WITH stored <- {t \in Trips : startPc[t] = "started"}, cached <- cache, held <- rewriting

\* The entry of a trip in Redis is stored once, by its start, and written again
\* only by whoever read it while it was there: a refused or failed start leaves
\* none behind, and a repeated one never brings it back.
KeepsRecord == Record!Spec

Live(t) == startPc[t] = "started" /\ tripRow[t] = "open"

\* start refuses a busy scooter: "the scooter is busy" (trip-process.service.ts:69).
OneRiderPerScooter ==
  \A t, u \in Trips : Live(t) /\ Live(u) /\ on[t] = on[u] => t = u

\* A scooter somebody rides is marked rented, which is what keeps it off the
\* riders' map (scooter.service.ts:229-231).
LiveTripIsRented == \A t \in Trips : Live(t) => rented[on[t]]
=============================================================================
