---------------------------- MODULE RentalProofs ----------------------------
(***************************************************************************)
(* What holds of a rental for any sets of scooters, trips, finishes,       *)
(* requests and addresses and any bounds: the safety of TripProcess and    *)
(* that it implements TripLifecycle; the safety of MobileAuth and of       *)
(* ScooterRegistry; and with them all that the composition MCRental        *)
(* promises.                                                               *)
(***************************************************************************)
EXTENDS MCRental, TLAPS

(***************************************************************************)
(* The inductive invariant of TripProcess.                                 *)
(***************************************************************************)

\* Where a start stands says what its deposit, rows and cached trip are.
PledgedPcs == {"held", "unlocked", "tripCreated", "activeCreated", "rented",
               "committed", "lockRefused", "txFailed"}

StartInv(t) ==
  /\ startPc[t] # "idle" => on[t] \in Scooters
  /\ startPc[t] \in {"idle", "found"} => hold[t] = "none"
  /\ startPc[t] \in PledgedPcs => hold[t] = "authorized"
  /\ startPc[t] \in {"voided", "rolledBack"} => hold[t] = "voided"
  /\ startPc[t] = "idle" => tripRow[t] = "none"
  /\ startPc[t] \in {"tripCreated", "activeCreated", "rented", "committed"}
       => tripRow[t] = "open"
  /\ startPc[t] \in {"activeCreated", "rented", "committed"} => t \in activeRow
  /\ startPc[t] = "started" =>
       /\ tripRow[t] # "none"
       /\ tripRow[t] # "ended" => hold[t] = "authorized"
  /\ tripRow[t] = "ended" => startPc[t] = "started"
  /\ t \in cache \cup rewriting => startPc[t] = "started"

\* A finish that has read works on a started trip, which is over once the
\* finish has ended it; behind the fare's branch the deposit is dealt with.
SettledPcs == {"charge", "save", "forget", "track", "drop", "done"}

DepositResolved(f) ==
  /\ card[f] = "small" => hold[finTrip[f]] = "voided"
  /\ card[f] = "large" /\ f \notin unconfirmed => hold[finTrip[f]] = "captured"

FinInv(f) ==
  /\ finPc[f] # "idle" =>
       finTrip[f] \in Trips /\ startPc[finTrip[f]] = "started"
  /\ finPc[f] \notin {"idle", "read", "died"} => tripRow[finTrip[f]] = "ended"
  /\ finPc[f] = "confirm" => card[f] = "large"
  /\ finPc[f] = "void" => card[f] = "small"
  /\ finPc[f] \in SettledPcs => DepositResolved(f)
  /\ finPc[f] = "save" => (card[f] # "zero" => f \in charged)
  /\ finPc[f] \in {"forget", "track", "drop", "done"} => f \in paid
  /\ f \in paid =>
       /\ finPc[f] # "idle"
       /\ tripRow[finTrip[f]] = "ended"
       /\ card[f] # "zero" => f \in charged
       /\ DepositResolved(f)

IInv ==
  /\ TypeOK
  /\ \A t \in Trips : StartInv(t)
  /\ \A f \in Finishes : FinInv(f)
  /\ RentedHasOpenTrip
  /\ ActiveRowUntilPaid

(***************************************************************************)
(* The frames: what each family of variables keeps.                        *)
(***************************************************************************)
USE DEF vars, startVars, finVars, dbVars, redisVars, payVars

\* Every step of the system is a step of some start, of some finish or of the
\* handlers that rewrite the cached trip, and keeps the types.
LEMMA TypeStep == TypeOK /\ [Next]_vars => TypeOK'
<1> SUFFICES ASSUME TypeOK, [Next]_vars PROVE TypeOK'
  OBVIOUS
<1> USE DEF TypeOK
<1>1. CASE UNCHANGED vars
  BY <1>1
<1>2. ASSUME NEW t \in Trips, NEW s \in Scooters, StartFind(t, s) PROVE TypeOK'
  BY <1>2 DEF StartFind, StartGoto, StartPcs, StartEndPcs, RunningPcs
<1>3. ASSUME NEW t \in Trips, StartAuthorize(t) PROVE TypeOK'
  BY <1>3 DEF StartAuthorize, StartGoto, StartPcs, StartEndPcs, RunningPcs
<1>4. ASSUME NEW t \in Trips, StartUnlock(t) PROVE TypeOK'
  BY <1>4 DEF StartUnlock, StartGoto, StartPcs, UndoPcs, RunningPcs
<1>5. ASSUME NEW t \in Trips, StartCreateTrip(t) PROVE TypeOK'
  BY <1>5 DEF StartCreateTrip, StartGoto, StartPcs, UndoPcs, RunningPcs
<1>6. ASSUME NEW t \in Trips, StartCreateActive(t) PROVE TypeOK'
  BY <1>6 DEF StartCreateActive, StartGoto, StartPcs, UndoPcs, RunningPcs
<1>7. ASSUME NEW t \in Trips, StartRent(t) PROVE TypeOK'
  BY <1>7 DEF StartRent, StartGoto, StartPcs, UndoPcs, RunningPcs
<1>8. ASSUME NEW t \in Trips, StartCommit(t) PROVE TypeOK'
  BY <1>8 DEF StartCommit, StartGoto, StartPcs, UndoPcs, RunningPcs
<1>9. ASSUME NEW t \in Trips, StartCache(t) PROVE TypeOK'
  BY <1>9 DEF StartCache, StartGoto, StartPcs, StartEndPcs
<1>10. ASSUME NEW t \in Trips, UndoUnlock(t) \/ UndoTransaction(t)
       PROVE TypeOK'
  BY <1>10 DEF UndoUnlock, UndoTransaction, UndoVoid, Voided, StartGoto,
               StartPcs, StartEndPcs, UndoPcs
<1>11. ASSUME NEW t \in Trips, UndoLock(t) PROVE TypeOK'
  BY <1>11 DEF UndoLock, StartGoto, StartPcs, StartEndPcs
<1>12. ASSUME NEW t \in Trips, StartDie(t) PROVE TypeOK'
  BY <1>12 DEF StartDie, StartPcs, StartEndPcs
<1>13. ASSUME NEW f \in Finishes, NEW t \in Trips,
              EndRead(f, t) \/ TerminateRead(f, t)
       PROVE TypeOK'
  BY <1>13 DEF EndRead, TerminateRead, FinRead, FinPcs, FinRunning
<1>14. ASSUME NEW f \in Finishes, FinEnd(f) PROVE TypeOK'
  BY <1>14 DEF FinEnd, FinGoto, FinPcs, FinRunning
<1>15. ASSUME NEW f \in Finishes, FinLock(f) PROVE TypeOK'
  BY <1>15 DEF FinLock, FinGoto, FinPcs, FinRunning, Fares
<1>16. ASSUME NEW f \in Finishes, FinConfirm(f) PROVE TypeOK'
  BY <1>16 DEF FinConfirm, FinGoto, FinPcs, FinRunning
<1>17. ASSUME NEW f \in Finishes, FinVoid(f) PROVE TypeOK'
  BY <1>17 DEF FinVoid, Voided, FinGoto, FinPcs, FinRunning
<1>18. ASSUME NEW f \in Finishes, FinCharge(f) PROVE TypeOK'
  BY <1>18 DEF FinCharge, FinGoto, FinPcs, FinRunning
<1>19. ASSUME NEW f \in Finishes, FinSave(f) \/ FinForget(f) \/ FinTrack(f)
       PROVE TypeOK'
  BY <1>19 DEF FinSave, FinForget, FinTrack, FinGoto, FinPcs, FinRunning
<1>20. ASSUME NEW f \in Finishes, FinDrop(f) \/ FinDie(f) PROVE TypeOK'
  BY <1>20 DEF FinDrop, FinDie, FinGoto, FinPcs, FinRunning
<1>21. ASSUME NEW t \in Trips, RedisNext(t) PROVE TypeOK'
  BY <1>21 DEF RedisNext, RewriteRead, RewriteWrite, RewriteDie, CacheExpire
<1> QED
  BY <1>1, <1>2, <1>3, <1>4, <1>5, <1>6, <1>7, <1>8, <1>9, <1>10, <1>11,
     <1>12, <1>13, <1>14, <1>15, <1>16, <1>17, <1>18, <1>19, <1>20, <1>21
     DEF Next, StartNext, FinNext

\* The invariant of a start is kept by every step: another start's deposit,
\* rows and cached trip are its own, and a finish acts on started trips only.
LEMMA StartInvStep ==
  ASSUME IInv, [Next]_vars, NEW u \in Trips
  PROVE  StartInv(u)'
<1> USE DEF IInv, TypeOK, StartInv, PledgedPcs
<1>1. CASE UNCHANGED vars
  BY <1>1
<1>2. ASSUME NEW t \in Trips, NEW s \in Scooters, StartFind(t, s)
      PROVE StartInv(u)'
  BY <1>2, TripProcessAssumption DEF StartFind, StartGoto
<1>3. ASSUME NEW t \in Trips, StartAuthorize(t) PROVE StartInv(u)'
  BY <1>3 DEF StartAuthorize, StartGoto
<1>4. ASSUME NEW t \in Trips, StartUnlock(t) PROVE StartInv(u)'
  BY <1>4 DEF StartUnlock, StartGoto
<1>5. ASSUME NEW t \in Trips, StartCreateTrip(t) PROVE StartInv(u)'
  BY <1>5 DEF StartCreateTrip, StartGoto
<1>6. ASSUME NEW t \in Trips, StartCreateActive(t) PROVE StartInv(u)'
  BY <1>6 DEF StartCreateActive, StartGoto
<1>7. ASSUME NEW t \in Trips, StartRent(t) PROVE StartInv(u)'
  BY <1>7 DEF StartRent, StartGoto
<1>8. ASSUME NEW t \in Trips, StartCommit(t) PROVE StartInv(u)'
  BY <1>8 DEF StartCommit, StartGoto
<1>9. ASSUME NEW t \in Trips, StartCache(t) PROVE StartInv(u)'
  BY <1>9 DEF StartCache, StartGoto
<1>10. ASSUME NEW t \in Trips, UndoUnlock(t) PROVE StartInv(u)'
  BY <1>10 DEF UndoUnlock, UndoVoid, Voided, StartGoto
<1>11. ASSUME NEW t \in Trips, UndoTransaction(t) PROVE StartInv(u)'
  BY <1>11 DEF UndoTransaction, UndoVoid, Voided, StartGoto
<1>12. ASSUME NEW t \in Trips, UndoLock(t) PROVE StartInv(u)'
  BY <1>12 DEF UndoLock, StartGoto
<1>13. ASSUME NEW t \in Trips, StartDie(t) PROVE StartInv(u)'
  BY <1>13 DEF StartDie, RunningPcs, UndoPcs
<1>14. ASSUME NEW f \in Finishes, NEW t \in Trips,
            EndRead(f, t) \/ TerminateRead(f, t)
      PROVE StartInv(u)'
  BY <1>14 DEF EndRead, TerminateRead, FinRead
<1>15. ASSUME NEW f \in Finishes, FinEnd(f) PROVE StartInv(u)'
  BY <1>15 DEF FinEnd, FinGoto, FinInv
<1>16. ASSUME NEW f \in Finishes, FinLock(f) PROVE StartInv(u)'
  BY <1>16 DEF FinLock, FinGoto, FinInv
<1>17. ASSUME NEW f \in Finishes, FinConfirm(f) PROVE StartInv(u)'
  BY <1>17 DEF FinConfirm, FinGoto, FinInv
<1>18. ASSUME NEW f \in Finishes, FinVoid(f) PROVE StartInv(u)'
  BY <1>18 DEF FinVoid, Voided, FinGoto, FinInv
<1>19. ASSUME NEW f \in Finishes, FinCharge(f) PROVE StartInv(u)'
  BY <1>19 DEF FinCharge, FinGoto, FinInv
<1>20. ASSUME NEW f \in Finishes, FinSave(f) PROVE StartInv(u)'
  BY <1>20 DEF FinSave, FinGoto, FinInv
<1>21. ASSUME NEW f \in Finishes, FinForget(f) PROVE StartInv(u)'
  BY <1>21 DEF FinForget, FinGoto, FinInv
<1>22. ASSUME NEW f \in Finishes, FinTrack(f) PROVE StartInv(u)'
  BY <1>22 DEF FinTrack, FinGoto, FinInv
<1>23. ASSUME NEW f \in Finishes, FinDrop(f) PROVE StartInv(u)'
  BY <1>23 DEF FinDrop, FinGoto, FinInv
<1>24. ASSUME NEW f \in Finishes, FinDie(f) PROVE StartInv(u)'
  BY <1>24 DEF FinDie, FinInv
<1>25. ASSUME NEW t \in Trips, RedisNext(t) PROVE StartInv(u)'
  BY <1>25 DEF RedisNext, RewriteRead, RewriteWrite, RewriteDie,
                 CacheExpire
<1> QED
  BY <1>1, <1>2, <1>3, <1>4, <1>5, <1>6, <1>7, <1>8, <1>9, <1>10, <1>11,
     <1>12, <1>13, <1>14, <1>15, <1>16, <1>17, <1>18, <1>19, <1>20, <1>21,
     <1>22, <1>23, <1>24, <1>25
     DEF Next, StartNext, FinNext

\* The invariant of a finish is kept by every step: what another finish does to
\* the same trip leaves it over, and a resolved deposit stays as it is.
LEMMA FinInvStep ==
  ASSUME IInv, [Next]_vars, NEW g \in Finishes
  PROVE  FinInv(g)'
<1> USE DEF IInv, TypeOK, FinInv, SettledPcs, DepositResolved
<1>1. CASE UNCHANGED vars
  BY <1>1
<1>2. ASSUME NEW t \in Trips, NEW s \in Scooters, StartFind(t, s)
      PROVE FinInv(g)'
  BY <1>2 DEF StartFind, StartGoto, StartInv
<1>3. ASSUME NEW t \in Trips, StartAuthorize(t) PROVE FinInv(g)'
  BY <1>3 DEF StartAuthorize, StartGoto, StartInv
<1>4. ASSUME NEW t \in Trips, StartUnlock(t) PROVE FinInv(g)'
  BY <1>4 DEF StartUnlock, StartGoto, StartInv
<1>5. ASSUME NEW t \in Trips, StartCreateTrip(t) PROVE FinInv(g)'
  BY <1>5 DEF StartCreateTrip, StartGoto, StartInv
<1>6. ASSUME NEW t \in Trips, StartCreateActive(t) PROVE FinInv(g)'
  BY <1>6 DEF StartCreateActive, StartGoto, StartInv
<1>7. ASSUME NEW t \in Trips, StartRent(t) PROVE FinInv(g)'
  BY <1>7 DEF StartRent, StartGoto, StartInv
<1>8. ASSUME NEW t \in Trips, StartCommit(t) PROVE FinInv(g)'
  BY <1>8 DEF StartCommit, StartGoto, StartInv
<1>9. ASSUME NEW t \in Trips, StartCache(t) PROVE FinInv(g)'
  BY <1>9 DEF StartCache, StartGoto, StartInv
<1>10. ASSUME NEW t \in Trips, UndoUnlock(t) PROVE FinInv(g)'
  BY <1>10 DEF UndoUnlock, UndoVoid, Voided, StartGoto, StartInv
<1>11. ASSUME NEW t \in Trips, UndoTransaction(t) PROVE FinInv(g)'
  BY <1>11 DEF UndoTransaction, UndoVoid, Voided, StartGoto, StartInv
<1>12. ASSUME NEW t \in Trips, UndoLock(t) PROVE FinInv(g)'
  BY <1>12 DEF UndoLock, StartGoto, StartInv
<1>13. ASSUME NEW t \in Trips, StartDie(t) PROVE FinInv(g)'
  BY <1>13 DEF StartDie, RunningPcs, UndoPcs, StartInv
<1>14. ASSUME NEW f \in Finishes, NEW t \in Trips,
            EndRead(f, t) \/ TerminateRead(f, t)
      PROVE FinInv(g)'
  BY <1>14 DEF EndRead, TerminateRead, FinRead, StartInv
<1>15. ASSUME NEW f \in Finishes, FinEnd(f) PROVE FinInv(g)'
  BY <1>15 DEF FinEnd, FinGoto
<1>16. ASSUME NEW f \in Finishes, FinLock(f) PROVE FinInv(g)'
  BY <1>16 DEF FinLock, FinGoto
<1>17. ASSUME NEW f \in Finishes, FinConfirm(f) PROVE FinInv(g)'
  BY <1>17 DEF FinConfirm, FinGoto
<1>18. ASSUME NEW f \in Finishes, FinVoid(f) PROVE FinInv(g)'
  BY <1>18 DEF FinVoid, Voided, FinGoto
<1>19. ASSUME NEW f \in Finishes, FinCharge(f) PROVE FinInv(g)'
  BY <1>19 DEF FinCharge, FinGoto
<1>20. ASSUME NEW f \in Finishes, FinSave(f) PROVE FinInv(g)'
  BY <1>20 DEF FinSave, FinGoto
<1>21. ASSUME NEW f \in Finishes, FinForget(f) PROVE FinInv(g)'
  BY <1>21 DEF FinForget, FinGoto
<1>22. ASSUME NEW f \in Finishes, FinTrack(f) PROVE FinInv(g)'
  BY <1>22 DEF FinTrack, FinGoto
<1>23. ASSUME NEW f \in Finishes, FinDrop(f) PROVE FinInv(g)'
  BY <1>23 DEF FinDrop, FinGoto
<1>24. ASSUME NEW f \in Finishes, FinDie(f) PROVE FinInv(g)'
  BY <1>24 DEF FinDie, FinRunning
<1>25. ASSUME NEW t \in Trips, RedisNext(t) PROVE FinInv(g)'
  BY <1>25 DEF RedisNext, RewriteRead, RewriteWrite, RewriteDie,
                 CacheExpire
<1> QED
  BY <1>1, <1>2, <1>3, <1>4, <1>5, <1>6, <1>7, <1>8, <1>9, <1>10, <1>11,
     <1>12, <1>13, <1>14, <1>15, <1>16, <1>17, <1>18, <1>19, <1>20, <1>21,
     <1>22, <1>23, <1>24, <1>25
     DEF Next, StartNext, FinNext

\* A rented scooter keeps an open trip: the flag is raised by a start whose trip
\* row is open, and the end of a trip lowers the flag of that trip's scooter.
LEMMA RentedStep ==
  ASSUME IInv, [Next]_vars
  PROVE  RentedHasOpenTrip'
<1> USE DEF IInv, TypeOK, RentedHasOpenTrip
<1>1. CASE UNCHANGED vars
  BY <1>1
<1>2. ASSUME NEW t \in Trips, NEW s \in Scooters, StartFind(t, s)
      PROVE RentedHasOpenTrip'
  BY <1>2 DEF StartFind, StartGoto, StartInv
<1>3. ASSUME NEW t \in Trips, StartAuthorize(t) PROVE RentedHasOpenTrip'
  BY <1>3 DEF StartAuthorize, StartGoto, StartInv
<1>4. ASSUME NEW t \in Trips, StartUnlock(t) PROVE RentedHasOpenTrip'
  BY <1>4 DEF StartUnlock, StartGoto, StartInv
<1>5. ASSUME NEW t \in Trips, StartCreateTrip(t) PROVE RentedHasOpenTrip'
  BY <1>5 DEF StartCreateTrip, StartGoto, StartInv
<1>6. ASSUME NEW t \in Trips, StartCreateActive(t) PROVE RentedHasOpenTrip'
  BY <1>6 DEF StartCreateActive, StartGoto, StartInv
<1>7. ASSUME NEW t \in Trips, StartRent(t) PROVE RentedHasOpenTrip'
  BY <1>7 DEF StartRent, StartGoto, StartInv
<1>8. ASSUME NEW t \in Trips, StartCommit(t) PROVE RentedHasOpenTrip'
  BY <1>8 DEF StartCommit, StartGoto, StartInv
<1>9. ASSUME NEW t \in Trips, StartCache(t) PROVE RentedHasOpenTrip'
  BY <1>9 DEF StartCache, StartGoto, StartInv
<1>10. ASSUME NEW t \in Trips, UndoUnlock(t) PROVE RentedHasOpenTrip'
  BY <1>10 DEF UndoUnlock, UndoVoid, Voided, StartGoto, StartInv
<1>11. ASSUME NEW t \in Trips, UndoTransaction(t) PROVE RentedHasOpenTrip'
  BY <1>11 DEF UndoTransaction, UndoVoid, Voided, StartGoto, StartInv
<1>12. ASSUME NEW t \in Trips, UndoLock(t) PROVE RentedHasOpenTrip'
  BY <1>12 DEF UndoLock, StartGoto, StartInv
<1>13. ASSUME NEW t \in Trips, StartDie(t) PROVE RentedHasOpenTrip'
  BY <1>13 DEF StartDie, StartInv
<1>14. ASSUME NEW f \in Finishes, NEW t \in Trips,
            EndRead(f, t) \/ TerminateRead(f, t)
      PROVE RentedHasOpenTrip'
  BY <1>14 DEF EndRead, TerminateRead, FinRead
<1>15. ASSUME NEW f \in Finishes, FinEnd(f) PROVE RentedHasOpenTrip'
  BY <1>15 DEF FinEnd, FinGoto, FinInv
<1>16. ASSUME NEW f \in Finishes, FinLock(f) PROVE RentedHasOpenTrip'
  BY <1>16 DEF FinLock, FinGoto
<1>17. ASSUME NEW f \in Finishes, FinConfirm(f) PROVE RentedHasOpenTrip'
  BY <1>17 DEF FinConfirm, FinGoto
<1>18. ASSUME NEW f \in Finishes, FinVoid(f) PROVE RentedHasOpenTrip'
  BY <1>18 DEF FinVoid, Voided, FinGoto
<1>19. ASSUME NEW f \in Finishes, FinCharge(f) PROVE RentedHasOpenTrip'
  BY <1>19 DEF FinCharge, FinGoto
<1>20. ASSUME NEW f \in Finishes, FinSave(f) PROVE RentedHasOpenTrip'
  BY <1>20 DEF FinSave, FinGoto
<1>21. ASSUME NEW f \in Finishes, FinForget(f) PROVE RentedHasOpenTrip'
  BY <1>21 DEF FinForget, FinGoto
<1>22. ASSUME NEW f \in Finishes, FinTrack(f) PROVE RentedHasOpenTrip'
  BY <1>22 DEF FinTrack, FinGoto
<1>23. ASSUME NEW f \in Finishes, FinDrop(f) PROVE RentedHasOpenTrip'
  BY <1>23 DEF FinDrop, FinGoto
<1>24. ASSUME NEW f \in Finishes, FinDie(f) PROVE RentedHasOpenTrip'
  BY <1>24 DEF FinDie
<1>25. ASSUME NEW t \in Trips, RedisNext(t) PROVE RentedHasOpenTrip'
  BY <1>25 DEF RedisNext, RewriteRead, RewriteWrite, RewriteDie,
                 CacheExpire
<1> QED
  BY <1>1, <1>2, <1>3, <1>4, <1>5, <1>6, <1>7, <1>8, <1>9, <1>10, <1>11,
     <1>12, <1>13, <1>14, <1>15, <1>16, <1>17, <1>18, <1>19, <1>20, <1>21,
     <1>22, <1>23, <1>24, <1>25
     DEF Next, StartNext, FinNext

\* The ActiveTrip row of a started trip goes only with a stored payment.
LEMMA ActiveRowStep ==
  ASSUME IInv, [Next]_vars
  PROVE  ActiveRowUntilPaid'
<1> USE DEF IInv, TypeOK, ActiveRowUntilPaid
<1>1. CASE UNCHANGED vars
  BY <1>1
<1>2. ASSUME NEW t \in Trips, NEW s \in Scooters, StartFind(t, s)
      PROVE ActiveRowUntilPaid'
  BY <1>2 DEF StartFind, StartGoto
<1>3. ASSUME NEW t \in Trips, StartAuthorize(t) PROVE ActiveRowUntilPaid'
  BY <1>3 DEF StartAuthorize, StartGoto, StartInv
<1>4. ASSUME NEW t \in Trips, StartUnlock(t) PROVE ActiveRowUntilPaid'
  BY <1>4 DEF StartUnlock, StartGoto, StartInv
<1>5. ASSUME NEW t \in Trips, StartCreateTrip(t) PROVE ActiveRowUntilPaid'
  BY <1>5 DEF StartCreateTrip, StartGoto, StartInv
<1>6. ASSUME NEW t \in Trips, StartCreateActive(t) PROVE ActiveRowUntilPaid'
  BY <1>6 DEF StartCreateActive, StartGoto, StartInv
<1>7. ASSUME NEW t \in Trips, StartRent(t) PROVE ActiveRowUntilPaid'
  BY <1>7 DEF StartRent, StartGoto, StartInv
<1>8. ASSUME NEW t \in Trips, StartCommit(t) PROVE ActiveRowUntilPaid'
  BY <1>8 DEF StartCommit, StartGoto, StartInv
<1>9. ASSUME NEW t \in Trips, StartCache(t) PROVE ActiveRowUntilPaid'
  BY <1>9 DEF StartCache, StartGoto, StartInv
<1>10. ASSUME NEW t \in Trips, UndoUnlock(t) PROVE ActiveRowUntilPaid'
  BY <1>10 DEF UndoUnlock, UndoVoid, Voided, StartGoto, StartInv
<1>11. ASSUME NEW t \in Trips, UndoTransaction(t) PROVE ActiveRowUntilPaid'
  BY <1>11 DEF UndoTransaction, UndoVoid, Voided, StartGoto, StartInv
<1>12. ASSUME NEW t \in Trips, UndoLock(t) PROVE ActiveRowUntilPaid'
  BY <1>12 DEF UndoLock, StartGoto, StartInv
<1>13. ASSUME NEW t \in Trips, StartDie(t) PROVE ActiveRowUntilPaid'
  BY <1>13 DEF StartDie, RunningPcs, UndoPcs
<1>14. ASSUME NEW f \in Finishes, NEW t \in Trips,
            EndRead(f, t) \/ TerminateRead(f, t)
      PROVE ActiveRowUntilPaid'
  BY <1>14 DEF EndRead, TerminateRead, FinRead, FinInv
<1>15. ASSUME NEW f \in Finishes, FinEnd(f) PROVE ActiveRowUntilPaid'
  BY <1>15 DEF FinEnd, FinGoto, FinInv
<1>16. ASSUME NEW f \in Finishes, FinLock(f) PROVE ActiveRowUntilPaid'
  BY <1>16 DEF FinLock, FinGoto, FinInv
<1>17. ASSUME NEW f \in Finishes, FinConfirm(f) PROVE ActiveRowUntilPaid'
  BY <1>17 DEF FinConfirm, FinGoto, FinInv
<1>18. ASSUME NEW f \in Finishes, FinVoid(f) PROVE ActiveRowUntilPaid'
  BY <1>18 DEF FinVoid, Voided, FinGoto, FinInv
<1>19. ASSUME NEW f \in Finishes, FinCharge(f) PROVE ActiveRowUntilPaid'
  BY <1>19 DEF FinCharge, FinGoto, FinInv
<1>20. ASSUME NEW f \in Finishes, FinSave(f) PROVE ActiveRowUntilPaid'
  BY <1>20 DEF FinSave, FinGoto, FinInv
<1>21. ASSUME NEW f \in Finishes, FinForget(f) PROVE ActiveRowUntilPaid'
  BY <1>21 DEF FinForget, FinGoto, FinInv
<1>22. ASSUME NEW f \in Finishes, FinTrack(f) PROVE ActiveRowUntilPaid'
  BY <1>22 DEF FinTrack, FinGoto, FinInv
<1>23. ASSUME NEW f \in Finishes, FinDrop(f) PROVE ActiveRowUntilPaid'
  BY <1>23 DEF FinDrop, FinGoto, FinInv
<1>24. ASSUME NEW f \in Finishes, FinDie(f) PROVE ActiveRowUntilPaid'
  BY <1>24 DEF FinDie, FinInv
<1>25. ASSUME NEW t \in Trips, RedisNext(t) PROVE ActiveRowUntilPaid'
  BY <1>25 DEF RedisNext, RewriteRead, RewriteWrite, RewriteDie,
                 CacheExpire
<1> QED
  BY <1>1, <1>2, <1>3, <1>4, <1>5, <1>6, <1>7, <1>8, <1>9, <1>10, <1>11,
     <1>12, <1>13, <1>14, <1>15, <1>16, <1>17, <1>18, <1>19, <1>20, <1>21,
     <1>22, <1>23, <1>24, <1>25
     DEF Next, StartNext, FinNext

(***************************************************************************)
(* The theorems.                                                           *)
(***************************************************************************)
LEMMA InitIInv == Init => IInv
  BY TripProcessAssumption
     DEF Init, IInv, TypeOK, StartInv, FinInv, RentedHasOpenTrip,
         ActiveRowUntilPaid, PledgedPcs, SettledPcs, StartPcs, StartEndPcs,
         FinPcs, Fares

LEMMA IInvStep == IInv /\ [Next]_vars => IInv'
<1> SUFFICES ASSUME IInv, [Next]_vars PROVE IInv'
  OBVIOUS
<1>1. TypeOK'
  BY TypeStep DEF IInv
<1>2. \A t \in Trips : StartInv(t)'
  BY StartInvStep
<1>3. \A f \in Finishes : FinInv(f)'
  BY FinInvStep
<1>4. RentedHasOpenTrip' /\ ActiveRowUntilPaid'
  BY RentedStep, ActiveRowStep
<1> QED
  BY <1>1, <1>2, <1>3, <1>4 DEF IInv

THEOREM Inductive == Spec => []IInv
  BY InitIInv, IInvStep, PTL DEF Spec

\* Every variable keeps its type, for any number of scooters, trips and
\* finishes.
THEOREM TypeCorrect == Spec => []TypeOK
  BY Inductive, PTL DEF IInv

\* A scooter whose row says rented has an open trip, so some call of the API
\* can still free it.
THEOREM RentedIsBacked == Spec => []RentedHasOpenTrip
  BY Inductive, PTL DEF IInv

\* No handler releases or captures the deposit of a ride that goes on.
THEOREM RideIsPledged == Spec => []RideHoldsDeposit
<1>1. IInv => RideHoldsDeposit
  BY DEF IInv, StartInv, PledgedPcs, RideHoldsDeposit, RunningPcs
<1> QED
  BY <1>1, Inductive, PTL

\* A Payment row stands for a trip that is over and for money that moved.
THEOREM PaymentIsBacked == Spec => []PaymentBacked
<1>1. IInv => PaymentBacked
  BY DEF IInv, TypeOK, FinInv, DepositResolved, PaymentBacked
<1> QED
  BY <1>1, Inductive, PTL

\* The CRM keeps the ActiveTrip row of every started trip that is not paid.
THEOREM UnpaidStaysListed == Spec => []ActiveRowUntilPaid
  BY Inductive, PTL DEF IInv

\* A start rolled back to the end left no deposit on hold.
THEOREM RollbackIsComplete == Spec => []RollbackReleasesDeposit
<1>1. IInv => RollbackReleasesDeposit
  BY DEF IInv, StartInv, RollbackReleasesDeposit
<1> QED
  BY <1>1, Inductive, PTL

(***************************************************************************)
(* TripProcess implements TripLifecycle.                                   *)
(***************************************************************************)
LifecycleStep == Lifecycle!Next \/ UNCHANGED Lifecycle!vars

LEMMA InitLifecycle == Init => Lifecycle!Init
  BY DEF Init, Lifecycle!Init, Phases, Phase, Listed

\* A step that leaves the starts' and finishes' progress, the trip rows, the
\* ActiveTrip rows and the payments alone is none of the lifecycle's business.
LEMMA Unseen ==
  ASSUME UNCHANGED <<startPc, finTrip, tripRow, activeRow, hold, paid>>
  PROVE  LifecycleStep
  BY DEF LifecycleStep, Lifecycle!vars, Phases, Phase, Listed

\* A start that does not become a started trip moves nothing but the deposit.
LEMMA StartUnseen ==
  ASSUME TypeOK, NEW t \in Trips,
         startPc[t] # "started", NEW to,  to # "started",
         startPc' = [startPc EXCEPT ![t] = to],
         UNCHANGED <<finTrip, paid>>,
         \A u \in Trips : u # t => tripRow'[u] = tripRow[u],
         activeRow' \ {t} = activeRow \ {t}
  PROVE  UNCHANGED <<Phases, Listed>>
<1>1. \A u \in Trips : startPc'[u] = IF u = t THEN to ELSE startPc[u]
  BY DEF TypeOK
<1>2. \A u \in Trips : Phase(u)' = Phase(u)
  BY <1>1 DEF Phase
<1>3. Listed' = Listed
  BY <1>1 DEF Listed, TypeOK
<1> QED
  BY <1>2, <1>3 DEF Phases

\* The same step with the deposit: it is pledged, given back or left alone.
LEMMA StartStep ==
  ASSUME IInv, NEW t \in Trips, UNCHANGED <<Phases, Listed>>,
         startPc[t] # "started",
         \/ UNCHANGED hold
         \/ hold[t] = "none" /\ hold' = [hold EXCEPT ![t] = "authorized"]
         \/ hold[t] = "authorized" /\ hold' = [hold EXCEPT ![t] = "voided"]
  PROVE  LifecycleStep
<1>1. Phases[t] = "asked"
  BY DEF Phases, Phase
<1>2. CASE UNCHANGED hold
  BY <1>2 DEF LifecycleStep, Lifecycle!vars
<1>3. CASE hold[t] = "none" /\ hold' = [hold EXCEPT ![t] = "authorized"]
  <2>1. Lifecycle!Pledge(t)
    BY <1>1, <1>3 DEF Lifecycle!Pledge, Lifecycle!MovePledge
  <2> QED
    BY <2>1 DEF LifecycleStep, Lifecycle!Next
<1>4. CASE hold[t] = "authorized" /\ hold' = [hold EXCEPT ![t] = "voided"]
  <2>1. Lifecycle!GiveUp(t)
    BY <1>1, <1>4 DEF Lifecycle!GiveUp, Lifecycle!MovePledge
  <2> QED
    BY <2>1 DEF LifecycleStep, Lifecycle!Next
<1> QED
  BY <1>2, <1>3, <1>4

\* A finish that touches the deposit works on a trip that is over.
LEMMA ResolveStep ==
  ASSUME IInv, NEW f \in Finishes, finPc[f] \in {"confirm", "void"},
         UNCHANGED <<startPc, finTrip, tripRow, activeRow, paid>>,
         NEW to \in {"voided", "captured"},
         hold[finTrip[f]] = "authorized",
         hold' = [hold EXCEPT ![finTrip[f]] = to]
  PROVE  LifecycleStep
<1> DEFINE t == finTrip[f]
<1>1. t \in Trips /\ startPc[t] = "started" /\ tripRow[t] = "ended"
  BY DEF IInv, FinInv
<1>2. Phases[t] \in {"over", "settled"}
  BY <1>1 DEF Phases, Phase
<1>3. UNCHANGED <<Phases, Listed>>
  BY DEF Phases, Phase, Listed
<1>4. Lifecycle!Resolve(t)
  BY <1>2, <1>3 DEF Lifecycle!Resolve, Lifecycle!MovePledge
<1> QED
  BY <1>1, <1>4 DEF LifecycleStep, Lifecycle!Next

\* The start that caches its trip begins the ride.
LEMMA RideStep ==
  ASSUME IInv, NEW t \in Trips, StartCache(t)
  PROVE  LifecycleStep
<1>1. startPc[t] = "committed" /\ startPc' = [startPc EXCEPT ![t] = "started"]
      /\ UNCHANGED <<finTrip, paid, tripRow, activeRow, hold>>
  BY DEF StartCache, StartGoto
<1>2. hold[t] = "authorized" /\ tripRow[t] = "open" /\ t \in activeRow
  BY <1>1 DEF IInv, StartInv, PledgedPcs
<1>3. \A f \in paid : finTrip[f] # t
  BY <1>1 DEF IInv, TypeOK, FinInv
<1>4. \A u \in Trips : startPc'[u] = IF u = t THEN "started" ELSE startPc[u]
  BY <1>1 DEF IInv, TypeOK
<1>5. Phases[t] = "asked"
  BY <1>1 DEF Phases, Phase
<1>6. \A u \in Trips : Phase(u)' = IF u = t THEN "riding" ELSE Phase(u)
  BY <1>1, <1>2, <1>3, <1>4 DEF Phase
<1>7. Phases' = [Phases EXCEPT ![t] = "riding"]
  BY <1>6 DEF Phases
<1>8. Listed' = Listed \cup {t}
  BY <1>1, <1>2, <1>4 DEF Listed, IInv, TypeOK
<1>9. Lifecycle!Ride(t)
  BY <1>1, <1>2, <1>5, <1>7, <1>8 DEF Lifecycle!Ride, Lifecycle!Advance
<1> QED
  BY <1>9 DEF LifecycleStep, Lifecycle!Next

\* The first finish to set endTime ends the ride; a later one changes nothing.
LEMMA EndStep ==
  ASSUME IInv, NEW f \in Finishes, FinEnd(f)
  PROVE  LifecycleStep
<1> DEFINE t == finTrip[f]
<1>1. tripRow' = [tripRow EXCEPT ![t] = "ended"] /\ finPc[f] = "read"
      /\ UNCHANGED <<startPc, finTrip, paid, activeRow, hold>>
  BY DEF FinEnd, FinGoto
<1>2. t \in Trips /\ startPc[t] = "started"
  BY <1>1 DEF IInv, FinInv
<1>3. UNCHANGED Listed
  BY <1>1 DEF Listed
<1>4. CASE Phases[t] = "riding"
  <2>1. \A u \in Trips : Phase(u)' = IF u = t THEN "over" ELSE Phase(u)
    BY <1>1, <1>2, <1>4 DEF Phases, Phase, IInv, TypeOK
  <2>2. Phases' = [Phases EXCEPT ![t] = "over"]
    BY <2>1 DEF Phases
  <2>3. Lifecycle!End(t)
    BY <1>1, <1>3, <1>4, <2>2 DEF Lifecycle!End, Lifecycle!Advance
  <2> QED
    BY <1>2, <2>3 DEF LifecycleStep, Lifecycle!Next
<1>5. CASE Phases[t] # "riding"
  <2>1. \A u \in Trips : Phase(u)' = Phase(u)
    BY <1>1, <1>2, <1>5 DEF Phases, Phase, IInv, TypeOK
  <2>2. UNCHANGED <<Phases, hold, Listed>>
    BY <1>1, <1>3, <2>1 DEF Phases
  <2> QED
    BY <2>2 DEF LifecycleStep, Lifecycle!vars
<1> QED
  BY <1>4, <1>5

\* The first finish to store a Payment row settles the trip.
LEMMA SettleStep ==
  ASSUME IInv, NEW f \in Finishes, FinSave(f)
  PROVE  LifecycleStep
<1> DEFINE t == finTrip[f]
<1>1. paid' = paid \cup {f} /\ finPc[f] = "save"
      /\ UNCHANGED <<startPc, finTrip, tripRow, activeRow, hold>>
  BY DEF FinSave, FinGoto
<1>2. t \in Trips /\ startPc[t] = "started" /\ tripRow[t] = "ended"
  BY <1>1 DEF IInv, FinInv
<1>3. UNCHANGED Listed
  BY <1>1 DEF Listed
<1>4. \A u \in Trips : Phase(u)' = IF u = t THEN "settled" ELSE Phase(u)
  BY <1>1, <1>2 DEF Phase
<1>5. CASE Phases[t] = "over"
  <2>1. Phases' = [Phases EXCEPT ![t] = "settled"]
    BY <1>4 DEF Phases
  <2>2. Lifecycle!Settle(t)
    BY <1>1, <1>3, <1>5, <2>1 DEF Lifecycle!Settle, Lifecycle!Advance
  <2> QED
    BY <1>2, <2>2 DEF LifecycleStep, Lifecycle!Next
<1>6. CASE Phases[t] # "over"
  <2>1. Phase(t) = "settled"
    BY <1>2, <1>6 DEF Phases, Phase
  <2>2. UNCHANGED <<Phases, hold, Listed>>
    BY <1>1, <1>3, <1>4, <2>1 DEF Phases
  <2> QED
    BY <2>2 DEF LifecycleStep, Lifecycle!vars
<1> QED
  BY <1>5, <1>6

\* The ActiveTrip row that goes is the one of a settled trip.
LEMMA UnlistStep ==
  ASSUME IInv, NEW f \in Finishes, FinDrop(f)
  PROVE  LifecycleStep
<1> DEFINE t == finTrip[f]
<1>1. activeRow' \in {activeRow, activeRow \ {t}} /\ finPc[f] = "drop"
      /\ UNCHANGED <<startPc, finTrip, tripRow, paid, hold>>
  BY DEF FinDrop, FinGoto
<1>2. t \in Trips /\ startPc[t] = "started" /\ f \in paid
  BY <1>1 DEF IInv, FinInv
<1>3. UNCHANGED Phases
  BY <1>1 DEF Phases, Phase
<1>4. CASE activeRow' = activeRow
  BY <1>1, <1>4, Unseen
<1>5. CASE activeRow' = activeRow \ {t}
  <2>1. Listed' = Listed \ {t}
    BY <1>1, <1>5 DEF Listed
  <2>2. Phases[t] = "settled"
    BY <1>2 DEF Phases, Phase
  <2>3. Lifecycle!Unlist(t)
    BY <1>1, <1>3, <2>1, <2>2 DEF Lifecycle!Unlist
  <2> QED
    BY <1>2, <2>3 DEF LifecycleStep, Lifecycle!Next
<1> QED
  BY <1>1, <1>4, <1>5

\* Every step of a start is a step of the lifecycle or none.
LEMMA StartImplements ==
  ASSUME IInv, NEW t \in Trips, StartNext(t)
  PROVE  LifecycleStep
<1> USE DEF StartGoto
<1>1. ASSUME NEW s \in Scooters, StartFind(t, s) PROVE LifecycleStep
  <2>1. UNCHANGED <<Phases, Listed>> /\ startPc[t] # "started"
    BY <1>1, StartUnseen DEF StartFind, IInv
  <2> QED
    BY <1>1, <2>1, StartStep DEF StartFind
<1>2. CASE StartAuthorize(t)
  <2>1. UNCHANGED <<Phases, Listed>> /\ startPc[t] # "started"
    BY <1>2, StartUnseen DEF StartAuthorize, IInv
  <2> QED
    BY <1>2, <2>1, StartStep DEF StartAuthorize, IInv, StartInv
<1>3. CASE StartUnlock(t)
  <2>1. UNCHANGED <<Phases, Listed>> /\ startPc[t] # "started"
    BY <1>3, StartUnseen DEF StartUnlock, IInv
  <2> QED
    BY <1>3, <2>1, StartStep DEF StartUnlock
<1>4. CASE StartCreateTrip(t)
  <2>1. UNCHANGED <<Phases, Listed>> /\ startPc[t] # "started"
    BY <1>4, StartUnseen DEF StartCreateTrip, IInv, TypeOK
  <2> QED
    BY <1>4, <2>1, StartStep DEF StartCreateTrip
<1>5. CASE StartCreateActive(t)
  <2>1. UNCHANGED <<Phases, Listed>> /\ startPc[t] # "started"
    BY <1>5, StartUnseen DEF StartCreateActive, IInv
  <2> QED
    BY <1>5, <2>1, StartStep DEF StartCreateActive
<1>6. CASE StartRent(t)
  <2>1. UNCHANGED <<Phases, Listed>> /\ startPc[t] # "started"
    BY <1>6, StartUnseen DEF StartRent, IInv
  <2> QED
    BY <1>6, <2>1, StartStep DEF StartRent
<1>7. CASE StartCommit(t)
  <2>1. UNCHANGED <<Phases, Listed>> /\ startPc[t] # "started"
    BY <1>7, StartUnseen DEF StartCommit, IInv
  <2> QED
    BY <1>7, <2>1, StartStep DEF StartCommit
<1>8. CASE UndoUnlock(t)
  <2>1. UNCHANGED <<Phases, Listed>> /\ startPc[t] # "started"
    BY <1>8, StartUnseen DEF UndoUnlock, UndoVoid, Voided, IInv
  <2> QED
    BY <1>8, <2>1, StartStep DEF UndoUnlock, UndoVoid, Voided
<1>9. CASE UndoTransaction(t)
  <2>1. UNCHANGED <<Phases, Listed>> /\ startPc[t] # "started"
    BY <1>9, StartUnseen DEF UndoTransaction, UndoVoid, Voided, IInv
  <2> QED
    BY <1>9, <2>1, StartStep DEF UndoTransaction, UndoVoid, Voided
<1>10. CASE UndoLock(t)
  <2>1. UNCHANGED <<Phases, Listed>> /\ startPc[t] # "started"
    BY <1>10, StartUnseen DEF UndoLock, IInv
  <2> QED
    BY <1>10, <2>1, StartStep DEF UndoLock
<1>11. CASE StartDie(t)
  <2>1. UNCHANGED <<Phases, Listed>> /\ startPc[t] # "started"
    BY <1>11, StartUnseen DEF StartDie, RunningPcs, UndoPcs, IInv
  <2> QED
    BY <1>11, <2>1, StartStep DEF StartDie, RunningPcs, UndoPcs
<1>12. CASE StartCache(t)
  BY <1>12, RideStep
<1> QED
  BY <1>1, <1>2, <1>3, <1>4, <1>5, <1>6, <1>7, <1>8, <1>9, <1>10, <1>11,
     <1>12 DEF StartNext

\* Every step of a finish is a step of the lifecycle or none.
LEMMA FinImplements ==
  ASSUME IInv, NEW f \in Finishes, FinNext(f)
  PROVE  LifecycleStep
<1> USE DEF FinGoto
<1>1. ASSUME NEW t \in Trips, EndRead(f, t) \/ TerminateRead(f, t)
      PROVE LifecycleStep
  <2>1. finPc[f] = "idle" /\ finTrip' = [finTrip EXCEPT ![f] = t]
        /\ UNCHANGED <<startPc, tripRow, activeRow, hold, paid>>
    BY <1>1 DEF EndRead, TerminateRead, FinRead
  <2>2. f \notin paid
    BY <2>1 DEF IInv, FinInv
  <2>3. \A g \in paid : finTrip'[g] = finTrip[g]
    BY <2>1, <2>2 DEF IInv, TypeOK
  <2>4. UNCHANGED <<Phases, hold, Listed>>
    BY <2>1, <2>3 DEF Phases, Phase, Listed
  <2> QED
    BY <2>4 DEF LifecycleStep, Lifecycle!vars
<1>2. CASE FinEnd(f)
  BY <1>2, EndStep
<1>3. CASE FinConfirm(f)
  <2>1. CASE UNCHANGED hold
    BY <1>3, <2>1, Unseen DEF FinConfirm
  <2>2. CASE hold[finTrip[f]] = "authorized"
             /\ hold' = [hold EXCEPT ![finTrip[f]] = "captured"]
    BY <1>3, <2>2, ResolveStep DEF FinConfirm
  <2> QED
    BY <1>3, <2>1, <2>2 DEF FinConfirm
<1>4. CASE FinVoid(f)
  <2>1. CASE UNCHANGED hold
    BY <1>4, <2>1, Unseen DEF FinVoid
  <2>2. CASE Voided(finTrip[f])
    BY <1>4, <2>2, ResolveStep DEF FinVoid, Voided
  <2> QED
    BY <1>4, <2>1, <2>2 DEF FinVoid
<1>5. CASE FinSave(f)
  BY <1>5, SettleStep
<1>6. CASE FinDrop(f)
  BY <1>6, UnlistStep
<1>7. CASE FinLock(f) \/ FinCharge(f) \/ FinForget(f) \/ FinTrack(f) \/ FinDie(f)
  BY <1>7, Unseen DEF FinLock, FinCharge, FinForget, FinTrack, FinDie
<1> QED
  BY <1>1, <1>2, <1>3, <1>4, <1>5, <1>6, <1>7 DEF FinNext

LEMMA StepImplements ==
  ASSUME IInv, [Next]_vars
  PROVE  LifecycleStep
<1>1. CASE UNCHANGED vars
  BY <1>1, Unseen
<1>2. ASSUME NEW t \in Trips, RedisNext(t) PROVE LifecycleStep
  BY <1>2, Unseen
     DEF RedisNext, RewriteRead, RewriteWrite, RewriteDie, CacheExpire
<1> QED
  BY <1>1, <1>2, StartImplements, FinImplements DEF Next

\* The handlers, however they overlap, fail or are repeated, take every trip
\* and its deposit through the lifecycle of TripLifecycle and nowhere else.
THEOREM ImplementsLifecycle == Spec => KeepsLifecycle
<1>1. IInv /\ [Next]_vars => [Lifecycle!Next]_(Lifecycle!vars)
  BY StepImplements DEF LifecycleStep
<1> QED
  BY <1>1, InitLifecycle, Inductive, PTL DEF Spec, KeepsLifecycle, Lifecycle!Spec

(***************************************************************************)
(* TripProcess keeps to CachedTrip.                                        *)
(***************************************************************************)
RecordStep == Record!Next \/ UNCHANGED Record!vars

Started == {t \in Trips : startPc[t] = "started"}

\* A start either goes on towards its end, or stores the entry of its trip.
LEMMA StartKeepsRecord ==
  ASSUME TypeOK, NEW t \in Trips, StartNext(t)
  PROVE  RecordStep
<1>1. CASE StartCache(t)
  <2>1. /\ startPc[t] = "committed" /\ startPc' = [startPc EXCEPT ![t] = "started"]
        /\ cache' = cache \cup {t} /\ rewriting' = rewriting
    BY <1>1 DEF StartCache, StartGoto
  <2>2. t \notin Started /\ Started' = Started \cup {t}
    BY <2>1 DEF Started, TypeOK
  <2>3. Record!Store(t)
    BY <2>1, <2>2 DEF Record!Store, Started
  <2> QED
    BY <2>3 DEF RecordStep, Record!Next
<1>2. CASE ~StartCache(t)
  <2>1. PICK to : /\ startPc[t] # "started" /\ to # "started"
                  /\ startPc' = [startPc EXCEPT ![t] = to]
                  /\ UNCHANGED redisVars
    BY <1>2 DEF StartNext, StartFind, StartAuthorize, StartUnlock, StartCreateTrip,
       StartCreateActive, StartRent, StartCommit, UndoVoid, UndoUnlock, UndoTransaction,
       UndoLock, StartDie, StartGoto, RunningPcs, UndoPcs
  <2>2. Started' = Started
    BY <2>1 DEF Started, TypeOK
  <2> QED
    BY <2>1, <2>2 DEF RecordStep, Record!vars, Started
<1> QED
  BY <1>1, <1>2

\* A finish only loses the entry.
LEMMA FinKeepsRecord ==
  ASSUME IInv, NEW f \in Finishes, FinNext(f)
  PROVE  RecordStep
<1>1. UNCHANGED <<startPc, rewriting>>
  BY DEF FinNext, EndRead, TerminateRead, FinRead, FinEnd, FinLock, FinConfirm, FinVoid,
     FinCharge, FinSave, FinForget, FinTrack, FinDrop, FinDie, FinGoto
<1>2. CASE FinForget(f)
  <2>1. finTrip[f] \in Trips /\ cache' = cache \ {finTrip[f]}
    BY <1>2 DEF FinForget, FinGoto, IInv, FinInv
  <2>2. Record!Lose(finTrip[f])
    BY <1>1, <2>1 DEF Record!Lose
  <2> QED
    BY <2>1, <2>2 DEF RecordStep, Record!Next
<1>3. CASE ~FinForget(f)
  <2>1. cache' = cache
    BY <1>3 DEF FinNext, EndRead, TerminateRead, FinRead, FinEnd, FinLock, FinConfirm, FinVoid,
       FinCharge, FinSave, FinTrack, FinDrop, FinDie, FinGoto
  <2> QED
    BY <1>1, <2>1 DEF RecordStep, Record!vars
<1> QED
  BY <1>2, <1>3

LEMMA RedisKeepsRecord ==
  ASSUME NEW t \in Trips, RedisNext(t)
  PROVE  RecordStep
<1>1. Record!Read(t) \/ Record!Write(t) \/ Record!Abandon(t) \/ Record!Lose(t)
  BY DEF RedisNext, RewriteRead, RewriteWrite, RewriteDie, CacheExpire, Record!Read,
     Record!Write, Record!Abandon, Record!Lose
<1> QED
  BY <1>1 DEF RecordStep, Record!Next

\* The entry of a trip is stored once, by its start, and written again only by
\* whoever read it while it was there.
THEOREM RentalKeepsRecord == Spec => KeepsRecord
<1>1. Init => Record!Init
  BY DEF Init, Record!Init
<1>2. IInv /\ [Next]_vars => [Record!Next]_(Record!vars)
  <2> SUFFICES ASSUME IInv, [Next]_vars PROVE RecordStep
    BY DEF RecordStep
  <2>1. CASE UNCHANGED vars
    BY <2>1 DEF RecordStep, Record!vars
  <2> QED
    BY <2>1, StartKeepsRecord, FinKeepsRecord, RedisKeepsRecord DEF Next, IInv
<1> QED
  BY <1>1, <1>2, Inductive, PTL DEF Spec, KeepsRecord, Record!Spec

(***************************************************************************)
(* ScooterRegistry.                                                        *)
(***************************************************************************)
\* No object of the IMEI is at Rightech or on its way there, or it is mixed.
Quiet(m) ==
  \/ m \in mixed
  \/ /\ m \notin registered
     /\ \A k \in Requests : work[k].pc = "register" => work[k].imei # m

\* What a handler carries from await to await.
CarriesInv(k) ==
  /\ work[k].pc = "files" => work[k].device \in Trips
  /\ work[k].pc \in {"files", "register", "unregister"} => work[k].imei \in Finishes
  /\ work[k].pc = "register" => work[k].id \in 1 .. made

\* A number drawn once belongs to one create, whose files are there.
FilesInv(k) ==
  work[k].pc = "files" /\ work[k].device \notin collided =>
    /\ work[k].device \in files
    /\ \A r \in rows : r.device # work[k].device
    /\ \A l \in Requests \ {k} : work[l].device # work[k].device

\* The create that is about to register has its row, which is as it made it
\* until someone touches it, and nobody else registers the IMEI.
RegisterInv(k) ==
  work[k].pc = "register" =>
    /\ work[k].imei \notin mixed =>
         /\ work[k].imei \notin registered
         /\ \E r \in rows : r.id = work[k].id /\ r.imei = work[k].imei
    /\ work[k].id \notin touched =>
         \E r \in rows : r.id = work[k].id /\ r.imei = work[k].imei /\ r.online
    /\ \A l \in Requests \ {k} : work[l].pc = "register" => work[l].id # work[k].id

\* A removal leaves nothing of its row at Rightech when it drops it; before,
\* nothing but what the row had when it was found.
RemovalInv(k) ==
  work[k].pc \in {"unregister", "drop"} =>
    /\ work[k].id \in touched
    /\ \A r \in rows : r.id = work[k].id =>
         Quiet(r.imei) \/ (work[k].pc = "unregister" /\ r.imei = work[k].imei)

HandlerInv(k) == CarriesInv(k) /\ FilesInv(k) /\ RegisterInv(k) /\ RemovalInv(k)

RegistryInv ==
  /\ Registry!TypeOK
  /\ \A k \in Requests : HandlerInv(k)
  /\ Registry!RegisteredHasRow
  /\ Registry!FilesBehindRow
  /\ Registry!ToldIsOnMap

\* What a handler's step leaves alone: the others.
LEMMA RegistryBegin ==
  ASSUME Registry!TypeOK, NEW k \in Requests, NEW r, Registry!Begin(k, r)
  PROVE  /\ work[k].pc = "idle" /\ work'[k] = r
         /\ \A l \in Requests \ {k} : work'[l] = work[l]
BY DEF Registry!TypeOK, Registry!Begin, Registry!Idle

LEMMA RegistryReturn ==
  ASSUME Registry!TypeOK, NEW k \in Requests, Registry!Return(k)
  PROVE  /\ work'[k] = Registry!Idle
         /\ \A l \in Requests \ {k} : work'[l] = work[l]
         /\ \A l \in Requests : work'[l].pc # "idle" => l # k
BY DEF Registry!TypeOK, Registry!Return, Registry!Idle

LEMMA NoRowIsQuiet ==
  ASSUME RegistryInv, NEW m, ~Registry!HasImei(m)
  PROVE  Quiet(m)
BY DEF RegistryInv, HandlerInv, RegisterInv, Registry!HasImei, Registry!RegisteredHasRow, Quiet

LEMMA RegistryTypeStep ==
  ASSUME Registry!TypeOK, \A k \in Requests : CarriesInv(k), [Registry!Next]_registryVars
  PROVE  Registry!TypeOK'
<1> USE MCRentalAssumption
    DEF Registry!ScooterRegistryAssumption, Registry!TypeOK, Registry!Pcs, Registry!Idle,
        Registry!At, Registry!Begin, Registry!Goto, Registry!Return
<1>1. ASSUME NEW k \in Requests, NEW d \in Trips, NEW m \in Finishes,
             Registry!CreateFiles(k, d, m)
      PROVE  Registry!TypeOK'
  BY <1>1 DEF Registry!CreateFiles
<1>2. ASSUME NEW k \in Requests, NEW r \in rows, Registry!RemoveFind(k, r)
      PROVE  Registry!TypeOK'
  <2>1. r.id \in 1 .. made /\ r.imei \in Finishes
    OBVIOUS
  <2>2. [pc |-> "unregister", id |-> r.id, device |-> NoTrip, imei |-> r.imei]
          \in [pc : Registry!Pcs, id : 0 .. made, device : Trips \cup {NoTrip},
               imei : Finishes \cup {NoTrip}]
    BY <2>1
  <2> QED
    BY <1>2, <2>1, <2>2 DEF Registry!RemoveFind
<1>3. ASSUME NEW k \in Requests, Registry!CreateRow(k) PROVE Registry!TypeOK'
  BY <1>3 DEF Registry!CreateRow, CarriesInv, Registry!Fits
<1>4. ASSUME NEW k \in Requests, Registry!Register(k) PROVE Registry!TypeOK'
  <2>1. work[k].id \in 1 .. made /\ work[k].imei \in Finishes
    BY <1>4 DEF Registry!Register, CarriesInv
  <2>2. told' \subseteq 1 .. made /\ registered' \subseteq Finishes
    BY <1>4, <2>1 DEF Registry!Register
  <2> QED
    BY <1>4, <2>2 DEF Registry!Register
<1>5. ASSUME NEW k \in Requests, Registry!Unregister(k) PROVE Registry!TypeOK'
  BY <1>5 DEF Registry!Unregister, CarriesInv
<1>6. ASSUME NEW k \in Requests, Registry!DropRow(k) PROVE Registry!TypeOK'
  BY <1>6 DEF Registry!DropRow, Registry!Row
<1>7. ASSUME NEW r \in rows, NEW m \in Finishes, NEW o \in BOOLEAN, Registry!Update(r, m, o)
      PROVE  Registry!TypeOK'
  <2> DEFINE q == [r EXCEPT !.imei = m, !.online = o]
  <2>1. /\ q \in [id : 1 .. made, device : Trips, imei : Finishes, online : BOOLEAN]
        /\ q.id = r.id /\ q.device = r.device /\ q.imei = m
    OBVIOUS
  <2>2. rows' = (rows \ {r}) \cup {q} /\ (m = r.imei \/ \A x \in rows : x.imei # m)
    BY <1>7 DEF Registry!Update, Registry!HasImei
  <2> HIDE DEF q
  <2>3. \A x, y \in rows' : x = y \/ (x.id # y.id /\ x.device # y.device /\ x.imei # y.imei)
    BY <2>1, <2>2
  <2>4. r.id \in 1 .. made /\ r.imei \in Finishes
    OBVIOUS
  <2> QED
    BY <1>7, <2>1, <2>2, <2>3, <2>4 DEF Registry!Update
<1>8. CASE Registry!Crash
  BY <1>8 DEF Registry!Crash
<1>9. CASE UNCHANGED registryVars
  BY <1>9 DEF registryVars
<1> QED
  BY <1>1, <1>2, <1>3, <1>4, <1>5, <1>6, <1>7, <1>8, <1>9 DEF Registry!Next

\* What is quiet stays so unless somebody is about to register the IMEI.
LEMMA QuietStays ==
  ASSUME NEW m, Quiet(m), mixed \subseteq mixed', m \in registered' => m \in registered,
         \A k \in Requests : work'[k].pc = "register" =>
           \/ work[k].pc = "register" /\ work[k].imei = work'[k].imei
           \/ work'[k].imei # m
  PROVE  Quiet(m)'
BY DEF Quiet

\* create, up to the files.
LEMMA CreateFilesStep ==
  ASSUME RegistryInv, Registry!TypeOK', NEW k \in Requests, NEW d \in Trips, NEW i \in Finishes,
         Registry!CreateFiles(k, d, i)
  PROVE  RegistryInv'
<1>1. /\ UNCHANGED <<rows, made, registered, told, touched, mixed>>
      /\ files' = files \cup {d} /\ collided \subseteq collided'
      /\ Registry!Taken(d) => d \in collided'
  BY DEF Registry!CreateFiles
<1>2. \A l \in Requests :
        \/ work'[l] = work[l]
        \/ l = k /\ work'[l] = [pc |-> "files", id |-> 0, device |-> d, imei |-> i]
  <2>1. CASE Registry!Begin(k, [pc |-> "files", id |-> 0, device |-> d, imei |-> i])
    BY <2>1, RegistryBegin DEF RegistryInv
  <2> QED
    BY <2>1 DEF Registry!CreateFiles
<1>3. ASSUME NEW m, Quiet(m) PROVE Quiet(m)'
  BY <1>1, <1>2, <1>3, QuietStays
<1>4. ASSUME NEW l \in Requests PROVE HandlerInv(l)'
  <2>1. CarriesInv(l)'
    BY <1>1, <1>2 DEF RegistryInv, HandlerInv, CarriesInv
  <2>2. FilesInv(l)'
    BY <1>1, <1>2 DEF RegistryInv, HandlerInv, FilesInv, Registry!Taken
  <2>3. RegisterInv(l)'
    BY <1>1, <1>2 DEF RegistryInv, HandlerInv, RegisterInv
  <2>4. RemovalInv(l)'
    BY <1>1, <1>2, <1>3 DEF RegistryInv, HandlerInv, RemovalInv
  <2> QED
    BY <2>1, <2>2, <2>3, <2>4 DEF HandlerInv
<1> QED
  BY <1>1, <1>4
     DEF RegistryInv, Registry!RegisteredHasRow, Registry!HasImei, Registry!FilesBehindRow,
         Registry!ToldIsOnMap, Registry!Row, Registry!OnMap, Registry!OnPlatform

\* create, up to the row or the error.
LEMMA CreateRowStep ==
  ASSUME RegistryInv, Registry!TypeOK', NEW k \in Requests, Registry!CreateRow(k)
  PROVE  RegistryInv'
<1> DEFINE new == [id |-> made + 1, device |-> work[k].device, imei |-> work[k].imei,
                   online |-> TRUE]
<1>1. /\ work[k].pc = "files"
      /\ UNCHANGED <<registered, told, touched, collided, mixed>>
  BY DEF Registry!CreateRow, Registry!At
<1>2. CASE /\ Registry!Fits(k) /\ rows' = rows \cup {new} /\ made' = made + 1
           /\ work' = [work EXCEPT ![k].pc = "register", ![k].id = made + 1]
           /\ UNCHANGED files
  <2>1. /\ work'[k].pc = "register" /\ work'[k].id = made + 1
        /\ work'[k].imei = work[k].imei /\ work'[k].device = work[k].device
        /\ \A l \in Requests \ {k} : work'[l] = work[l]
    BY <1>2 DEF RegistryInv, Registry!TypeOK
  <2>2. /\ made \in Nat
        /\ \A r \in rows : r.id # made + 1
        /\ made + 1 \notin touched \cup told
        /\ \A l \in Requests : work[l].id # made + 1
    BY DEF RegistryInv, Registry!TypeOK
  <2>3. Quiet(work[k].imei) /\ ~Registry!HasImei(work[k].imei)
    BY <1>2, NoRowIsQuiet DEF Registry!Fits, Registry!HasImei
  <2>4. ASSUME NEW r \in rows, Quiet(r.imei) PROVE Quiet(r.imei)'
    <3>1. r.imei # work[k].imei
      BY <1>2 DEF Registry!Fits
    <3> QED
      BY <1>1, <2>1, <2>4, <3>1, QuietStays
  <2> HIDE DEF new
  <2>5. new.id = made + 1 /\ new.imei = work[k].imei /\ new.device = work[k].device
        /\ new.online
    BY DEF new
  <2>6. rows' = rows \cup {new} /\ made' = made + 1 /\ files' = files
    BY <1>2
  <2>7. ASSUME NEW l \in Requests PROVE HandlerInv(l)'
    <3> USE <1>1, <2>1, <2>2, <2>5, <2>6
    <3>1. CarriesInv(l)'
      BY DEF RegistryInv, HandlerInv, CarriesInv
    <3>2. FilesInv(l)'
      BY DEF RegistryInv, HandlerInv, FilesInv
    <3>3. RegisterInv(l)'
      <4>1. CASE l = k
        <5>1. \A m \in Requests \ {k} : work'[m].id # made + 1
          OBVIOUS
        <5>2. work[k].imei \notin mixed => work[k].imei \notin registered
          BY <2>3 DEF Quiet
        <5> QED
          BY <4>1, <5>1, <5>2 DEF RegisterInv
      <4>2. CASE l # k
        BY <4>2 DEF RegistryInv, HandlerInv, RegisterInv
      <4> QED BY <4>1, <4>2
    <3>4. RemovalInv(l)'
      BY <2>4 DEF RegistryInv, HandlerInv, RemovalInv
    <3> QED
      BY <3>1, <3>2, <3>3, <3>4 DEF HandlerInv
  <2>8. Registry!RegisteredHasRow' /\ Registry!FilesBehindRow'
    BY <1>1, <1>2, <2>5
       DEF RegistryInv, HandlerInv, FilesInv, Registry!RegisteredHasRow, Registry!HasImei,
           Registry!FilesBehindRow
  <2>9. Registry!ToldIsOnMap'
    BY <1>1, <1>2, <2>2, <2>5
       DEF RegistryInv, Registry!ToldIsOnMap, Registry!Row, Registry!OnMap, Registry!OnPlatform
  <2> QED
    BY <2>7, <2>8, <2>9 DEF RegistryInv
<1>3. CASE /\ files' = files \ {work[k].device} /\ Registry!Return(k) /\ UNCHANGED <<rows, made>>
  <2>1. work'[k].pc = "idle" /\ \A l \in Requests \ {k} : work'[l] = work[l]
        /\ work'[k].device = NoTrip
    BY <1>3, RegistryReturn DEF RegistryInv, Registry!Idle
  <2>2. ASSUME NEW m, Quiet(m) PROVE Quiet(m)'
    BY <1>1, <2>1, <2>2, QuietStays
  <2>3. ASSUME NEW l \in Requests PROVE HandlerInv(l)'
    <3>1. CarriesInv(l)'
      BY <1>3, <2>1 DEF RegistryInv, HandlerInv, CarriesInv
    <3>2. FilesInv(l)'
      BY <1>1, <1>3, <2>1, MCRentalAssumption
         DEF RegistryInv, HandlerInv, FilesInv, CarriesInv, Registry!ScooterRegistryAssumption
    <3>3. RegisterInv(l)'
      BY <1>1, <1>3, <2>1 DEF RegistryInv, HandlerInv, RegisterInv
    <3>4. RemovalInv(l)'
      BY <1>1, <1>3, <2>1, <2>2 DEF RegistryInv, HandlerInv, RemovalInv
    <3> QED
      BY <3>1, <3>2, <3>3, <3>4 DEF HandlerInv
  <2>4. Registry!FilesBehindRow'
    BY <1>1, <1>3 DEF RegistryInv, HandlerInv, FilesInv, Registry!FilesBehindRow
  <2> QED
    BY <1>1, <1>3, <2>3, <2>4
       DEF RegistryInv, Registry!RegisteredHasRow, Registry!HasImei,
           Registry!ToldIsOnMap, Registry!Row, Registry!OnMap, Registry!OnPlatform
<1> QED
  BY <1>2, <1>3 DEF Registry!CreateRow

\* create, from Rightech's answer.
LEMMA RegisterStep ==
  ASSUME RegistryInv, Registry!TypeOK', NEW k \in Requests, Registry!Register(k)
  PROVE  RegistryInv'
<1>1. /\ work[k].pc = "register" /\ Registry!Return(k)
      /\ UNCHANGED <<rows, made, files, touched, collided, mixed>>
      /\ \/ UNCHANGED <<registered, told>>
         \/ /\ registered' = registered \cup {work[k].imei}
            /\ told' \subseteq told \cup {work[k].id}
  BY DEF Registry!Register, Registry!At
<1>2. work'[k].pc = "idle" /\ \A l \in Requests \ {k} : work'[l] = work[l]
      /\ work'[k].device = NoTrip
  BY <1>1, RegistryReturn DEF RegistryInv, Registry!Idle
<1>3. ASSUME NEW m, Quiet(m) PROVE Quiet(m)'
  BY <1>1, <1>2, <1>3 DEF Quiet
<1>4. \A r, q \in rows : r.imei = q.imei => r = q
  BY DEF RegistryInv, Registry!TypeOK
<1>5. ASSUME NEW l \in Requests PROVE HandlerInv(l)'
  <2>1. CarriesInv(l)'
    BY <1>1, <1>2 DEF RegistryInv, HandlerInv, CarriesInv
  <2>2. FilesInv(l)'
    BY <1>1, <1>2, MCRentalAssumption
       DEF RegistryInv, HandlerInv, FilesInv, CarriesInv, Registry!ScooterRegistryAssumption
  <2>3. RegisterInv(l)'
    <3> SUFFICES ASSUME work'[l].pc = "register" PROVE RegisterInv(l)'
      BY DEF RegisterInv
    <3>1. l # k /\ work'[l] = work[l]
      BY <1>2
    <3>2. work[l].imei \notin mixed => work[l].imei # work[k].imei
      BY <1>1, <1>4, <3>1 DEF RegistryInv, HandlerInv, RegisterInv
    <3> QED
      BY <1>1, <1>2, <3>1, <3>2 DEF RegistryInv, HandlerInv, RegisterInv
  <2>4. RemovalInv(l)'
    BY <1>1, <1>2, <1>3 DEF RegistryInv, HandlerInv, RemovalInv
  <2> QED
    BY <2>1, <2>2, <2>3, <2>4 DEF HandlerInv
<1>6. Registry!RegisteredHasRow' /\ Registry!FilesBehindRow'
  BY <1>1 DEF RegistryInv, HandlerInv, RegisterInv, Registry!RegisteredHasRow,
              Registry!HasImei, Registry!FilesBehindRow
<1>7. Registry!ToldIsOnMap'
  <2> SUFFICES ASSUME NEW i \in told' \ touched'
               PROVE  /\ \E r \in rows : r.id = i
                      /\ \A r \in rows : r.id = i => \/ r.imei \in registered' /\ r.online
                                                     \/ r.imei \in mixed
    BY <1>1 DEF Registry!ToldIsOnMap, Registry!Row, Registry!OnMap, Registry!OnPlatform
  <2>1. CASE i \in told
    BY <1>1, <2>1 DEF RegistryInv, Registry!ToldIsOnMap, Registry!Row, Registry!OnMap,
                      Registry!OnPlatform
  <2>2. CASE i \notin told
    <3>1. i = work[k].id /\ registered' = registered \cup {work[k].imei}
      BY <1>1, <2>2
    <3>2. \A r, q \in rows : r.id = q.id => r = q
      BY DEF RegistryInv, Registry!TypeOK
    <3> QED
      BY <1>1, <3>1, <3>2 DEF RegistryInv, HandlerInv, RegisterInv
  <2> QED BY <2>1, <2>2
<1> QED
  BY <1>5, <1>6, <1>7 DEF RegistryInv

\* update.
LEMMA UpdateStep ==
  ASSUME RegistryInv, Registry!TypeOK', NEW r \in rows, NEW m \in Finishes, NEW o \in BOOLEAN,
         Registry!Update(r, m, o)
  PROVE  RegistryInv'
<1> DEFINE q == [r EXCEPT !.imei = m, !.online = o]
<1>1. /\ UNCHANGED <<made, files, registered, work, told, collided>>
      /\ rows' = (rows \ {r}) \cup {q} /\ touched' = touched \cup {r.id}
      /\ mixed \subseteq mixed' /\ (m # r.imei => r.imei \in mixed')
      /\ m = r.imei \/ ~Registry!HasImei(m)
  BY DEF Registry!Update
<1>2. q.id = r.id /\ q.imei = m /\ q.device = r.device
  BY DEF RegistryInv, Registry!TypeOK
<1> HIDE DEF q
<1>3. \A x, y \in rows : x = y \/ (x.id # y.id /\ x.device # y.device /\ x.imei # y.imei)
  BY DEF RegistryInv, Registry!TypeOK
<1>4. ASSUME NEW i, Quiet(i) PROVE Quiet(i)'
  BY <1>1, <1>4, QuietStays
<1>5. m # r.imei => Quiet(m)'
  BY <1>1, <1>4, NoRowIsQuiet
<1>6. ASSUME NEW l \in Requests PROVE HandlerInv(l)'
  <2>1. CarriesInv(l)' /\ FilesInv(l)'
    BY <1>1, <1>2 DEF RegistryInv, HandlerInv, CarriesInv, FilesInv
  <2>2. RegisterInv(l)'
    BY <1>1, <1>2, <1>3 DEF RegistryInv, HandlerInv, RegisterInv
  <2>3. RemovalInv(l)'
    BY <1>1, <1>2, <1>3, <1>4, <1>5 DEF RegistryInv, HandlerInv, RemovalInv
  <2> QED
    BY <2>1, <2>2, <2>3 DEF HandlerInv
<1>7. Registry!RegisteredHasRow' /\ Registry!FilesBehindRow'
  BY <1>1, <1>2 DEF RegistryInv, Registry!RegisteredHasRow, Registry!HasImei,
                    Registry!FilesBehindRow
<1>8. Registry!ToldIsOnMap'
  BY <1>1, <1>2
     DEF RegistryInv, Registry!ToldIsOnMap, Registry!Row, Registry!OnMap, Registry!OnPlatform
<1> QED
  BY <1>6, <1>7, <1>8 DEF RegistryInv

\* remove, up to the row it finds.
LEMMA RemoveFindStep ==
  ASSUME RegistryInv, Registry!TypeOK', NEW k \in Requests, NEW r \in rows,
         Registry!RemoveFind(k, r)
  PROVE  RegistryInv'
<1>1. /\ UNCHANGED <<rows, made, files, registered, told, collided, mixed>>
      /\ touched' = touched \cup {r.id}
  BY DEF Registry!RemoveFind
<1>2. /\ work'[k] = [pc |-> "unregister", id |-> r.id, device |-> NoTrip, imei |-> r.imei]
      /\ \A l \in Requests \ {k} : work'[l] = work[l]
  BY RegistryBegin DEF Registry!RemoveFind, RegistryInv
<1>3. /\ work'[k].pc = "unregister" /\ work'[k].id = r.id /\ work'[k].device = NoTrip
      /\ work'[k].imei = r.imei
  BY <1>2
<1>4. /\ \A x, y \in rows : x.id = y.id => x = y
      /\ r.imei \in Finishes
  BY DEF RegistryInv, Registry!TypeOK
<1>5. ASSUME NEW i, Quiet(i) PROVE Quiet(i)'
  BY <1>1, <1>2, <1>3, <1>5, QuietStays
<1>6. ASSUME NEW l \in Requests PROVE HandlerInv(l)'
  <2> USE <1>1, <1>2, <1>3, <1>4
  <2>1. CarriesInv(l)'
    BY DEF RegistryInv, HandlerInv, CarriesInv
  <2>2. FilesInv(l)'
    BY MCRentalAssumption
       DEF RegistryInv, HandlerInv, FilesInv, CarriesInv, Registry!ScooterRegistryAssumption
  <2>3. RegisterInv(l)'
    BY DEF RegistryInv, HandlerInv, RegisterInv
  <2>4. RemovalInv(l)'
    BY <1>5 DEF RegistryInv, HandlerInv, RemovalInv
  <2> QED
    BY <2>1, <2>2, <2>3, <2>4 DEF HandlerInv
<1> QED
  BY <1>1, <1>6
     DEF RegistryInv, Registry!RegisteredHasRow, Registry!HasImei, Registry!FilesBehindRow,
         Registry!ToldIsOnMap, Registry!Row, Registry!OnMap, Registry!OnPlatform

\* remove, from Rightech's answer.
LEMMA UnregisterStep ==
  ASSUME RegistryInv, Registry!TypeOK', NEW k \in Requests, Registry!Unregister(k)
  PROVE  RegistryInv'
<1>0. PICK m : m = work[k].imei
  OBVIOUS
<1>1. /\ work[k].pc = "unregister" /\ UNCHANGED <<rows, made, files, told, touched, collided>>
      /\ registered' \subseteq registered /\ mixed \subseteq mixed'
      /\ \A i \in registered \ registered' :
           i = m /\ (i \in mixed' \/ \E r \in rows : r.id = work[k].id /\ r.imei = m)
  BY <1>0 DEF Registry!Unregister, Registry!At, Registry!Row
<1>2. /\ \A l \in Requests \ {k} : work'[l] = work[l]
      /\ \/ work'[k].pc = "idle" /\ work'[k].device = NoTrip
         \/ /\ work'[k].pc = "drop" /\ work'[k].id = work[k].id
            /\ work'[k].device = work[k].device
            /\ m \in registered /\ registered' = registered \ {m}
  <2>1. CASE Registry!Return(k)
    BY <2>1, RegistryReturn DEF RegistryInv, Registry!Idle
  <2>2. CASE Registry!Goto(k, "drop") /\ m \in registered /\ registered' = registered \ {m}
    BY <2>2 DEF Registry!Goto, RegistryInv, Registry!TypeOK
  <2> QED
    BY <1>0, <2>1, <2>2 DEF Registry!Unregister
<1>3. \A x, y \in rows : x = y \/ (x.id # y.id /\ x.imei # y.imei)
  BY DEF RegistryInv, Registry!TypeOK
<1>4. ASSUME NEW i, Quiet(i) PROVE Quiet(i)'
  BY <1>1, <1>2, <1>4, QuietStays
<1>5. m \in registered \ mixed => \A l \in Requests : work[l].pc = "register" => work[l].imei # m
  BY DEF RegistryInv, HandlerInv, RegisterInv
<1>6. work'[k].pc = "drop" => Quiet(m)'
  BY <1>1, <1>2, <1>5 DEF Quiet
<1>7. ASSUME NEW l \in Requests PROVE HandlerInv(l)'
  <2> USE <1>0, <1>1, <1>2
  <2>1. CarriesInv(l)'
    BY DEF RegistryInv, HandlerInv, CarriesInv
  <2>2. FilesInv(l)'
    BY MCRentalAssumption
       DEF RegistryInv, HandlerInv, FilesInv, CarriesInv, Registry!ScooterRegistryAssumption
  <2>3. RegisterInv(l)'
    BY DEF RegistryInv, HandlerInv, RegisterInv
  <2>4. RemovalInv(l)'
    BY <1>4, <1>6 DEF RegistryInv, HandlerInv, RemovalInv
  <2> QED
    BY <2>1, <2>2, <2>3, <2>4 DEF HandlerInv
<1>8. Registry!RegisteredHasRow' /\ Registry!FilesBehindRow'
  BY <1>1 DEF RegistryInv, Registry!RegisteredHasRow, Registry!HasImei,
              Registry!FilesBehindRow
<1>9. Registry!ToldIsOnMap'
  <2>1. work[k].id \in touched
    BY <1>1 DEF RegistryInv, HandlerInv, RemovalInv
  <2> QED
    BY <1>1, <1>3, <2>1
       DEF RegistryInv, Registry!ToldIsOnMap, Registry!Row, Registry!OnMap, Registry!OnPlatform
<1> QED
  BY <1>7, <1>8, <1>9 DEF RegistryInv

\* remove, its last statement: what is dropped is quiet, and was touched.
LEMMA DropRowStep ==
  ASSUME RegistryInv, Registry!TypeOK', NEW k \in Requests, Registry!DropRow(k)
  PROVE  RegistryInv'
<1>1. /\ work[k].pc = "drop" /\ Registry!Return(k)
      /\ UNCHANGED <<made, registered, told, touched, collided, mixed>>
      /\ \/ UNCHANGED <<rows, files>>
         \/ \E r \in rows : r.id = work[k].id /\ rows' = rows \ {r} /\ files' = files \ {r.device}
  BY DEF Registry!DropRow, Registry!At, Registry!Row
<1>2. work'[k].pc = "idle" /\ \A l \in Requests \ {k} : work'[l] = work[l]
      /\ work'[k].device = NoTrip
  BY <1>1, RegistryReturn DEF RegistryInv, Registry!Idle
<1>3. \A x, y \in rows : x = y \/ (x.id # y.id /\ x.device # y.device /\ x.imei # y.imei)
  BY DEF RegistryInv, Registry!TypeOK
<1>4. /\ work[k].id \in touched /\ rows' \subseteq rows
      /\ \A r \in rows \ rows' : r.id = work[k].id /\ Quiet(r.imei)
  BY <1>1 DEF RegistryInv, HandlerInv, RemovalInv
<1>5. ASSUME NEW i, Quiet(i) PROVE Quiet(i)'
  BY <1>1, <1>2, <1>5, QuietStays
<1>6. \A r \in rows' : r.device \in files \cup collided => r.device \in files' \cup collided
  BY <1>1, <1>3
<1>7. \A d \in files \ files' : \E r \in rows : r.device = d
  BY <1>1
<1>8. ASSUME NEW l \in Requests PROVE HandlerInv(l)'
  <2> USE <1>1, <1>2, <1>4
  <2>1. CarriesInv(l)'
    BY DEF RegistryInv, HandlerInv, CarriesInv
  <2>2. FilesInv(l)'
    BY <1>7, MCRentalAssumption
       DEF RegistryInv, HandlerInv, FilesInv, CarriesInv, Registry!ScooterRegistryAssumption
  <2>3. RegisterInv(l)'
    BY DEF RegistryInv, HandlerInv, RegisterInv, Quiet
  <2>4. RemovalInv(l)'
    BY <1>5 DEF RegistryInv, HandlerInv, RemovalInv
  <2> QED
    BY <2>1, <2>2, <2>3, <2>4 DEF HandlerInv
<1>9. Registry!RegisteredHasRow'
  BY <1>1, <1>4 DEF RegistryInv, Registry!RegisteredHasRow, Registry!HasImei, Quiet
<1>10. Registry!FilesBehindRow'
  BY <1>1, <1>4, <1>6 DEF RegistryInv, Registry!FilesBehindRow
<1>11. Registry!ToldIsOnMap'
  BY <1>1, <1>3, <1>4
     DEF RegistryInv, Registry!ToldIsOnMap, Registry!Row, Registry!OnMap, Registry!OnPlatform
<1> QED
  BY <1>8, <1>9, <1>10, <1>11 DEF RegistryInv

\* A restart: every handler is forgotten.
LEMMA RegistryCrashStep ==
  ASSUME RegistryInv, Registry!TypeOK', Registry!Crash
  PROVE  RegistryInv'
<1>1. /\ UNCHANGED <<rows, made, files, registered, told, touched, collided, mixed>>
      /\ \A k \in Requests : work'[k] = Registry!Idle
  BY DEF Registry!Crash
<1>2. \A k \in Requests : work'[k].pc = "idle"
  BY <1>1 DEF Registry!Idle
<1> QED
  BY <1>1, <1>2
     DEF RegistryInv, HandlerInv, CarriesInv, FilesInv, RegisterInv, RemovalInv,
         Registry!RegisteredHasRow, Registry!HasImei, Registry!FilesBehindRow,
         Registry!ToldIsOnMap, Registry!Row, Registry!OnMap, Registry!OnPlatform

LEMMA RegistryInit == Registry!Init => RegistryInv
<1> SUFFICES ASSUME Registry!Init PROVE RegistryInv
  OBVIOUS
<1>1. Registry!TypeOK
  BY MCRentalAssumption
     DEF Registry!Init, Registry!TypeOK, Registry!Idle, Registry!Pcs,
         Registry!ScooterRegistryAssumption
<1>2. \A k \in Requests : work[k].pc = "idle"
  BY DEF Registry!Init, Registry!Idle
<1>3. \A k \in Requests : HandlerInv(k)
  BY <1>2 DEF HandlerInv, CarriesInv, FilesInv, RegisterInv, RemovalInv
<1> QED
  BY <1>1, <1>3 DEF RegistryInv, Registry!Init, Registry!RegisteredHasRow,
                    Registry!FilesBehindRow, Registry!ToldIsOnMap

LEMMA RegistryStep == RegistryInv /\ [Registry!Next]_(Registry!vars) => RegistryInv'
<1> SUFFICES ASSUME RegistryInv, [Registry!Next]_(Registry!vars) PROVE RegistryInv'
  OBVIOUS
<1>1. Registry!TypeOK'
  BY RegistryTypeStep DEF Registry!vars, registryVars, RegistryInv, HandlerInv
<1>2. CASE UNCHANGED Registry!vars
  BY <1>2 DEF Registry!vars, RegistryInv, HandlerInv, CarriesInv, FilesInv, RegisterInv,
       RemovalInv, Quiet, Registry!TypeOK, Registry!RegisteredHasRow, Registry!HasImei,
       Registry!FilesBehindRow, Registry!ToldIsOnMap, Registry!Row, Registry!OnMap,
       Registry!OnPlatform
<1>3. CASE Registry!Next
  BY <1>1, <1>3, CreateFilesStep, CreateRowStep, RegisterStep, UpdateStep, RemoveFindStep,
     UnregisterStep, DropRowStep, RegistryCrashStep DEF Registry!Next
<1> QED
  BY <1>2, <1>3

\* The parts of the composition share nothing: a behaviour of it is a behaviour
\* of ScooterRegistry.
LEMMA RunsRegistry == RunSpec => Registry!Spec
<1>1. RunInit => Registry!Init
  BY DEF RunInit
<1>2. [RunNext]_<<part, vars, mobileVars, registryVars>> => [Registry!Next]_(Registry!vars)
  BY DEF RunNext, registryVars, Registry!vars
<1> QED
  BY <1>1, <1>2, PTL DEF RunSpec, Registry!Spec

\* What create, update and remove keep however their handlers overlap, fail and
\* die between two statements.
THEOREM RegistryInductive == Registry!Spec => []RegistryInv
  BY RegistryInit, RegistryStep, PTL DEF Registry!Spec

\* What Rightech has, the database knows; a row has its files; a scooter answered
\* as created is on the map: for any number of handlers, scooters and rows.
THEOREM DatabaseAgrees == RunSpec => []ScootersAgree
<1>1. RegistryInv => ScootersAgree
  BY DEF RegistryInv, ScootersAgree
<1> QED
  BY <1>1, RunsRegistry, RegistryInductive, PTL

(***************************************************************************)
(* MobileAuth.                                                             *)
(***************************************************************************)
\* What a handler carries from await to await.
CallInv(k) ==
  /\ req[k].pc \in {"calling", "called"} =>
       req[k].device \in Scooters /\ req[k].what \in Trips /\ req[k].seen < SignIn!MaxRequests
  /\ req[k].pc = "called" => req[k].code \in 1 .. Len(calls) /\ calls[req[k].code] = req[k].what
  /\ req[k].pc \in {"confirmed", "creating"} => req[k].what \in Trips
  /\ req[k].pc = "checked" => req[k].what \in Emails \cup {NoTrip} /\ req[k].user \in Finishes

\* The code in the cache was dictated to the phone beside it.
SessionInv(d) ==
  session[d] # SignIn!NoSession =>
    /\ session[d].phone \in Trips
    /\ session[d].code \in 1 .. Len(calls) /\ calls[session[d].code] = session[d].phone

\* Without an overlap, the one request under way knows what the session cost,
\* and without a request the cache does: the call comes first, its count later.
CountInv(d) ==
  d \notin lapped =>
    /\ \A k, l \in SignIn!Calling(d) : k = l
    /\ \A k \in SignIn!Calling(d) :
         IF req[k].pc = "called" THEN rung[d] <= req[k].seen + 1 ELSE rung[d] <= req[k].seen
    /\ (\A k \in SignIn!Calling(d) : req[k].pc = "calling") => rung[d] <= session[d].count

\* Without a race on it or a form that wrote it, a phone has one owner, and none
\* while one is created.
PhoneInv(p) ==
  p \notin raced \cup typed =>
    /\ \A u, v \in SignIn!OwnerOf(p) : u = v
    /\ \A k \in Requests : req[k].pc = "creating" /\ req[k].what = p => SignIn!OwnerOf(p) = {}

EmailInv(e) ==
  e \notin raced =>
    /\ \A u, v \in SignIn!HolderOf(e) : u = v
    /\ \A k \in Requests : req[k].pc = "checked" /\ req[k].what = e => SignIn!HolderOf(e) = {}

SignInInv ==
  /\ SignIn!TypeOK
  /\ \A k \in Requests : CallInv(k)
  /\ \A d \in Scooters : SessionInv(d) /\ CountInv(d)
  /\ \A p \in Trips : PhoneInv(p)
  /\ \A e \in Emails : EmailInv(e)

\* What a handler's step leaves alone: the others, and itself when it only moves.
LEMMA SignInBegin ==
  ASSUME SignIn!TypeOK, NEW k \in Requests, NEW r, SignIn!Begin(k, r)
  PROVE  /\ req[k].pc = "idle" /\ req'[k] = r
         /\ \A l \in Requests \ {k} : req'[l] = req[l]
BY DEF SignIn!TypeOK, SignIn!Begin, SignIn!Idle

LEMMA SignInReturn ==
  ASSUME SignIn!TypeOK, NEW k \in Requests, NEW from, SignIn!Return(k, from)
  PROVE  /\ req[k].pc = from /\ req'[k].pc = "idle"
         /\ \A l \in Requests \ {k} : req'[l] = req[l]
BY DEF SignIn!TypeOK, SignIn!Return, SignIn!Idle

\* Moving a handler on keeps the type of the handlers.
Handlers == [Requests -> [pc : SignIn!Pcs, device : Scooters \cup {NoTrip},
                          user : Finishes \cup {NoTrip}, what : Trips \cup Emails \cup {NoTrip},
                          number : Trips \cup {NoTrip},
                          seen : 0 .. SignIn!MaxRequests, code : 0 .. MaxCalls]]

LEMMA SignInMoves ==
  ASSUME req \in Handlers, NEW k \in Requests, NEW pc \in SignIn!Pcs, NEW c \in 0 .. MaxCalls
  PROVE  /\ [req EXCEPT ![k].pc = pc] \in Handlers
         /\ [req EXCEPT ![k].pc = pc, ![k].code = c] \in Handlers
<1>1. [req EXCEPT ![k].pc = pc] \in Handlers
  BY DEF Handlers
<1>2. PICK moved : moved = [req EXCEPT ![k].pc = pc]
  OBVIOUS
<1>3. [moved EXCEPT ![k].code = c] \in Handlers
  <2>1. moved \in Handlers
    BY <1>1, <1>2
  <2> QED
    BY <2>1 DEF Handlers
<1>4. [req EXCEPT ![k].pc = pc, ![k].code = c] = [moved EXCEPT ![k].code = c]
  BY <1>2 DEF Handlers
<1> QED
  BY <1>1, <1>3, <1>4

LEMMA SignInTypeStep ==
  ASSUME SignIn!TypeOK, \A k \in Requests : CallInv(k), \A d \in Scooters : SessionInv(d),
         SignIn!Next
  PROVE  SignIn!TypeOK'
<1> USE MCRentalAssumption
    DEF SignIn!MobileAuthAssumption, SignIn!TypeOK, SignIn!Pcs, SignIn!Idle,
        SignIn!Begin, SignIn!Goto, SignIn!Return, SignIn!userVars, SignIn!MaxRequests
<1>1. ASSUME NEW k \in Requests, NEW d \in Scooters, NEW p \in Trips, SignIn!AskRead(k, d, p)
      PROVE  SignIn!TypeOK'
  BY <1>1 DEF SignIn!AskRead
<1>2. ASSUME NEW k \in Requests, NEW d \in Scooters, NEW c \in 1 .. MaxCalls,
             SignIn!Confirm(k, d, c)
      PROVE  SignIn!TypeOK'
  BY <1>2 DEF SignIn!Confirm
<1>3. ASSUME NEW k \in Requests, NEW p \in Trips, SignIn!AuthorizeTest(k, p)
      PROVE  SignIn!TypeOK'
  BY <1>3 DEF SignIn!AuthorizeTest
<1>4. ASSUME NEW k \in Requests, NEW u \in Finishes, NEW e \in Emails \cup {NoTrip},
             NEW p \in Trips \cup {NoTrip}, SignIn!ProfileCheck(k, u, e, p)
      PROVE  SignIn!TypeOK'
  BY <1>4 DEF SignIn!ProfileCheck
<1>5. ASSUME NEW k \in Requests, SignIn!AskCall(k) PROVE SignIn!TypeOK'
  <2>1. req[k].what \in Trips /\ req[k].device \in Scooters
    BY <1>5 DEF SignIn!AskCall, CallInv
  <2>2. calls' \in Seq(Trips) /\ Len(calls') = Len(calls) + 1 /\ Len(calls') <= MaxCalls
    BY <1>5, <2>1 DEF SignIn!AskCall
  <2>3. rung' \in [Scooters -> Nat]
    BY <1>5, <2>1 DEF SignIn!AskCall
  <2>4. Len(calls) + 1 \in 0 .. MaxCalls
    BY <1>5 DEF SignIn!AskCall
  <2>5. req' = [req EXCEPT ![k].pc = "called", ![k].code = Len(calls) + 1]
        /\ UNCHANGED <<session, phone, email, typed, lapped, raced>>
    BY <1>5 DEF SignIn!AskCall
  <2>6. req' \in Handlers
    <3>1. req \in Handlers /\ "called" \in SignIn!Pcs
      BY DEF Handlers
    <3> HIDE DEF SignIn!Pcs, SignIn!TypeOK
    <3> QED
      BY <2>4, <2>5, <3>1, SignInMoves
  <2> QED
    BY <2>2, <2>3, <2>5, <2>6 DEF Handlers
<1>6. ASSUME NEW k \in Requests, SignIn!AskFail(k) \/ SignIn!CreateFail(k) \/ SignIn!FindUser(k)
             \/ SignIn!ProfileFail(k)
      PROVE  SignIn!TypeOK'
  <2>0. CASE SignIn!ProfileFail(k)
    BY <2>0 DEF SignIn!ProfileFail
  <2>1. CASE SignIn!AskFail(k)
    <3>1. req[k].what \in Trips
      BY <2>1 DEF SignIn!AskFail, CallInv
    <3>2. CASE calls' = calls
      BY <2>1, <3>2 DEF SignIn!AskFail
    <3>3. CASE Len(calls) < MaxCalls /\ calls' = Append(calls, req[k].what)
      <4>1. calls' \in Seq(Trips) /\ Len(calls') <= MaxCalls
        BY <3>1, <3>3
      <4> QED
        BY <2>1, <4>1 DEF SignIn!AskFail
    <3> QED
      BY <2>1, <3>2, <3>3 DEF SignIn!AskFail
  <2>2. CASE SignIn!CreateFail(k)
    BY <2>2 DEF SignIn!CreateFail
  <2>3. CASE SignIn!FindUser(k) /\ SignIn!Return(k, "confirmed")
    BY <2>3 DEF SignIn!FindUser
  <2>4. CASE SignIn!FindUser(k) /\ SignIn!Goto(k, "confirmed", "creating")
    <3>1. req' = [req EXCEPT ![k].pc = "creating"]
          /\ UNCHANGED <<session, calls, phone, email, typed, rung, lapped, raced>>
      BY <2>4 DEF SignIn!FindUser
    <3>2. req' \in Handlers
      <4>1. req \in Handlers /\ "creating" \in SignIn!Pcs /\ 0 \in 0 .. MaxCalls
        BY DEF Handlers
      <4> HIDE DEF SignIn!Pcs, SignIn!TypeOK
      <4> QED
        BY <3>1, <4>1, SignInMoves
    <3> QED
      BY <3>1, <3>2 DEF Handlers
  <2> QED
    BY <1>6, <2>0, <2>1, <2>2, <2>3, <2>4 DEF SignIn!FindUser
<1>7. ASSUME NEW k \in Requests, SignIn!AskStore(k) PROVE SignIn!TypeOK'
  <2>0. req[k].what \in Trips /\ req[k].device \in Scooters /\ req[k].seen < 3
    BY <1>7 DEF SignIn!AskStore, CallInv
  <2>1. /\ req[k].what \in Trips /\ req[k].device \in Scooters
        /\ req[k].seen + 1 \in 0 .. 3 /\ req[k].code \in 0 .. MaxCalls
    <3>1. req[k].seen \in 0 .. 3 /\ req[k].code \in 0 .. MaxCalls
      OBVIOUS
    <3> QED
      BY <2>0, <3>1
  <2>2. session' \in [Scooters -> [phone : Trips \cup {NoTrip}, code : 0 .. MaxCalls,
                                   count : 0 .. 3]]
    BY <1>7, <2>1 DEF SignIn!AskStore
  <2> QED
    BY <1>7, <2>2 DEF SignIn!AskStore
<1>8. ASSUME NEW k \in Requests, SignIn!CreateUser(k) PROVE SignIn!TypeOK'
  <2>1. req[k].what \in Trips
    BY <1>8 DEF SignIn!CreateUser, CallInv
  <2>2. phone' \in [Finishes -> Trips \cup {NoTrip, NoScooter}] /\ raced' \subseteq Trips \cup Emails
    BY <1>8, <2>1 DEF SignIn!CreateUser
  <2> QED
    BY <1>8, <2>2 DEF SignIn!CreateUser
<1>9. ASSUME NEW k \in Requests, SignIn!ProfileWrite(k) PROVE SignIn!TypeOK'
  <2>1. /\ req[k].what \in Emails \cup {NoTrip} /\ req[k].number \in Trips \cup {NoTrip}
        /\ req[k].user \in Finishes
    BY <1>9 DEF SignIn!ProfileWrite, CallInv
  <2>2. /\ email' \in [Finishes -> Emails \cup {NoTrip}] /\ raced' \subseteq Trips \cup Emails
        /\ phone' \in [Finishes -> Trips \cup {NoTrip, NoScooter}] /\ typed' \subseteq Trips
    BY <1>9, <2>1 DEF SignIn!ProfileWrite
  <2> QED
    BY <1>9, <2>2 DEF SignIn!ProfileWrite
<1>10. ASSUME NEW d \in Scooters, SignIn!Expire(d) PROVE SignIn!TypeOK'
  BY <1>10 DEF SignIn!Expire, SignIn!NoSession
<1>11. ASSUME NEW u \in Finishes, SignIn!DeleteUserAccount(u) PROVE SignIn!TypeOK'
  BY <1>11 DEF SignIn!DeleteUserAccount
<1>12. ASSUME NEW u \in Finishes, SignIn!RemoveUser(u) PROVE SignIn!TypeOK'
  BY <1>12 DEF SignIn!RemoveUser
<1> QED
  BY <1>1, <1>2, <1>3, <1>4, <1>5, <1>6, <1>7, <1>8, <1>9, <1>10, <1>11, <1>12
     DEF SignIn!Next, SignIn!RequestNext

\* What does not call leaves the sessions, and what was called, as they are.
LEMMA NoCallStep ==
  ASSUME SignInInv, NEW k \in Requests, \A l \in Requests \ {k} : req'[l] = req[l],
         {req[k].pc, req'[k].pc} \cap {"calling", "called"} = {},
         UNCHANGED <<session, calls, rung, lapped>>
  PROVE  /\ \A l \in Requests \ {k} : CallInv(l)'
         /\ \A d \in Scooters : SessionInv(d)' /\ CountInv(d)'
<1>1. ASSUME NEW d \in Scooters PROVE SignIn!Calling(d)' = SignIn!Calling(d)
  BY DEF SignIn!Calling
<1>2. \A d \in Scooters : \A l \in SignIn!Calling(d) : l # k /\ req'[l] = req[l]
  BY DEF SignIn!Calling
<1> QED
  BY <1>1, <1>2 DEF SignInInv, CallInv, SessionInv, CountInv, SignIn!NoSession

\* What touches no account leaves each phone and address its one owner.
LEMMA NoAccountStep ==
  ASSUME SignInInv, NEW k \in Requests, \A l \in Requests \ {k} : req'[l] = req[l],
         req'[k].pc \notin {"creating", "checked"}, UNCHANGED <<phone, email, typed, raced>>
  PROVE  (\A p \in Trips : PhoneInv(p)') /\ (\A e \in Emails : EmailInv(e)')
BY DEF SignInInv, PhoneInv, EmailInv, SignIn!OwnerOf, SignIn!HolderOf

\* authMobile, up to what it reads: a second request marks the session.
LEMMA AskReadStep ==
  ASSUME SignInInv, SignIn!TypeOK', NEW k \in Requests, NEW d \in Scooters, NEW p \in Trips,
         SignIn!AskRead(k, d, p)
  PROVE  SignInInv'
<1>1. /\ UNCHANGED <<session, calls, phone, email, typed, rung, raced>>
      /\ lapped' = IF SignIn!Calling(d) # {} THEN lapped \cup {d} ELSE lapped
      /\ session[d].count \in 0 .. 3 /\ session[d].count # 3
  BY DEF SignIn!AskRead, SignIn!userVars, SignInInv, SignIn!TypeOK, SignIn!MaxRequests
<1>2. (\A l \in Requests \ {k} : req'[l] = req[l]) /\ req[k].pc = "idle"
  BY SignInBegin DEF SignIn!AskRead, SignInInv
<1>3. /\ req'[k].pc = "calling" /\ req'[k].device = d /\ req'[k].what = p
      /\ req'[k].seen = session[d].count
  <2>1. req'[k] = [SignIn!Idle EXCEPT !.pc = "calling", !.device = d, !.what = p,
                                      !.seen = session[d].count]
    BY SignInBegin DEF SignIn!AskRead, SignInInv
  <2> QED
    BY <2>1 DEF SignIn!Idle
<1>4. ASSUME NEW l \in Requests PROVE CallInv(l)'
  BY <1>1, <1>2, <1>3 DEF SignInInv, CallInv, SignIn!MaxRequests
<1>5. ASSUME NEW c \in Scooters PROVE CountInv(c)'
  <2>1. SignIn!Calling(c)' = IF c = d THEN SignIn!Calling(c) \cup {k} ELSE SignIn!Calling(c)
    BY <1>2, <1>3 DEF SignIn!Calling
  <2>2. \A l \in SignIn!Calling(c) : l # k /\ req'[l] = req[l]
    BY <1>2 DEF SignIn!Calling
  <2>3. CASE c # d
    BY <1>1, <2>1, <2>2, <2>3 DEF SignInInv, CountInv
  <2>4. CASE c = d /\ SignIn!Calling(d) = {}
    BY <1>1, <1>3, <2>1, <2>4 DEF SignInInv, CountInv
  <2>5. CASE c = d /\ SignIn!Calling(d) # {}
    BY <1>1, <2>5 DEF CountInv
  <2> QED BY <2>3, <2>4, <2>5
<1>6. ASSUME NEW c \in Scooters PROVE SessionInv(c)'
  BY <1>1 DEF SignInInv, SessionInv, SignIn!NoSession
<1> QED
  BY <1>1, <1>2, <1>3, <1>4, <1>5, <1>6, NoAccountStep DEF SignInInv

\* The call: it costs the session before the session counts it.
LEMMA AskCallStep ==
  ASSUME SignInInv, SignIn!TypeOK', NEW k \in Requests, SignIn!AskCall(k)
  PROVE  SignInInv'
<1>0. PICK d \in Scooters : d = req[k].device
  BY DEF SignIn!AskCall, SignInInv, CallInv
<1>1. /\ UNCHANGED <<session, phone, email, typed, lapped, raced>>
      /\ req[k].pc = "calling" /\ req[k].what \in Trips
      /\ calls' = Append(calls, req[k].what) /\ calls \in Seq(Trips)
      /\ rung' = [rung EXCEPT ![d] = @ + 1]
  BY <1>0 DEF SignIn!AskCall, SignIn!userVars, SignInInv, CallInv, SignIn!TypeOK
<1>2. /\ Len(calls) \in Nat /\ Len(calls') = Len(calls) + 1
      /\ calls'[Len(calls) + 1] = req[k].what
      /\ \A i \in 1 .. Len(calls) : i \in 1 .. Len(calls') /\ calls'[i] = calls[i]
  BY <1>1
<1>3. /\ \A l \in Requests \ {k} : req'[l] = req[l]
      /\ req'[k].pc = "called" /\ req'[k].code = Len(calls) + 1 /\ req'[k].device = d
      /\ req'[k].what = req[k].what /\ req'[k].seen = req[k].seen
  BY <1>0 DEF SignIn!AskCall, SignInInv, SignIn!TypeOK
<1>4. ASSUME NEW l \in Requests PROVE CallInv(l)'
  BY <1>0, <1>1, <1>2, <1>3 DEF SignInInv, CallInv
<1>5. ASSUME NEW c \in Scooters PROVE CountInv(c)'
  <2>1. SignIn!Calling(c)' = SignIn!Calling(c) /\ k \in SignIn!Calling(d)
    BY <1>0, <1>1, <1>3 DEF SignIn!Calling
  <2>2. CASE c # d
    <3>1. \A l \in SignIn!Calling(c) : req'[l] = req[l]
      BY <1>0, <1>3, <2>2 DEF SignIn!Calling
    <3>2. rung'[c] = rung[c]
      BY <1>1, <2>2 DEF SignInInv, SignIn!TypeOK
    <3> QED
      BY <1>1, <2>1, <3>1, <3>2 DEF SignInInv, CountInv
  <2>3. CASE c = d /\ d \notin lapped
    <3>1. \A l \in SignIn!Calling(d) : l = k
      BY <2>1, <2>3 DEF SignInInv, CountInv
    <3>2. rung'[d] = rung[d] + 1 /\ rung[d] \in Nat /\ req[k].seen \in Nat
      BY <1>1 DEF SignInInv, SignIn!TypeOK
    <3>3. rung[d] <= req[k].seen
      BY <1>1, <2>1, <2>3 DEF SignInInv, CountInv
    <3> QED
      BY <1>1, <1>3, <2>1, <2>3, <3>1, <3>2, <3>3 DEF CountInv
  <2>4. CASE c = d /\ d \in lapped
    BY <1>1, <2>4 DEF CountInv
  <2> QED BY <2>2, <2>3, <2>4
<1>6. ASSUME NEW c \in Scooters PROVE SessionInv(c)'
  BY <1>1, <1>2 DEF SignInInv, SessionInv, SignIn!NoSession
<1> QED
  BY <1>1, <1>3, <1>4, <1>5, <1>6, NoAccountStep DEF SignInInv

\* A call that failed, rung or not: the session is as it was.
LEMMA AskFailStep ==
  ASSUME SignInInv, SignIn!TypeOK', NEW k \in Requests, SignIn!AskFail(k)
  PROVE  SignInInv'
<1>0. PICK d \in Scooters : d = req[k].device
  BY DEF SignIn!AskFail, SignIn!Return, SignInInv, CallInv
<1>1. UNCHANGED <<session, phone, email, typed, rung, lapped, raced>>
  BY DEF SignIn!AskFail, SignIn!userVars
<1>6. /\ Len(calls) \in Nat /\ Len(calls') \in Nat /\ Len(calls) <= Len(calls')
      /\ \A i \in 1 .. Len(calls) : i \in 1 .. Len(calls') /\ calls'[i] = calls[i]
  <2>1. req[k].what \in Trips /\ calls \in Seq(Trips)
    BY DEF SignIn!AskFail, SignIn!Return, SignInInv, CallInv, SignIn!TypeOK
  <2>2. calls' = calls \/ calls' = Append(calls, req[k].what)
    BY DEF SignIn!AskFail
  <2> QED
    BY <2>1, <2>2
<1>2. /\ req[k].pc = "calling" /\ req'[k].pc = "idle"
      /\ \A l \in Requests \ {k} : req'[l] = req[l]
  BY SignInReturn DEF SignIn!AskFail, SignInInv
<1>3. ASSUME NEW l \in Requests PROVE CallInv(l)'
  BY <1>1, <1>2, <1>6 DEF SignInInv, CallInv
<1>4. ASSUME NEW c \in Scooters PROVE CountInv(c)'
  <2>1. SignIn!Calling(c)' = SignIn!Calling(c) \ {k}
    BY <1>2 DEF SignIn!Calling
  <2>2. \A l \in SignIn!Calling(c)' : l \in Requests /\ l # k /\ req'[l] = req[l]
    BY <1>2 DEF SignIn!Calling
  <2>3. CASE c \notin lapped
    BY <1>1, <1>2, <2>1, <2>2, <2>3 DEF SignInInv, CountInv
  <2> QED BY <1>1, <2>3 DEF CountInv
<1>5. ASSUME NEW c \in Scooters PROVE SessionInv(c)'
  BY <1>1, <1>6 DEF SignInInv, SessionInv, SignIn!NoSession
<1> QED
  BY <1>1, <1>2, <1>3, <1>4, <1>5, NoAccountStep DEF SignInInv

\* The session is written: the code and the phone of one call, and its count.
LEMMA AskStoreStep ==
  ASSUME SignInInv, SignIn!TypeOK', NEW k \in Requests, SignIn!AskStore(k)
  PROVE  SignInInv'
<1>0. PICK d \in Scooters : d = req[k].device
  BY DEF SignIn!AskStore, SignIn!Return, SignInInv, CallInv
<1>1. /\ UNCHANGED <<calls, phone, email, typed, rung, lapped, raced>>
      /\ session' = [session EXCEPT ![d] =
           [phone |-> req[k].what, code |-> req[k].code, count |-> req[k].seen + 1]]
  BY <1>0 DEF SignIn!AskStore, SignIn!userVars
<1>2. /\ req[k].pc = "called" /\ req'[k].pc = "idle"
      /\ \A l \in Requests \ {k} : req'[l] = req[l]
  BY SignInReturn DEF SignIn!AskStore, SignInInv
<1>3. /\ session'[d].phone = req[k].what /\ session'[d].code = req[k].code
      /\ session'[d].count = req[k].seen + 1
      /\ \A c \in Scooters \ {d} : session'[c] = session[c]
  BY <1>1 DEF SignInInv, SignIn!TypeOK
<1>4. ASSUME NEW l \in Requests PROVE CallInv(l)'
  BY <1>1, <1>2 DEF SignInInv, CallInv
<1>5. ASSUME NEW c \in Scooters PROVE CountInv(c)'
  <2>1. SignIn!Calling(c)' = SignIn!Calling(c) \ {k} /\ k \in SignIn!Calling(d)
    BY <1>0, <1>2 DEF SignIn!Calling
  <2>2. \A l \in SignIn!Calling(c)' : l \in Requests /\ l # k /\ req'[l] = req[l]
    BY <1>2 DEF SignIn!Calling
  <2>3. CASE c # d
    <3>1. k \notin SignIn!Calling(c)
      BY <1>0, <2>3 DEF SignIn!Calling
    <3>2. SignIn!Calling(c)' = SignIn!Calling(c)
      BY <2>1, <3>1
    <3> QED
      BY <1>1, <1>3, <2>2, <2>3, <3>2 DEF SignInInv, CountInv
  <2>4. CASE c = d /\ d \notin lapped
    <3>1. SignIn!Calling(d)' = {} /\ rung[d] <= req[k].seen + 1
      BY <1>2, <2>1, <2>4 DEF SignInInv, CountInv
    <3> QED
      BY <1>1, <1>3, <2>4, <3>1 DEF CountInv
  <2> QED BY <1>1, <2>3, <2>4 DEF CountInv
<1>6. ASSUME NEW c \in Scooters PROVE SessionInv(c)'
  BY <1>1, <1>2, <1>3 DEF SignInInv, SessionInv, CallInv, SignIn!NoSession
<1> QED
  BY <1>1, <1>2, <1>4, <1>5, <1>6, NoAccountStep DEF SignInInv

\* The cache forgets: what the session cost is forgotten with it.
LEMMA ExpireStep ==
  ASSUME SignInInv, SignIn!TypeOK', NEW d \in Scooters, SignIn!Expire(d)
  PROVE  SignInInv'
<1>1. /\ UNCHANGED <<req, calls, phone, email, typed, raced>>
      /\ session' = [session EXCEPT ![d] = SignIn!NoSession] /\ rung' = [rung EXCEPT ![d] = 0]
      /\ lapped' = IF \E k, l \in SignIn!Calling(d) : k # l THEN lapped ELSE lapped \ {d}
  BY DEF SignIn!Expire, SignIn!userVars
<1>2. /\ session'[d] = SignIn!NoSession /\ rung'[d] = 0
      /\ \A c \in Scooters \ {d} : session'[c] = session[c] /\ rung'[c] = rung[c]
  BY <1>1 DEF SignInInv, SignIn!TypeOK
<1>3. \A k \in Requests : CallInv(k)'
  BY <1>1 DEF SignInInv, CallInv
<1>4. ASSUME NEW c \in Scooters PROVE CountInv(c)'
  <2>1. SignIn!Calling(c)' = SignIn!Calling(c)
    BY <1>1 DEF SignIn!Calling
  <2>2. CASE c # d
    BY <1>1, <1>2, <2>1, <2>2 DEF SignInInv, CountInv
  <2>3. CASE c = d /\ d \notin lapped'
    <3>1. \A k, l \in SignIn!Calling(d) : k = l
      BY <1>1, <2>3 DEF SignInInv, CountInv
    <3>2. \A k \in SignIn!Calling(d) : req[k].seen \in Nat
      BY DEF SignInInv, SignIn!TypeOK, SignIn!Calling
    <3>3. session'[d].count = 0
      BY <1>2 DEF SignIn!NoSession
    <3> QED
      BY <1>1, <1>2, <2>1, <2>3, <3>1, <3>2, <3>3 DEF CountInv
  <2> QED BY <2>2, <2>3 DEF CountInv
<1>5. ASSUME NEW c \in Scooters PROVE SessionInv(c)'
  BY <1>1, <1>2 DEF SignInInv, SessionInv, SignIn!NoSession
<1>6. (\A p \in Trips : PhoneInv(p)') /\ (\A e \in Emails : EmailInv(e)')
  BY <1>1 DEF SignInInv, PhoneInv, EmailInv, SignIn!OwnerOf, SignIn!HolderOf
<1> QED
  BY <1>3, <1>4, <1>5, <1>6 DEF SignInInv

\* confirmMobileAuth, up to the phone it reads.
LEMMA ConfirmStep ==
  ASSUME SignInInv, SignIn!TypeOK', NEW k \in Requests,
         \/ \E d \in Scooters, c \in 1 .. MaxCalls : SignIn!Confirm(k, d, c)
         \/ \E p \in Trips : SignIn!AuthorizeTest(k, p)
  PROVE  SignInInv'
<1>1. UNCHANGED <<session, calls, phone, email, typed, rung, lapped, raced>>
  BY DEF SignIn!Confirm, SignIn!AuthorizeTest, SignIn!userVars
<1>2. /\ req[k].pc = "idle" /\ req'[k].pc = "confirmed" /\ req'[k].what \in Trips
      /\ \A l \in Requests \ {k} : req'[l] = req[l]
  <2>1. CASE \E d \in Scooters, c \in 1 .. MaxCalls : SignIn!Confirm(k, d, c)
    <3>1. PICK d \in Scooters, c \in 1 .. MaxCalls : SignIn!Confirm(k, d, c)
      BY <2>1
    <3>2. session[d].phone \in Trips
      BY <3>1 DEF SignIn!Confirm, SignInInv, SessionInv
    <3>3. req[k].pc = "idle" /\ \A l \in Requests \ {k} : req'[l] = req[l]
      BY <3>1, SignInBegin DEF SignIn!Confirm, SignInInv
    <3>4. req'[k] = [SignIn!Idle EXCEPT !.pc = "confirmed", !.device = d,
                                        !.what = session[d].phone]
      BY <3>1, SignInBegin DEF SignIn!Confirm, SignInInv
    <3>5. req'[k].pc = "confirmed" /\ req'[k].what = session[d].phone
      BY <3>4 DEF SignIn!Idle
    <3> QED
      BY <3>2, <3>3, <3>5
  <2>2. CASE \E p \in Trips : SignIn!AuthorizeTest(k, p)
    <3>1. PICK p \in Trips : SignIn!AuthorizeTest(k, p)
      BY <2>2
    <3>2. req[k].pc = "idle" /\ \A l \in Requests \ {k} : req'[l] = req[l]
      BY <3>1, SignInBegin DEF SignIn!AuthorizeTest, SignInInv
    <3>3. req'[k] = [SignIn!Idle EXCEPT !.pc = "confirmed", !.what = p]
      BY <3>1, SignInBegin DEF SignIn!AuthorizeTest, SignInInv
    <3>4. req'[k].pc = "confirmed" /\ req'[k].what = p
      BY <3>3 DEF SignIn!Idle
    <3> QED
      BY <3>2, <3>4
  <2> QED
    BY <2>1, <2>2
<1>3. \A l \in Requests : CallInv(l)'
  BY <1>1, <1>2, NoCallStep DEF CallInv
<1> QED
  BY <1>1, <1>2, <1>3, NoCallStep, NoAccountStep DEF SignInInv

\* The search: whoever goes on to create found nobody.
LEMMA FindUserStep ==
  ASSUME SignInInv, SignIn!TypeOK', NEW k \in Requests, SignIn!FindUser(k)
  PROVE  SignInInv'
<1>1. UNCHANGED <<session, calls, phone, email, typed, rung, lapped, raced>>
  BY DEF SignIn!FindUser, SignIn!userVars
<1>2. /\ req[k].pc = "confirmed" /\ \A l \in Requests \ {k} : req'[l] = req[l]
      /\ \/ req'[k].pc = "idle"
         \/ /\ req'[k].pc = "creating" /\ req'[k].what = req[k].what
            /\ SignIn!OwnerOf(req[k].what) = {}
  <2>1. CASE SignIn!Return(k, "confirmed")
    BY <2>1, SignInReturn DEF SignInInv
  <2>2. CASE SignIn!Goto(k, "confirmed", "creating") /\ SignIn!OwnerOf(req[k].what) = {}
    BY <2>2 DEF SignIn!Goto, SignInInv, SignIn!TypeOK
  <2> QED
    BY <2>1, <2>2 DEF SignIn!FindUser
<1>3. \A l \in Requests : CallInv(l)'
  <2>1. CallInv(k)'
    BY <1>1, <1>2 DEF CallInv, SignInInv
  <2> QED
    BY <1>1, <1>2, <2>1, NoCallStep
<1>4. ASSUME NEW p \in Trips PROVE PhoneInv(p)'
  BY <1>1, <1>2 DEF SignInInv, PhoneInv, SignIn!OwnerOf
<1>5. ASSUME NEW e \in Emails PROVE EmailInv(e)'
  BY <1>1, <1>2 DEF SignInInv, EmailInv, SignIn!HolderOf
<1> QED
  BY <1>1, <1>2, <1>3, <1>4, <1>5, NoCallStep DEF SignInInv

\* The row of a new user: the only one of its phone, unless another create is
\* on the phone, and then the phone is raced.
LEMMA CreateUserStep ==
  ASSUME SignInInv, SignIn!TypeOK', NEW k \in Requests, SignIn!CreateUser(k)
  PROVE  SignInInv'
<1>0. PICK p \in Trips : p = req[k].what
  BY DEF SignIn!CreateUser, SignIn!Return, SignInInv, CallInv
<1>1. /\ UNCHANGED <<session, calls, email, typed, rung, lapped>>
      /\ raced' = IF SignIn!Beside(k, "creating") THEN raced \cup {p} ELSE raced
  BY <1>0 DEF SignIn!CreateUser
<1>2. PICK u \in Finishes : phone[u] = NoTrip /\ phone' = [phone EXCEPT ![u] = p]
  BY <1>0 DEF SignIn!CreateUser, SignIn!Created
<1>3. /\ req[k].pc = "creating" /\ req'[k].pc = "idle"
      /\ \A l \in Requests \ {k} : req'[l] = req[l]
  BY SignInReturn DEF SignIn!CreateUser, SignInInv
<1>4. \A l \in Requests : CallInv(l)'
  BY <1>1, <1>3, NoCallStep DEF CallInv
<1>5. \A q \in Trips : SignIn!OwnerOf(q)'
        = IF q = p THEN SignIn!OwnerOf(q) \cup {u} ELSE SignIn!OwnerOf(q)
  BY <1>1, <1>2, MCRentalAssumption
     DEF SignIn!OwnerOf, SignInInv, SignIn!TypeOK, SignIn!MobileAuthAssumption
<1>6. ASSUME NEW q \in Trips PROVE PhoneInv(q)'
  <2>1. CASE q # p
    BY <1>1, <1>3, <1>5, <2>1 DEF SignInInv, PhoneInv
  <2>2. CASE q = p /\ p \notin raced' \cup typed'
    <3>1. SignIn!OwnerOf(p) = {} /\ ~SignIn!Beside(k, "creating")
      BY <1>0, <1>1, <1>3, <2>2 DEF SignInInv, PhoneInv
    <3>2. \A l \in Requests : req'[l].pc = "creating" => req'[l].what # p
      BY <1>0, <1>3, <3>1 DEF SignIn!Beside
    <3> QED
      BY <1>5, <2>2, <3>1, <3>2 DEF PhoneInv
  <2> QED BY <2>1, <2>2 DEF PhoneInv
<1>7. ASSUME NEW e \in Emails PROVE EmailInv(e)'
  BY <1>1, <1>3 DEF SignInInv, EmailInv, SignIn!HolderOf
<1> QED
  BY <1>1, <1>3, <1>4, <1>6, <1>7, NoCallStep DEF SignInInv

\* A create that failed.
LEMMA CreateFailStep ==
  ASSUME SignInInv, SignIn!TypeOK', NEW k \in Requests, SignIn!CreateFail(k)
  PROVE  SignInInv'
<1>1. UNCHANGED <<session, calls, phone, email, typed, rung, lapped, raced>>
  BY DEF SignIn!CreateFail, SignIn!userVars
<1>2. /\ req[k].pc = "creating" /\ req'[k].pc = "idle"
      /\ \A l \in Requests \ {k} : req'[l] = req[l]
  BY SignInReturn DEF SignIn!CreateFail, SignInInv
<1>3. \A l \in Requests : CallInv(l)'
  BY <1>1, <1>2, NoCallStep DEF CallInv
<1> QED
  BY <1>1, <1>2, <1>3, NoCallStep, NoAccountStep DEF SignInInv

\* update, up to the address that was free.
LEMMA ProfileCheckStep ==
  ASSUME SignInInv, SignIn!TypeOK', NEW k \in Requests, NEW u \in Finishes,
         NEW e \in Emails \cup {NoTrip}, NEW n \in Trips \cup {NoTrip},
         SignIn!ProfileCheck(k, u, e, n)
  PROVE  SignInInv'
<1>1. UNCHANGED <<session, calls, phone, email, typed, rung, lapped, raced>>
      /\ (e # NoTrip => SignIn!HolderOf(e) = {})
  BY DEF SignIn!ProfileCheck, SignIn!userVars
<1>2. (\A l \in Requests \ {k} : req'[l] = req[l]) /\ req[k].pc = "idle"
  BY SignInBegin DEF SignIn!ProfileCheck, SignInInv
<1>3. req'[k].pc = "checked" /\ req'[k].user = u /\ req'[k].what = e
  <2>1. req'[k] = [SignIn!Idle EXCEPT !.pc = "checked", !.user = u, !.what = e, !.number = n]
    BY SignInBegin DEF SignIn!ProfileCheck, SignInInv
  <2> QED
    BY <2>1 DEF SignIn!Idle
<1>4. \A l \in Requests : CallInv(l)'
  BY <1>1, <1>2, <1>3, NoCallStep DEF CallInv
<1>5. ASSUME NEW p \in Trips PROVE PhoneInv(p)'
  BY <1>1, <1>2, <1>3 DEF SignInInv, PhoneInv, SignIn!OwnerOf
<1>6. ASSUME NEW x \in Emails PROVE EmailInv(x)'
  <2>1. x # NoTrip
    BY MCRentalAssumption DEF SignIn!MobileAuthAssumption
  <2> QED
    BY <1>1, <1>2, <1>3, <2>1 DEF SignInInv, EmailInv, SignIn!HolderOf
<1> QED
  BY <1>1, <1>2, <1>3, <1>4, <1>5, <1>6, NoCallStep DEF SignInInv

\* The form is written: the holder of its address is the only one, unless another
\* form found the address free too, and then it is raced; its phone is typed.
LEMMA ProfileWriteStep ==
  ASSUME SignInInv, SignIn!TypeOK', NEW k \in Requests, SignIn!ProfileWrite(k)
  PROVE  SignInInv'
<1>0. PICK e \in Emails \cup {NoTrip}, u \in Finishes, n \in Trips \cup {NoTrip} :
        e = req[k].what /\ u = req[k].user /\ n = req[k].number
  BY DEF SignIn!ProfileWrite, SignIn!Return, SignInInv, CallInv, SignIn!TypeOK
<1>1. /\ UNCHANGED <<session, calls, rung, lapped>>
      /\ email' = IF e # NoTrip THEN [email EXCEPT ![u] = e] ELSE email
      /\ phone' = IF n # NoTrip THEN [phone EXCEPT ![u] = n] ELSE phone
      /\ typed' = typed \cup ({n} \ {NoTrip})
      /\ raced' = IF e # NoTrip /\ SignIn!Beside(k, "checked") THEN raced \cup {e} ELSE raced
  BY <1>0 DEF SignIn!ProfileWrite
<1>2. /\ req[k].pc = "checked" /\ req'[k].pc = "idle"
      /\ \A l \in Requests \ {k} : req'[l] = req[l]
  BY SignInReturn DEF SignIn!ProfileWrite, SignInInv
<1>3. \A l \in Requests : CallInv(l)'
  BY <1>1, <1>2, NoCallStep DEF CallInv
<1>4. \A x \in Emails : SignIn!HolderOf(x)' \subseteq
        IF x = e THEN SignIn!HolderOf(x) \cup {u} ELSE SignIn!HolderOf(x)
  BY <1>1 DEF SignIn!HolderOf, SignInInv, SignIn!TypeOK
<1>5. ASSUME NEW x \in Emails PROVE EmailInv(x)'
  <2>0. x # NoTrip
    BY MCRentalAssumption DEF SignIn!MobileAuthAssumption
  <2>1. CASE x # e
    BY <1>1, <1>2, <1>4, <2>1 DEF SignInInv, EmailInv
  <2>2. CASE x = e /\ e \notin raced'
    <3>1. SignIn!HolderOf(e) = {} /\ ~SignIn!Beside(k, "checked")
      BY <1>0, <1>1, <1>2, <2>0, <2>2 DEF SignInInv, EmailInv
    <3>2. \A l \in Requests : req'[l].pc = "checked" => req'[l].what # e
      BY <1>0, <1>2, <3>1 DEF SignIn!Beside
    <3> QED
      BY <1>4, <2>2, <3>1, <3>2 DEF EmailInv
  <2> QED BY <2>1, <2>2 DEF EmailInv
<1>6. ASSUME NEW p \in Trips PROVE PhoneInv(p)'
  <2>1. CASE p \in raced' \cup typed'
    BY <2>1 DEF PhoneInv
  <2>2. CASE p \notin raced' \cup typed'
    <3>1. p # n /\ p \notin raced \cup typed
      BY <1>1, <2>2, MCRentalAssumption DEF SignIn!MobileAuthAssumption
    <3>2. SignIn!OwnerOf(p)' \subseteq SignIn!OwnerOf(p)
      BY <1>1, <3>1 DEF SignIn!OwnerOf, SignInInv, SignIn!TypeOK
    <3> QED
      BY <1>2, <3>1, <3>2 DEF SignInInv, PhoneInv
  <2> QED BY <2>1, <2>2
<1> QED
  BY <1>1, <1>2, <1>3, <1>5, <1>6, NoCallStep DEF SignInInv

\* A form that was not written.
LEMMA ProfileFailStep ==
  ASSUME SignInInv, SignIn!TypeOK', NEW k \in Requests, SignIn!ProfileFail(k)
  PROVE  SignInInv'
<1>1. UNCHANGED <<session, calls, phone, email, typed, rung, lapped, raced>>
  BY DEF SignIn!ProfileFail, SignIn!userVars
<1>2. /\ req[k].pc = "checked" /\ req'[k].pc = "idle"
      /\ \A l \in Requests \ {k} : req'[l] = req[l]
  BY SignInReturn DEF SignIn!ProfileFail, SignInInv
<1>3. \A l \in Requests : CallInv(l)'
  BY <1>1, <1>2, NoCallStep DEF CallInv
<1> QED
  BY <1>1, <1>2, <1>3, NoCallStep, NoAccountStep DEF SignInInv

\* A deleted account leaves its phone free, and a removed row its address too.
LEMMA DeleteStep ==
  ASSUME SignInInv, SignIn!TypeOK', NEW u \in Finishes,
         SignIn!DeleteUserAccount(u) \/ SignIn!RemoveUser(u)
  PROVE  SignInInv'
<1>1. /\ UNCHANGED <<session, req, calls, typed, rung, lapped, raced>>
      /\ phone' = [phone EXCEPT ![u] = NoScooter] \/ phone' = [phone EXCEPT ![u] = NoTrip]
      /\ email' = email \/ email' = [email EXCEPT ![u] = NoTrip]
  BY DEF SignIn!DeleteUserAccount, SignIn!RemoveUser
<1>2. \A d \in Scooters : SignIn!Calling(d)' = SignIn!Calling(d)
  BY <1>1 DEF SignIn!Calling
<1>3. (\A l \in Requests : CallInv(l)') /\ \A d \in Scooters : SessionInv(d)' /\ CountInv(d)'
  BY <1>1, <1>2 DEF SignInInv, CallInv, SessionInv, CountInv, SignIn!NoSession
<1>4. /\ \A p \in Trips : SignIn!OwnerOf(p)' \subseteq SignIn!OwnerOf(p)
      /\ \A e \in Emails : SignIn!HolderOf(e)' \subseteq SignIn!HolderOf(e)
  BY <1>1, MCRentalAssumption
     DEF SignIn!OwnerOf, SignIn!HolderOf, SignInInv, SignIn!TypeOK, SignIn!MobileAuthAssumption
<1>5. (\A p \in Trips : PhoneInv(p)') /\ (\A e \in Emails : EmailInv(e)')
  BY <1>1, <1>4 DEF SignInInv, PhoneInv, EmailInv
<1> QED
  BY <1>3, <1>5 DEF SignInInv

LEMMA SignInInit == SignIn!Init => SignInInv
<1> SUFFICES ASSUME SignIn!Init PROVE SignInInv
  OBVIOUS
<1>1. SignIn!TypeOK
  BY MCRentalAssumption
     DEF SignIn!Init, SignIn!TypeOK, SignIn!NoSession, SignIn!Idle, SignIn!Pcs,
         SignIn!MaxRequests, SignIn!MobileAuthAssumption
<1>2. \A k \in Requests : req[k].pc = "idle"
  BY DEF SignIn!Init, SignIn!Idle
<1>3. \A d \in Scooters : SignIn!Calling(d) = {} /\ session[d] = SignIn!NoSession /\ rung[d] = 0
  BY <1>2 DEF SignIn!Init, SignIn!Calling
<1>4. SignIn!NoSession.count = 0
  BY DEF SignIn!NoSession
<1>5. (\A p \in Trips : SignIn!OwnerOf(p) = {}) /\ \A e \in Emails : SignIn!HolderOf(e) = {}
  BY MCRentalAssumption
     DEF SignIn!Init, SignIn!OwnerOf, SignIn!HolderOf, SignIn!MobileAuthAssumption
<1> QED
  BY <1>1, <1>2, <1>3, <1>4, <1>5 DEF SignInInv, CallInv, SessionInv, CountInv, PhoneInv, EmailInv

LEMMA SignInStep == SignInInv /\ [SignIn!Next]_(SignIn!vars) => SignInInv'
<1> SUFFICES ASSUME SignInInv, [SignIn!Next]_(SignIn!vars) PROVE SignInInv'
  OBVIOUS
<1>1. CASE UNCHANGED SignIn!vars
  BY <1>1 DEF SignIn!vars, SignIn!userVars, SignInInv, CallInv, SessionInv, CountInv,
       PhoneInv, EmailInv, SignIn!TypeOK, SignIn!NoSession, SignIn!Calling, SignIn!OwnerOf,
       SignIn!HolderOf
<1>2. CASE SignIn!Next
  <2>1. SignIn!TypeOK'
    BY <1>2, SignInTypeStep DEF SignInInv
  <2>2. ASSUME NEW k \in Requests, SignIn!RequestNext(k) PROVE SignInInv'
    BY <2>1, <2>2, AskReadStep, ConfirmStep, ProfileCheckStep, AskCallStep, AskFailStep,
       AskStoreStep, FindUserStep, CreateUserStep, CreateFailStep, ProfileWriteStep,
       ProfileFailStep
       DEF SignIn!RequestNext
  <2> QED
    BY <1>2, <2>1, <2>2, ExpireStep, DeleteStep DEF SignIn!Next
<1> QED
  BY <1>1, <1>2

\* A behaviour of the composition is one of MobileAuth, whatever its part.
LEMMA RunsSignIn == RunSpec => SignIn!Spec
<1>1. RunInit => SignIn!Init
  BY DEF RunInit
<1>2. [RunNext]_<<part, vars, mobileVars, registryVars>> => [SignIn!Next]_(SignIn!vars)
  BY DEF RunNext, mobileVars, SignIn!vars, SignIn!userVars
<1> QED
  BY <1>1, <1>2, PTL DEF RunSpec, SignIn!Spec

\* And one of TripProcess.
LEMMA RunsRides == RunSpec => Spec
<1>1. RunInit => Init
  BY DEF RunInit
<1>2. [RunNext]_<<part, vars, mobileVars, registryVars>> => [Next]_vars
  BY DEF RunNext
<1> QED
  BY <1>1, <1>2, PTL DEF RunSpec, Spec

\* What signing in and the profile keep for any number of devices, phones and
\* handlers under way, with sessions that expire at any time.
THEOREM SignInInductive == SignIn!Spec => []SignInInv
  BY SignInInit, SignInStep, PTL DEF SignIn!Spec

\* A session's code was dictated to its phone; a session whose requests did not
\* overlap gets three codes and no more, calls without an answer not counted.
THEOREM SessionsAreSound == RunSpec => []SessionsHold
<1>1. SignInInv => SignIn!CodeOfItsPhone
  BY DEF SignInInv, SessionInv, SignIn!CodeOfItsPhone
<1>2. ASSUME SignInInv PROVE SignIn!ThreeCalls
  <2> SUFFICES ASSUME NEW d \in Scooters \ lapped PROVE rung[d] <= 3
    BY DEF SignIn!ThreeCalls, SignIn!MaxRequests
  <2>1. rung[d] \in Nat /\ session[d].count \in 0 .. 3
    BY <1>2 DEF SignInInv, SignIn!TypeOK, SignIn!MaxRequests
  <2>2. \A k \in SignIn!Calling(d) : req[k].seen \in 0 .. 3 /\ req[k].seen < 3
    BY <1>2 DEF SignInInv, SignIn!TypeOK, SignIn!MaxRequests, SignIn!Calling, CallInv
  <2>3. \A k \in SignIn!Calling(d) : rung[d] <= req[k].seen + 1 \/ rung[d] <= req[k].seen
    BY <1>2 DEF SignInInv, CountInv
  <2>4. SignIn!Calling(d) = {} => rung[d] <= session[d].count
    BY <1>2 DEF SignInInv, CountInv
  <2> QED
    BY <2>1, <2>2, <2>3, <2>4
<1>3. SignInInv => SessionsHold
  BY <1>1, <1>2 DEF SessionsHold
<1> QED
  BY <1>3, RunsSignIn, SignInInductive, PTL

\* A phone has one account and an address one user, unless two handlers looked
\* for it side by side or a profile form wrote that phone.
THEOREM AccountsAreOne == RunSpec => []OneAccount
<1>1. SignInInv => OneAccount
  BY DEF SignInInv, PhoneInv, EmailInv, OneAccount, SignIn!OneAccount
<1> QED
  BY <1>1, RunsSignIn, SignInInductive, PTL

\* The types of the three systems, and the rows their sessions and handlers
\* refer to.
THEOREM RentalTypesCorrect == RunSpec => []TypesOK
<1>1. TypeOK /\ SignInInv /\ RegistryInv => TypesOK
  BY DEF TypesOK, SignInInv, RegistryInv
<1> QED
  BY <1>1, RunsRides, TypeCorrect, RunsSignIn, SignInInductive, RunsRegistry,
     RegistryInductive, PTL
=============================================================================
