------------------------- MODULE TripMonitorProofs -------------------------
(***************************************************************************)
(* What holds of the monitoring of trips for any set of trips, calls and   *)
(* overlapping runs of the background job, and what TripZones says for     *)
(* every table, day and place: its types, the status of a place and the    *)
(* interval of a schedule.                                                 *)
(***************************************************************************)
EXTENDS MCTripMonitor, SequenceTheorems, WellFoundedInduction, TLAPS

USE DEF vars, tripVars

(***************************************************************************)
(* The inductive invariant: a record is coherent in Redis and in every     *)
(* copy, but for the two steps in which a run of the job has the new       *)
(* status of the zones and not yet the engine's.                           *)
(***************************************************************************)
Coherent(r) == PauseCoherent(r) /\ EngineCoherent(r)

CallInv(c) ==
  IF call[c].pc \in {"idle", "done"}
  THEN call[c].trip = NoTrip
  ELSE /\ call[c].trip \in Trips
       /\ call[c].copy # NoRecord
       /\ Coherent(call[c].copy)

JobInv(j) ==
  IF job[j].pc \in {"idle", "next"}
  THEN job[j].trip = NoTrip
  ELSE /\ job[j].trip \in Trips
       /\ job[j].copy # NoRecord
       /\ PauseCoherent(job[j].copy)
       /\ job[j].pc # "engine" => EngineCoherent(job[j].copy)

IInv ==
  /\ TypeOK
  /\ RecordCoherent
  /\ \A c \in Calls : CallInv(c)
  /\ \A j \in Jobs : JobInv(j)

(***************************************************************************)
(* Lemmas about the list of pauses.                                        *)
(***************************************************************************)
Intervals == Seq({"open", "closed"})

LEMMA PushedIsOpen ==
  ASSUME NEW s \in Intervals
  PROVE  Append(s, "open") \in Intervals /\ LastIsOpen(Append(s, "open"))
  BY DEF Intervals, LastIsOpen

LEMMA ClosedIsNotOpen ==
  ASSUME NEW s \in Intervals, s # <<>>
  PROVE  LET r == [s EXCEPT ![Len(s)] = "closed"] IN
         r \in Intervals /\ ~LastIsOpen(r)
<1> DEFINE r == [s EXCEPT ![Len(s)] = "closed"]
<1>1. Len(s) \in 1..Len(s)
  BY DEF Intervals
<1>2. r \in Intervals /\ Len(r) = Len(s) /\ r[Len(s)] = "closed"
  BY <1>1 DEF Intervals
<1> QED
  BY <1>2 DEF LastIsOpen

LEMMA NewPause ==
  ASSUME NEW r \in Records
  PROVE  /\ Paused(r) \in Records
         /\ PauseCoherent(Paused(r))
         /\ EngineCoherent(r) => EngineCoherent(Paused(r))
<1> DEFINE n == Paused(r)
<1>1. r.pauseIntervals \in Intervals
  BY DEF Records, Intervals
<1>2. n.pauseIntervals = Append(r.pauseIntervals, "open") /\ n.paused = TRUE
      /\ n.engineStatus = r.engineStatus /\ n.geofencingStatus = r.geofencingStatus
  BY DEF Records, Paused
<1>3. n.pauseIntervals \in Intervals /\ LastIsOpen(n.pauseIntervals)
  BY <1>1, <1>2, PushedIsOpen
<1>4. n \in Records
  BY <1>3 DEF Records, Paused, Intervals
<1> QED
  BY <1>2, <1>3, <1>4 DEF PauseCoherent, EngineCoherent

LEMMA EndedPause ==
  ASSUME NEW r \in Records, r.pauseIntervals # <<>>
  PROVE  /\ Resumed(r) \in Records
         /\ PauseCoherent(Resumed(r))
         /\ EngineCoherent(r) => EngineCoherent(Resumed(r))
<1> DEFINE s == r.pauseIntervals
           n == Resumed(r)
<1>1. s \in Intervals
  BY DEF Records, Intervals
<1>2. n.pauseIntervals = [s EXCEPT ![Len(s)] = "closed"] /\ n.paused = FALSE
      /\ n.engineStatus = r.engineStatus /\ n.geofencingStatus = r.geofencingStatus
  BY DEF Records, Resumed
<1>3. n.pauseIntervals \in Intervals /\ ~LastIsOpen(n.pauseIntervals)
  BY <1>1, <1>2, ClosedIsNotOpen
<1>4. n \in Records
  BY <1>3 DEF Records, Resumed, Intervals
<1> QED
  BY <1>2, <1>3, <1>4 DEF PauseCoherent, EngineCoherent

LEMMA FreshIsCoherent == FreshRecord \in Records /\ Coherent(FreshRecord)
  BY TripMonitorAssumption
     DEF FreshRecord, Records, Coherent, PauseCoherent, EngineCoherent, LastIsOpen

LEMMA InitIInv == Init => IInv
<1> SUFFICES ASSUME Init PROVE IInv
  OBVIOUS
<1>1. TypeOK
  BY FreshIsCoherent DEF Init, TypeOK, Resting, Holders, CallPcs, JobPcs
<1>2. RecordCoherent
  BY FreshIsCoherent DEF Init, RecordCoherent, Coherent
<1>3. \A c \in Calls : CallInv(c)
  BY DEF Init, CallInv, Resting
<1>4. \A j \in Jobs : JobInv(j)
  BY DEF Init, JobInv, Resting
<1> QED
  BY <1>1, <1>2, <1>3, <1>4 DEF IInv

(***************************************************************************)
(* Steps.  A step of a call touches its own entry of call, the entry in    *)
(* Redis of its trip, or the trip's engine; likewise for a run of the job. *)
(***************************************************************************)
LEMMA CallStep ==
  ASSUME IInv, NEW c \in Calls, CallNext(c)
  PROVE  IInv'
<1> USE DEF IInv
<1> SUFFICES /\ TypeOK' /\ RecordCoherent' /\ CallInv(c)'
             /\ job' = job /\ \A d \in Calls : d # c => call'[d] = call[d]
  BY DEF CallInv, JobInv
<1>1. ASSUME NEW t \in Trips, PauseRead(c, t) \/ ResumeRead(c, t)
      PROVE /\ TypeOK' /\ RecordCoherent' /\ CallInv(c)'
            /\ job' = job /\ \A d \in Calls : d # c => call'[d] = call[d]
  <2>1. PICK pc \in {"pausing", "resuming"} : CallRead(c, t, pc)
    BY <1>1 DEF PauseRead, ResumeRead
  <2>2. call'[c] = [pc |-> pc, trip |-> t, copy |-> cache[t]]
    BY <2>1 DEF CallRead, TypeOK
  <2> QED
    BY <2>1, <2>2
       DEF CallRead, TypeOK, Holders, CallPcs, RecordCoherent, CallInv, Coherent
<1>2. CASE PauseCommand(c)
  <2> DEFINE t == call[c].trip
             r == call[c].copy
  <2>1. call[c].pc = "pausing" /\ t \in Trips /\ r \in Records /\ Coherent(r)
    BY <1>2 DEF PauseCommand, CallInv, TypeOK, Holders
  <2>2. CASE /\ engine' = [engine EXCEPT ![t] = "off"]
             /\ call' = [call EXCEPT ![c].pc = "pauseWrite", ![c].copy = Paused(@)]
    <3>1. Paused(r) \in Records /\ Coherent(Paused(r))
      BY <2>1, NewPause DEF Coherent
    <3>2. call'[c] = [pc |-> "pauseWrite", trip |-> t, copy |-> Paused(r)]
          /\ call' = [call EXCEPT ![c] = call'[c]]
      BY <2>2 DEF TypeOK, Holders
    <3>3. TypeOK' /\ RecordCoherent'
      BY <1>2, <2>1, <2>2, <3>1, <3>2
         DEF PauseCommand, TypeOK, Holders, CallPcs, RecordCoherent
    <3>4. CallInv(c)'
      BY <2>1, <3>1, <3>2, TripMonitorAssumption DEF CallInv
    <3> QED
      BY <1>2, <3>2, <3>3, <3>4 DEF PauseCommand, TypeOK
  <2>3. CASE engine' \in Sent(engine, t, "off") /\ CallRefused(c)
    BY <1>2, <2>1, <2>3
       DEF PauseCommand, Sent, CallRefused, Resting, TypeOK, Holders, CallPcs,
           RecordCoherent, CallInv
  <2> QED
    BY <1>2, <2>2, <2>3 DEF PauseCommand
<1>3. CASE ResumeCommand(c)
  <2> DEFINE t == call[c].trip
             r == call[c].copy
  <2>1. call[c].pc = "resuming" /\ t \in Trips /\ r \in Records /\ Coherent(r)
    BY <1>3 DEF ResumeCommand, CallInv, TypeOK, Holders
  <2>2. CASE /\ engine' = [engine EXCEPT ![t] = "on"]
             /\ r.pauseIntervals # <<>>
             /\ call' = [call EXCEPT ![c].pc = "resumeWrite", ![c].copy = Resumed(@)]
    <3>1. Resumed(r) \in Records /\ Coherent(Resumed(r))
      BY <2>1, <2>2, EndedPause DEF Coherent
    <3>2. call'[c] = [pc |-> "resumeWrite", trip |-> t, copy |-> Resumed(r)]
          /\ call' = [call EXCEPT ![c] = call'[c]]
      BY <2>2 DEF TypeOK, Holders
    <3>3. TypeOK' /\ RecordCoherent'
      BY <1>3, <2>1, <2>2, <3>1, <3>2
         DEF ResumeCommand, TypeOK, Holders, CallPcs, RecordCoherent
    <3>4. CallInv(c)'
      BY <2>1, <3>1, <3>2, TripMonitorAssumption DEF CallInv
    <3> QED
      BY <1>3, <3>2, <3>3, <3>4 DEF ResumeCommand, TypeOK
  <2>3. CASE engine' \in Sent(engine, t, "on") /\ CallRefused(c)
    BY <1>3, <2>1, <2>3
       DEF ResumeCommand, Sent, CallRefused, Resting, TypeOK, Holders, CallPcs,
           RecordCoherent, CallInv
  <2> QED
    BY <1>3, <2>2, <2>3 DEF ResumeCommand
<1>4. CASE CallWrite(c)
  <2>1. call[c].trip \in Trips /\ call[c].copy \in Records /\ Coherent(call[c].copy)
    BY <1>4 DEF CallWrite, CallInv, TypeOK, Holders
  <2> QED
    BY <1>4, <2>1 DEF CallWrite, CallRefused, Resting, TypeOK, Holders, CallPcs,
                      RecordCoherent, Coherent, CallInv
<1> QED
  BY <1>1, <1>2, <1>3, <1>4 DEF CallNext

LEMMA JobStep ==
  ASSUME IInv, NEW j \in Jobs, JobNext(j)
  PROVE  IInv'
<1> USE DEF IInv
<1> DEFINE Goal == /\ TypeOK' /\ RecordCoherent' /\ JobInv(j)'
                   /\ call' = call /\ \A k \in Jobs : k # j => job'[k] = job[k]
           t == job[j].trip
           r == job[j].copy
<1> SUFFICES Goal
  BY DEF CallInv, JobInv
<1>0. job[j].pc \in {"look", "engine", "speed", "write"} =>
        t \in Trips /\ r \in Records /\ PauseCoherent(r)
  BY DEF JobInv, TypeOK, Holders
<1>1. CASE JobStart(j)
  BY <1>1 DEF JobStart, Resting, TypeOK, Holders, JobPcs, RecordCoherent, JobInv
<1>2. ASSUME NEW u \in Trips, JobGet(j, u) PROVE Goal
  <2>1. CASE cache[u] = NoRecord /\ UNCHANGED job
    BY <1>2, <2>1 DEF JobGet, TypeOK, RecordCoherent, JobInv
  <2>2. CASE /\ cache[u] # NoRecord
             /\ job' = [job EXCEPT ![j] = [pc |-> "look", trip |-> u, copy |-> cache[u]]]
    BY <1>2, <2>2 DEF JobGet, TypeOK, Holders, JobPcs, RecordCoherent, JobInv
  <2> QED
    BY <1>2, <2>1, <2>2 DEF JobGet
<1>3. CASE JobEnd(j)
  BY <1>3 DEF JobEnd, Resting, TypeOK, Holders, JobPcs, RecordCoherent, JobInv
<1>4. CASE JobLook(j)
  <2> DEFINE n == [r EXCEPT !.geofencingStatus = place[t]]
  <2>1. job[j].pc = "look" /\ t \in Trips /\ r \in Records /\ PauseCoherent(r)
    BY <1>0, <1>4 DEF JobLook
  <2>2. n \in Records /\ PauseCoherent(n)
    BY <2>1 DEF TypeOK, Records, PauseCoherent
  <2>3. job'[j] = [pc |-> "engine", trip |-> t, copy |-> n]
        /\ job' = [job EXCEPT ![j] = job'[j]]
    BY <1>4 DEF JobLook, TypeOK, Holders
  <2> HIDE DEF n
  <2>4. TypeOK' /\ RecordCoherent'
    BY <1>4, <2>1, <2>2, <2>3 DEF JobLook, TypeOK, Holders, JobPcs, RecordCoherent
  <2>5. JobInv(j)'
    BY <2>1, <2>2, <2>3, TripMonitorAssumption DEF JobInv
  <2> QED
    BY <1>4, <2>3, <2>4, <2>5 DEF JobLook, TypeOK
<1>5. CASE JobNoPackets(j)
  <2>1. job[j].pc = "look" /\ t \in Trips /\ r \in Records
    BY <1>0, <1>5 DEF JobNoPackets
  <2>2. job'[j] = [pc |-> "write", trip |-> t, copy |-> r]
        /\ job' = [job EXCEPT ![j] = job'[j]]
    BY <1>5 DEF JobNoPackets, TypeOK, Holders
  <2> QED
    BY <1>5, <2>1, <2>2 DEF JobNoPackets, TypeOK, Holders, JobPcs, RecordCoherent, JobInv
<1>6. CASE JobThrow(j)
  BY <1>6 DEF JobThrow, Resting, TypeOK, Holders, JobPcs, RecordCoherent, JobInv
<1>7. ASSUME NEW arrives \in BOOLEAN, JobEngine(j, arrives) PROVE Goal
  <2> DEFINE ban == r.geofencingStatus = "TRAVEL_BAN"
             n == [r EXCEPT !.engineStatus = IF ban THEN "POWEROFF" ELSE "POWERON"]
  <2>1. job[j].pc = "engine" /\ t \in Trips /\ r \in Records /\ PauseCoherent(r)
    BY <1>0, <1>7 DEF JobEngine
  <2>2. n \in Records /\ PauseCoherent(n) /\ EngineCoherent(n)
    BY <2>1 DEF Records, PauseCoherent, EngineCoherent
  <2>3. job'[j] = [pc |-> "speed", trip |-> t, copy |-> n]
        /\ job' = [job EXCEPT ![j] = job'[j]]
    BY <1>7 DEF JobEngine, TypeOK, Holders
  <2>4. engine' \in [Trips -> {"on", "off"}]
    BY <1>7, <2>1 DEF JobEngine, TypeOK
  <2> HIDE DEF n
  <2>5. TypeOK' /\ RecordCoherent'
    BY <1>7, <2>1, <2>2, <2>3, <2>4
       DEF JobEngine, TypeOK, Holders, JobPcs, RecordCoherent
  <2>6. JobInv(j)'
    BY <2>1, <2>2, <2>3, TripMonitorAssumption DEF JobInv
  <2> QED
    BY <1>7, <2>3, <2>5, <2>6 DEF JobEngine, TypeOK
<1>8. CASE JobSpeed(j)
  <2>1. job[j].pc = "speed" /\ t \in Trips /\ r \in Records
    BY <1>0, <1>8 DEF JobSpeed
  <2>2. job'[j] = [pc |-> "write", trip |-> t, copy |-> r]
        /\ job' = [job EXCEPT ![j] = job'[j]]
    BY <1>8 DEF JobSpeed, TypeOK, Holders
  <2>3. speed' \in [Trips -> {"normal", "limited"}]
    BY <1>8, <2>1 DEF JobSpeed, Sent, TypeOK
  <2> QED
    BY <1>8, <2>1, <2>2, <2>3
       DEF JobSpeed, TypeOK, Holders, JobPcs, RecordCoherent, JobInv
<1>9. CASE JobWrite(j)
  <2>1. t \in Trips /\ r \in Records /\ Coherent(r)
    BY <1>0, <1>9 DEF JobWrite, JobInv, Coherent
  <2> QED
    BY <1>9, <2>1 DEF JobWrite, Resting, TypeOK, Holders, JobPcs, RecordCoherent,
                      Coherent, JobInv
<1> QED
  BY <1>1, <1>2, <1>3, <1>4, <1>5, <1>6, <1>7, <1>8, <1>9 DEF JobNext

LEMMA SurroundingsStep ==
  ASSUME IInv, NEW t \in Trips, Surroundings(t)
  PROVE  IInv'
<1>1. call' = call /\ job' = job /\ TypeOK' /\ RecordCoherent'
  BY DEF IInv, Surroundings, Move, Expire, Forget, Unlist, TypeOK, RecordCoherent
<1> QED
  BY <1>1 DEF IInv, CallInv, JobInv

LEMMA IInvStep == IInv /\ [Next]_vars => IInv'
<1> SUFFICES ASSUME IInv, [Next]_vars PROVE IInv'
  OBVIOUS
<1>1. CASE UNCHANGED vars
  BY <1>1 DEF IInv, TypeOK, RecordCoherent, CallInv, JobInv
<1> QED
  BY <1>1, CallStep, JobStep, SurroundingsStep DEF Next

THEOREM MonitorInductive == Spec => []IInv
  BY InitIInv, IInvStep, PTL DEF Spec

\* The types, for any number of calls and overlapping runs of the job.
THEOREM MonitorTypeCorrect == Spec => []TypeOK
  BY MonitorInductive, PTL DEF IInv

\* Stale copies never mix two stories in one record.
THEOREM RecordIsCoherent == Spec => []RecordCoherent
  BY MonitorInductive, PTL DEF IInv

\* A trip nobody holds a copy of and Redis has forgotten stays untouched.
LEMMA QuietStep ==
  ASSUME IInv, [Next]_vars, NEW t \in Trips, Quiet(t)
  PROVE  Quiet(t)' /\ engine'[t] = engine[t] /\ speed'[t] = speed[t]
<1> USE DEF Quiet
<1>1. CASE UNCHANGED vars
  BY <1>1
<1>2. ASSUME NEW c \in Calls, CallNext(c)
      PROVE Quiet(t)' /\ engine'[t] = engine[t] /\ speed'[t] = speed[t]
  <2>1. ASSUME NEW u \in Trips, PauseRead(c, u) \/ ResumeRead(c, u)
        PROVE Quiet(t)' /\ engine'[t] = engine[t] /\ speed'[t] = speed[t]
    BY <2>1 DEF PauseRead, ResumeRead, CallRead, IInv, TypeOK
  <2>2. CASE PauseCommand(c) \/ ResumeCommand(c)
    <3>1. call'[c].trip \in {call[c].trip, NoTrip}
          /\ call' = [call EXCEPT ![c] = call'[c]]
      BY <2>2 DEF PauseCommand, ResumeCommand, CallRefused, Resting, IInv,
                  TypeOK, Holders
    <3>2. engine'[t] = engine[t]
      BY <2>2 DEF PauseCommand, ResumeCommand, Sent, IInv, TypeOK
    <3> QED
      BY <2>2, <3>1, <3>2, TripMonitorAssumption
         DEF PauseCommand, ResumeCommand, IInv, TypeOK
  <2>3. CASE CallWrite(c)
    BY <2>3, TripMonitorAssumption
       DEF CallWrite, CallRefused, Resting, IInv, TypeOK
  <2> QED
    BY <1>2, <2>1, <2>2, <2>3 DEF CallNext
<1>3. ASSUME NEW j \in Jobs, JobNext(j)
      PROVE Quiet(t)' /\ engine'[t] = engine[t] /\ speed'[t] = speed[t]
  BY <1>3, TripMonitorAssumption
     DEF JobNext, JobStart, JobGet, JobEnd, JobLook, JobNoPackets, JobThrow,
         JobEngine, JobSpeed, JobWrite, Resting, Sent, IInv, TypeOK, Holders
<1>4. ASSUME NEW u \in Trips, Surroundings(u)
      PROVE Quiet(t)' /\ engine'[t] = engine[t] /\ speed'[t] = speed[t]
  BY <1>4 DEF Surroundings, Move, Expire, Forget, Unlist, IInv, TypeOK
<1> QED
  BY <1>1, <1>2, <1>3, <1>4 DEF Next

THEOREM QuietIsFinal == Spec => QuietStaysQuiet
<1>1. IInv /\ [Next]_vars =>
        [\A t \in Trips : Quiet(t) =>
           Quiet(t)' /\ engine'[t] = engine[t] /\ speed'[t] = speed[t]]_vars
  BY QuietStep
<1> QED
  BY <1>1, MonitorInductive, PTL DEF Spec, QuietStaysQuiet

(***************************************************************************)
(* The handlers keep to CachedTrip: each step is one of the object that    *)
(* TripProcess takes them for, or leaves it alone.                         *)
(***************************************************************************)
RecordStep == Record!Next \/ UNCHANGED Record!vars

LEMMA InitRecord == Init => Record!Init
<1> SUFFICES ASSUME Init PROVE Record!Init
  OBVIOUS
<1>1. Cached = Trips
  BY FreshIsCoherent, TripMonitorAssumption DEF Init, Cached
<1>2. Held = {}
  BY TripMonitorAssumption DEF Init, Held, Resting
<1> QED
  BY <1>1, <1>2 DEF Record!Init

\* What is held when one handler takes a copy, goes on with it or lets it go.
LEMMA HeldByCall ==
  ASSUME TypeOK, NEW c \in Calls, NEW r, call' = [call EXCEPT ![c] = r], job' = job,
         NEW t \in Trips
  PROVE  /\ r.trip = call[c].trip => Held' = Held
         /\ call[c].trip = NoTrip /\ r.trip = t => Held' = Held \cup {t}
         /\ call[c].trip = t /\ r.trip = NoTrip => t \in Held /\ Held' \in {Held, Held \ {t}}
<1> DEFINE S == {u \in Trips : \/ \E d \in Calls \ {c} : call[d].trip = u
                               \/ \E j \in Jobs : job[j].trip = u}
<1>1. call'[c] = r /\ \A d \in Calls \ {c} : call'[d] = call[d]
  BY DEF TypeOK
<1>2. Held = {u \in Trips : u = call[c].trip} \cup S
  BY DEF Held
<1>3. Held' = {u \in Trips : u = r.trip} \cup S
  BY <1>1 DEF Held
<1> HIDE DEF S
<1> QED
  BY <1>2, <1>3, TripMonitorAssumption

LEMMA HeldByJob ==
  ASSUME TypeOK, NEW j \in Jobs, NEW r, job' = [job EXCEPT ![j] = r], call' = call,
         NEW t \in Trips
  PROVE  /\ r.trip = job[j].trip => Held' = Held
         /\ job[j].trip = NoTrip /\ r.trip = t => Held' = Held \cup {t}
         /\ job[j].trip = t /\ r.trip = NoTrip => t \in Held /\ Held' \in {Held, Held \ {t}}
<1> DEFINE S == {u \in Trips : \/ \E c \in Calls : call[c].trip = u
                               \/ \E i \in Jobs \ {j} : job[i].trip = u}
<1>1. job'[j] = r /\ \A i \in Jobs \ {j} : job'[i] = job[i]
  BY DEF TypeOK
<1>2. Held = {u \in Trips : u = job[j].trip} \cup S
  BY DEF Held
<1>3. Held' = {u \in Trips : u = r.trip} \cup S
  BY <1>1 DEF Held
<1> HIDE DEF S
<1> QED
  BY <1>2, <1>3, TripMonitorAssumption

\* The set of entries, when one is written or lost.
LEMMA CachedWritten ==
  ASSUME TypeOK, NEW t \in Trips, NEW r, r # NoRecord, cache' = [cache EXCEPT ![t] = r]
  PROVE  Cached' = Cached \cup {t}
  BY DEF Cached, TypeOK

LEMMA CachedLost ==
  ASSUME TypeOK, NEW t \in Trips, cache' = [cache EXCEPT ![t] = NoRecord]
  PROVE  Cached' = Cached \ {t}
  BY DEF Cached, TypeOK

LEMMA CallKeepsRecord ==
  ASSUME IInv, NEW c \in Calls, CallNext(c)
  PROVE  RecordStep
<1> USE DEF RecordStep, Record!Next, Record!vars
<1>1. TypeOK /\ CallInv(c)
  BY DEF IInv
<1>2. ASSUME NEW t \in Trips, PauseRead(c, t) \/ ResumeRead(c, t)
      PROVE  RecordStep
  <2>1. PICK pc : CallRead(c, t, pc)
    BY <1>2 DEF PauseRead, ResumeRead
  <2> DEFINE r == [pc |-> pc, trip |-> t, copy |-> cache[t]]
  <2>2. /\ call[c].pc = "idle" /\ cache[t] # NoRecord
        /\ call' = [call EXCEPT ![c] = r] /\ r.trip = t /\ cache' = cache /\ job' = job
    BY <2>1 DEF CallRead
  <2> HIDE DEF r
  <2>3. call[c].trip = NoTrip
    BY <1>1, <2>2 DEF CallInv
  <2>4. Held' = Held \cup {t}
    BY <1>1, <2>2, <2>3, HeldByCall
  <2>5. t \in Cached /\ Cached' = Cached
    BY <2>2 DEF Cached
  <2> QED
    BY <2>4, <2>5 DEF Record!Read
<1>3. CASE PauseCommand(c) \/ ResumeCommand(c)
  <2>1. PICK r : /\ call' = [call EXCEPT ![c] = r] /\ r.trip \in {call[c].trip, NoTrip}
                 /\ cache' = cache /\ job' = job
    <3>1. call' = [call EXCEPT ![c] = call'[c]]
      BY <1>1, <1>3 DEF PauseCommand, ResumeCommand, CallRefused, TypeOK, Holders
    <3>2. call'[c].trip \in {call[c].trip, NoTrip}
      BY <1>1, <1>3 DEF PauseCommand, ResumeCommand, CallRefused, Resting, TypeOK, Holders
    <3> QED
      BY <1>3, <3>1, <3>2 DEF PauseCommand, ResumeCommand
  <2>2. call[c].trip \in Trips
    BY <1>1, <1>3 DEF CallInv, PauseCommand, ResumeCommand
  <2>3. Held' \in {Held, Held \ {call[c].trip}}
    BY <1>1, <2>1, <2>2, HeldByCall
  <2>4. Cached' = Cached
    BY <2>1 DEF Cached
  <2> QED
    BY <2>2, <2>3, <2>4 DEF Record!Abandon
<1>4. CASE CallWrite(c)
  <2> DEFINE t == call[c].trip
  <2>1. t \in Trips /\ call[c].copy # NoRecord
    BY <1>1, <1>4 DEF CallInv, CallWrite
  <2>2. /\ cache' = [cache EXCEPT ![t] = call[c].copy]
        /\ call' = [call EXCEPT ![c] = Resting("done")] /\ job' = job
        /\ Resting("done").trip = NoTrip
    BY <1>4 DEF CallWrite, CallRefused, Resting
  <2>3. Cached' = Cached \cup {t}
    BY <1>1, <2>1, <2>2, CachedWritten
  <2>4. t \in Held /\ Held' \in {Held, Held \ {t}}
    BY <1>1, <2>1, <2>2, HeldByCall
  <2> QED
    BY <2>1, <2>3, <2>4 DEF Record!Write
<1> QED
  BY <1>2, <1>3, <1>4 DEF CallNext

LEMMA JobKeepsRecord ==
  ASSUME IInv, NEW j \in Jobs, JobNext(j)
  PROVE  RecordStep
<1> USE DEF RecordStep, Record!Next, Record!vars
<1>1. TypeOK /\ JobInv(j)
  BY DEF IInv
<1>2. CASE JobStart(j) \/ JobEnd(j)
  <2>1. PICK r : /\ job' = [job EXCEPT ![j] = r] /\ r.trip = NoTrip /\ job[j].trip = NoTrip
                 /\ cache' = cache /\ call' = call
    BY <1>1, <1>2 DEF JobStart, JobEnd, Resting, JobInv
  <2>2. Held' = Held
    <3>1. \A t \in Trips : Held' = Held
      BY <1>1, <2>1, HeldByJob
    <3> QED
      BY <3>1 DEF Held
  <2> QED
    BY <2>1, <2>2 DEF Cached
<1>3. ASSUME NEW t \in Trips, JobGet(j, t)
      PROVE  RecordStep
  <2>1. job[j].trip = NoTrip /\ cache' = cache /\ call' = call /\ Cached' = Cached
    BY <1>1, <1>3 DEF JobGet, JobInv, Cached
  <2>2. CASE job' = job
    BY <2>1, <2>2 DEF Held
  <2>3. CASE job' # job
    <3> DEFINE r == [pc |-> "look", trip |-> t, copy |-> cache[t]]
    <3>1. job' = [job EXCEPT ![j] = r] /\ r.trip = t /\ cache[t] # NoRecord
      BY <1>3, <2>3 DEF JobGet
    <3> HIDE DEF r
    <3>2. Held' = Held \cup {t}
      BY <1>1, <2>1, <3>1, HeldByJob
    <3>3. t \in Cached
      BY <3>1 DEF Cached
    <3> QED
      BY <2>1, <3>2, <3>3 DEF Record!Read
  <2> QED
    BY <2>2, <2>3
<1>4. CASE \/ JobLook(j) \/ JobNoPackets(j) \/ JobThrow(j) \/ JobSpeed(j)
           \/ \E arrives \in BOOLEAN : JobEngine(j, arrives)
  <2>1. PICK r : /\ job' = [job EXCEPT ![j] = r] /\ r.trip \in {job[j].trip, NoTrip}
                 /\ cache' = cache /\ call' = call
    <3>1. job' = [job EXCEPT ![j] = job'[j]]
      BY <1>1, <1>4 DEF JobLook, JobNoPackets, JobThrow, JobSpeed, JobEngine, TypeOK, Holders
    <3>2. job'[j].trip \in {job[j].trip, NoTrip}
      BY <1>1, <1>4 DEF JobLook, JobNoPackets, JobThrow, JobSpeed, JobEngine, Resting, TypeOK,
                        Holders
    <3> QED
      BY <1>4, <3>1, <3>2 DEF JobLook, JobNoPackets, JobThrow, JobSpeed, JobEngine
  <2>2. job[j].trip \in Trips
    BY <1>1, <1>4 DEF JobInv, JobLook, JobNoPackets, JobThrow, JobSpeed, JobEngine
  <2>3. Held' \in {Held, Held \ {job[j].trip}}
    BY <1>1, <2>1, <2>2, HeldByJob
  <2>4. Cached' = Cached
    BY <2>1 DEF Cached
  <2> QED
    BY <2>2, <2>3, <2>4 DEF Record!Abandon
<1>5. CASE JobWrite(j)
  <2> DEFINE t == job[j].trip
  <2>1. t \in Trips /\ job[j].copy # NoRecord
    BY <1>1, <1>5 DEF JobInv, JobWrite
  <2>2. /\ cache' = [cache EXCEPT ![t] = job[j].copy]
        /\ job' = [job EXCEPT ![j] = Resting("next")] /\ call' = call
        /\ Resting("next").trip = NoTrip
    BY <1>5 DEF JobWrite, Resting
  <2>3. Cached' = Cached \cup {t}
    BY <1>1, <2>1, <2>2, CachedWritten
  <2>4. t \in Held /\ Held' \in {Held, Held \ {t}}
    BY <1>1, <2>1, <2>2, HeldByJob
  <2> QED
    BY <2>1, <2>3, <2>4 DEF Record!Write
<1> QED
  BY <1>2, <1>3, <1>4, <1>5 DEF JobNext

LEMMA StepKeepsRecord ==
  ASSUME IInv, [Next]_vars
  PROVE  RecordStep
<1> USE DEF RecordStep, Record!Next, Record!vars
<1>1. CASE UNCHANGED vars
  BY <1>1 DEF Cached, Held
<1>2. ASSUME NEW t \in Trips, Surroundings(t)
      PROVE  RecordStep
  <2>1. TypeOK /\ Held' = Held
    BY <1>2 DEF IInv, Surroundings, Move, Expire, Forget, Unlist, Held
  <2>2. CASE Expire(t) \/ Forget(t)
    <3>1. Cached' = Cached \ {t}
      BY <2>1, <2>2, CachedLost DEF Expire, Forget
    <3> QED
      BY <2>1, <3>1 DEF Record!Lose
  <2>3. CASE Unlist(t) \/ \E status \in Statuses : Move(t, status)
    BY <2>1, <2>3 DEF Unlist, Move, Cached
  <2> QED
    BY <1>2, <2>2, <2>3 DEF Surroundings
<1> QED
  BY <1>1, <1>2, CallKeepsRecord, JobKeepsRecord DEF Next

\* The pauses and the job, however they overlap, are to the entry of a trip what
\* TripProcess takes its unnamed handlers to be: nobody writes an entry who did
\* not read it while it was there.
THEOREM MonitorKeepsRecord == Spec => KeepsRecord
<1>1. IInv /\ [Next]_vars => [Record!Next]_(Record!vars)
  BY StepKeepsRecord DEF RecordStep
<1> QED
  BY <1>1, InitRecord, MonitorInductive, PTL DEF Spec, KeepsRecord, Record!Spec

(***************************************************************************)
(* TripZones.                                                              *)
(***************************************************************************)
Speeds == {5, 10, 15, 20, 25}

LEMMA LimitType == \A v : Zones!Limit(v) \in Speeds
  BY DEF Zones!Limit, Speeds

\* A geofence says a well-formed status, which bans only if it is a ban.
LEMMA ZoneStatusType ==
  \A z, p, t :
    /\ Zones!ZoneStatus(z, p, t) \in Zones!TripStatuses
    /\ Zones!ZoneStatus(z, p, t) = Zones!Ban <=>
         z.own /\ z.slug \notin Zones!Circles
         /\ \/ z.slug = "mainZone" /\ p \notin z.at
            \/ z.slug = "notScooters" /\ p \in z.at
  <1> SUFFICES ASSUME NEW z, NEW p, NEW t
               PROVE  /\ Zones!ZoneStatus(z, p, t) \in Zones!TripStatuses
                      /\ Zones!ZoneStatus(z, p, t) = Zones!Ban <=>
                           z.own /\ z.slug \notin Zones!Circles
                           /\ \/ z.slug = "mainZone" /\ p \notin z.at
                              \/ z.slug = "notScooters" /\ p \in z.at
    OBVIOUS
  <1>1. /\ Zones!ScheduleStatus(z, t) \in Zones!TripStatuses
        /\ Zones!ScheduleStatus(z, t) # Zones!Ban
    <2>1. \A l : Zones!Status("SCHEDULE_SPEED_LIMIT", l) # Zones!Ban
      BY DEF Zones!Status, Zones!Ban
    <2>2. \A l \in Speeds : Zones!Status("SCHEDULE_SPEED_LIMIT", l) \in Zones!TripStatuses
      BY DEF Zones!Status, Zones!TripStatuses, Speeds
    <2>3. 25 \in Speeds
      BY DEF Speeds
    <2>4. \E l \in Speeds : Zones!ScheduleStatus(z, t) = Zones!Status("SCHEDULE_SPEED_LIMIT", l)
      BY <2>3, LimitType DEF Zones!ScheduleStatus
    <2> QED BY <2>1, <2>2, <2>4
  <1>2. /\ Zones!Status("ALL_TIME_SPEED_LIMIT", Zones!Limit(z.allTimeSpeedLimit)) \in Zones!TripStatuses
        /\ Zones!Status("ALL_TIME_SPEED_LIMIT", Zones!Limit(z.allTimeSpeedLimit)) # Zones!Ban
    BY LimitType DEF Zones!Status, Zones!TripStatuses, Zones!Ban, Speeds
  <1>3. Zones!Ban \in Zones!TripStatuses /\ Zones!None \in Zones!TripStatuses /\ Zones!None # Zones!Ban
    BY DEF Zones!Ban, Zones!None, Zones!Status, Zones!TripStatuses
  <1> DEFINE B == \/ z.slug = "mainZone" /\ p \notin z.at
                  \/ z.slug = "notScooters" /\ p \in z.at
  <1>4. CASE ~z.own \/ z.slug \in Zones!Circles
    BY <1>3, <1>4 DEF Zones!ZoneStatus
  <1>5. CASE ~(~z.own \/ z.slug \in Zones!Circles) /\ B
    BY <1>3, <1>5 DEF Zones!ZoneStatus
  <1>6. CASE ~(~z.own \/ z.slug \in Zones!Circles) /\ ~B
    BY <1>1, <1>2, <1>3, <1>6 DEF Zones!ZoneStatus
  <1> QED BY <1>4, <1>5, <1>6

\* The first of the geofences that have something to say.
LEMMA FirstSpeaking ==
  ASSUME NEW zs \in Seq(Forms), NEW p, NEW t, Zones!Speaking(zs, p, t) # {}
  PROVE  (CHOOSE i \in Zones!Speaking(zs, p, t) : \A j \in Zones!Speaking(zs, p, t) : i <= j)
           \in Zones!Speaking(zs, p, t)
  <1> DEFINE S == Zones!Speaking(zs, p, t)
  <1>1. S \subseteq Nat
    BY DEF Zones!Speaking
  <1>2. \E i \in S : \A j \in S : i <= j
    <2>1. IsWellFoundedOn(OpToRel(<, Nat), Nat)
      BY NatLessThanWellFounded
    <2>2. \E i \in S : \A j \in S : <<j, i>> \notin OpToRel(<, Nat)
      BY <1>1, <2>1, WFMin, Zenon
    <2>3. \A i, j \in Nat : <<j, i>> \notin OpToRel(<, Nat) => i <= j
      BY DEF OpToRel
    <2> QED BY <1>1, <2>2, <2>3
  <1> QED BY <1>2

LEMMA HeadOfList ==
  ASSUME NEW zs \in Seq(Forms), NEW p, NEW t
  PROVE  \/ Zones!Speaking(zs, p, t) = {} /\ Zones!GeofencingStatus(zs, p, t) = Zones!Good
         \/ \E i \in Zones!Speaking(zs, p, t) :
              Zones!GeofencingStatus(zs, p, t) = Zones!ZoneStatus(zs[i], p, t)
  BY FirstSpeaking DEF Zones!GeofencingStatus

LEMMA GeofencingStatusType ==
  ASSUME NEW zs \in Seq(Forms), NEW p, NEW t
  PROVE  Zones!GeofencingStatus(zs, p, t) \in Zones!TripStatuses
  <1>1. Zones!Good \in Zones!TripStatuses
    BY DEF Zones!Good, Zones!Status, Zones!TripStatuses
  <1> QED BY <1>1, HeadOfList, ZoneStatusType

(***************************************************************************)
(* Types                                                                   *)
(***************************************************************************)
Rounds == [pc : {"idle", "looked", "steered", "sped"}, status : Zones!TripStatuses]

LEMMA EditStep ==
  ASSUME Zones!TypeOK, Zones!Edit
  PROVE  zones' \in Seq(Forms) /\ Len(zones') <= MaxZones
         /\ UNCHANGED <<spot, now, round, motor, limit, shown>>
  <1>1. zones \in Seq(Forms) /\ Len(zones) \in Nat /\ DOMAIN zones = 1 .. Len(zones)
    BY LenProperties DEF Zones!TypeOK
  <1>2. ASSUME NEW z \in Forms, Zones!CreateGeofence(z)
        PROVE  zones' \in Seq(Forms) /\ Len(zones') <= MaxZones
    <2>1. <<z>> \in Seq(Forms) /\ Len(<<z>>) = 1
      OBVIOUS
    <2>2. zones' \in Seq(Forms) /\ Len(zones') = 1 + Len(zones)
      BY <1>1, <1>2, <2>1, ConcatProperties DEF Zones!CreateGeofence
    <2> QED BY <1>1, <1>2, <2>2, MCTripMonitorAssumption DEF Zones!CreateGeofence
  <1>3. ASSUME NEW i \in DOMAIN zones, NEW z \in Forms, Zones!UpdateGeofence(i, z)
        PROVE  zones' \in Seq(Forms) /\ Len(zones') <= MaxZones
    <2>1. i \in 1 .. Len(zones)
      BY <1>1
    <2>2. zones' = [zones EXCEPT ![i] = z]
      BY <1>3 DEF Zones!UpdateGeofence
    <2>3. zones' \in Seq(Forms) /\ Len(zones') = Len(zones)
      BY <1>1, <2>1, <2>2, ExceptSeq
    <2> QED BY <2>3 DEF Zones!TypeOK
  <1>4. ASSUME NEW i \in DOMAIN zones, Zones!DeleteGeofence(i)
        PROVE  zones' \in Seq(Forms) /\ Len(zones') <= MaxZones
    <2> DEFINE before == SubSeq(zones, 1, i - 1)
               after  == SubSeq(zones, i + 1, Len(zones))
    <2>1. i \in 1 .. Len(zones)
      BY <1>1
    <2>2. \A j \in 1 .. Len(zones) : zones[j] \in Forms
      BY <1>1, ElementOfSeq
    <2>3. before \in Seq(Forms) /\ Len(before) = i - 1
      <3>1. \A j \in 1 .. i - 1 : zones[j] \in Forms
        BY <1>1, <2>1, <2>2
      <3>2. /\ before \in Seq(Forms)
            /\ Len(before) = IF 1 <= i - 1 THEN (i - 1) - 1 + 1 ELSE 0
        BY <2>1, <3>1, SubSeqProperties
      <3> QED BY <2>1, <3>2
    <2>4. after \in Seq(Forms) /\ Len(after) = Len(zones) - i
      <3>1. \A j \in i + 1 .. Len(zones) : zones[j] \in Forms
        BY <1>1, <2>1, <2>2
      <3>2. /\ after \in Seq(Forms)
            /\ Len(after) = IF i + 1 <= Len(zones) THEN Len(zones) - (i + 1) + 1 ELSE 0
        BY <1>1, <2>1, <3>1, SubSeqProperties
      <3> QED BY <1>1, <2>1, <3>2
    <2>5. zones' = before \o after
      BY <1>4 DEF Zones!DeleteGeofence
    <2> HIDE DEF before, after
    <2>6. zones' \in Seq(Forms) /\ Len(zones') = Len(before) + Len(after)
      BY <2>3, <2>4, <2>5, ConcatProperties
    <2>7. Len(zones') = Len(zones) - 1
      BY <1>1, <2>1, <2>3, <2>4, <2>6
    <2> QED BY <1>1, <2>6, <2>7, MCTripMonitorAssumption DEF Zones!TypeOK
  <1> QED BY <1>2, <1>3, <1>4 DEF Zones!Edit, Zones!CreateGeofence, Zones!UpdateGeofence, Zones!DeleteGeofence

LEMMA RoundStep ==
  ASSUME Zones!TypeOK, Zones!Job
  PROVE  /\ round' \in Rounds /\ motor' \in {"on", "off"} /\ limit' \in Speeds
         /\ shown' \in Zones!TripStatuses /\ UNCHANGED <<zones, spot, now>>
  <1>1. /\ round \in Rounds /\ zones \in Seq(Forms) /\ motor \in {"on", "off"}
        /\ limit \in Speeds /\ shown \in Zones!TripStatuses
    BY DEF Zones!TypeOK, Rounds, Speeds
  <1>2. Zones!None \in Zones!TripStatuses
    BY DEF Zones!None, Zones!Status, Zones!TripStatuses
  <1>3. CASE Zones!JobLook
    <2>1. Zones!GeofencingStatus(zones, spot, now) \in Zones!TripStatuses
      BY <1>1, GeofencingStatusType
    <2> QED BY <1>1, <1>3, <2>1 DEF Zones!JobLook, Rounds
  <1>4. ASSUME NEW ok \in BOOLEAN, Zones!JobEngine(ok)
        PROVE  round' \in Rounds /\ motor' \in {"on", "off"}
    BY <1>1, <1>4 DEF Zones!JobEngine, Rounds
  <1>5. ASSUME NEW ok \in BOOLEAN, Zones!JobSpeed(ok)
        PROVE  round' \in Rounds /\ limit' \in Speeds
    <2>1. round' \in Rounds
      BY <1>1, <1>5 DEF Zones!JobSpeed, Rounds
    <2>2. round.status \in Zones!TripStatuses
      BY <1>1 DEF Rounds
    <2>3. \/ limit' = limit \/ limit' = 25
          \/ round.status.word = "ALL_TIME_SPEED_LIMIT" /\ limit' = round.status.limit
      BY <1>5 DEF Zones!JobSpeed
    <2> QED BY <1>1, <2>1, <2>2, <2>3 DEF Zones!TripStatuses, Speeds
  <1>6. CASE Zones!JobSave
    BY <1>1, <1>2, <1>6 DEF Zones!JobSave, Rounds
  <1>7. CASE Zones!JobNoPackets
    BY <1>1, <1>7 DEF Zones!JobNoPackets, Rounds
  <1> QED BY <1>1, <1>3, <1>4, <1>5, <1>6, <1>7
          DEF Zones!Job, Zones!JobLook, Zones!JobEngine, Zones!JobSpeed, Zones!JobSave, Zones!JobNoPackets

\* The table, the device and the run keep their types, and the status that a
\* trip shows is one that the code knows.
THEOREM ZonesTypeCorrect == Zones!Spec => []Zones!TypeOK
  <1>1. Zones!Init => Zones!TypeOK
    <2> SUFFICES ASSUME Zones!Init PROVE Zones!TypeOK
      OBVIOUS
    <2>1. <<>> \in Seq(Forms) /\ Len(<<>>) = 0
      BY EmptySeq
    <2>2. Zones!Good \in Zones!TripStatuses /\ Zones!None \in Zones!TripStatuses
      BY DEF Zones!Good, Zones!None, Zones!Status, Zones!TripStatuses
    <2> QED BY <2>1, <2>2, MCTripMonitorAssumption DEF Zones!Init, Zones!TypeOK
  <1>2. Zones!TypeOK /\ [Zones!Next]_(Zones!vars) => Zones!TypeOK'
    <2> SUFFICES ASSUME Zones!TypeOK, [Zones!Next]_(Zones!vars) PROVE Zones!TypeOK'
      OBVIOUS
    <2>1. CASE Zones!Edit
      BY <2>1, EditStep DEF Zones!TypeOK
    <2>2. ASSUME NEW p \in Places, Zones!Ride(p) PROVE Zones!TypeOK'
      BY <2>2 DEF Zones!Ride, Zones!TypeOK
    <2>3. CASE Zones!Tick
      <3>1. (now + 1) % Day \in Zones!Minutes
        BY MCTripMonitorAssumption DEF Zones!TypeOK, Zones!Minutes
      <3> QED BY <2>3, <3>1 DEF Zones!Tick, Zones!TypeOK
    <2>4. CASE Zones!Job
      BY <2>4, RoundStep DEF Zones!TypeOK, Rounds, Speeds
    <2>5. CASE UNCHANGED Zones!vars
      BY <2>5 DEF Zones!vars, Zones!TypeOK
    <2> QED BY <2>1, <2>2, <2>3, <2>4, <2>5 DEF Zones!Next
  <1> QED BY <1>1, <1>2, PTL DEF Zones!Spec

(***************************************************************************)
(* The status and the interval                                             *)
(***************************************************************************)
\* A trip is told of a ban only where a geofence of its franchise bans, and of
\* nothing at all only where none does.
THEOREM BanNeedsCause == Zones!Spec => []Zones!BanHasCause
  <1>1. Zones!TypeOK => Zones!BanHasCause
    <2> SUFFICES ASSUME Zones!TypeOK PROVE Zones!BanHasCause
      OBVIOUS
    <2> DEFINE s == Zones!GeofencingStatus(zones, spot, now)
    <2>1. zones \in Seq(Forms)
      BY DEF Zones!TypeOK
    <2>2. Zones!Ban # Zones!Good /\ Zones!Ban # Zones!None /\ Zones!Good # Zones!None
      BY DEF Zones!Ban, Zones!Good, Zones!None, Zones!Status
    <2>3. ASSUME s = Zones!Ban PROVE Zones!Banned(zones, spot)
      <3>1. PICK i \in Zones!Speaking(zones, spot, now) : s = Zones!ZoneStatus(zones[i], spot, now)
        BY <2>1, <2>2, <2>3, HeadOfList
      <3> QED BY <2>3, <3>1, ZoneStatusType DEF Zones!Banned, Zones!BansAt, Zones!Speaking
    <2>4. ASSUME Zones!Banned(zones, spot) PROVE s # Zones!Good
      <3>1. PICK i \in DOMAIN zones :
              /\ zones[i].own
              /\ \/ zones[i].slug = "mainZone" /\ spot \notin zones[i].at
                 \/ zones[i].slug = "notScooters" /\ spot \in zones[i].at
        BY <2>4 DEF Zones!Banned, Zones!BansAt
      <3>2. Zones!ZoneStatus(zones[i], spot, now) = Zones!Ban
        BY <3>1, ZoneStatusType DEF Zones!Circles
      <3>3. i \in Zones!Speaking(zones, spot, now)
        BY <2>2, <3>2 DEF Zones!Speaking
      <3>4. PICK j \in Zones!Speaking(zones, spot, now) : s = Zones!ZoneStatus(zones[j], spot, now)
        BY <2>1, <3>3, HeadOfList
      <3>5. \A z, p, t : Zones!ZoneStatus(z, p, t) # Zones!Good
        BY LimitType DEF Zones!ZoneStatus, Zones!ScheduleStatus, Zones!Status, Zones!Good, Zones!None, Zones!Ban, Speeds
      <3> QED BY <3>4, <3>5
    <2> QED BY <2>3, <2>4 DEF Zones!BanHasCause
  <1> QED BY <1>1, ZonesTypeCorrect, PTL

\* A behaviour of the run is one of the zones' specification.
LEMMA RunsZones == RunSpec => Zones!Spec
  <1>1. RunInit => Zones!Init
    BY DEF RunInit
  <1>2. [RunNext]_<<part, vars, zoneVars>> => [Zones!Next]_(Zones!vars)
    <2>1. zoneVars' = zoneVars => UNCHANGED Zones!vars
      BY DEF zoneVars, Zones!vars
    <2> QED BY <2>1 DEF RunNext
  <1> QED BY <1>1, <1>2, PTL DEF RunSpec, Zones!Spec

\* At every minute of every schedule the map and the job agree on the interval,
\* and it is the one whose hours it is, but for what lies over midnight.
THEOREM IntervalsInHours == RunSpec => []ScheduleInHours
  <1>1. ASSUME NEW z \in Zones!Geofence, NEW t \in Zones!Minutes
        PROVE  LET w == Zones!Interval(z, t)
               IN  /\ w = Zones!MapInterval(z, t)
                   /\ w = "firstInterval" <=>
                        Zones!InPeriod(z.first, t) /\ ~Zones!OverMidnight(z.first)
                   /\ w = "secondInterval" <=>
                        /\ Zones!InPeriod(z.second, t) /\ w # "firstInterval"
                        /\ ~(Zones!OverMidnight(z.second) /\ t <= z.second.end)
    <2>1. /\ z.first.start \in Nat /\ z.first.end \in Nat
          /\ z.second.start \in Nat /\ z.second.end \in Nat
          /\ t \in Nat /\ t < Day /\ Day \in Nat
      BY MCTripMonitorAssumption DEF Zones!Geofence, Zones!Periods, Zones!Minutes
    <2> QED BY <2>1 DEF Zones!Interval, Zones!MapInterval, Zones!InPeriod, Zones!OverMidnight
  <1>2. Zones!TypeOK => ScheduleInHours
    <2> SUFFICES ASSUME Zones!TypeOK, NEW i \in Zones!Schedules(zones)
                 PROVE  zones[i] \in Zones!Geofence /\ now \in Zones!Minutes
      BY <1>1 DEF ScheduleInHours, Zones!ScheduleInHours
    <2>1. zones[i] \in Forms
      BY ElementOfSeq, LenProperties DEF Zones!TypeOK, Zones!Schedules
    <2> QED BY <2>1, MCTripMonitorAssumption DEF Zones!TypeOK
  <1> QED BY <1>2, ZonesTypeCorrect, RunsZones, PTL
=============================================================================
