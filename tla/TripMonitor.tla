---------------------------- MODULE TripMonitor ----------------------------
(***************************************************************************)
(* What happens to a trip while it is ridden: pauseOn, pauseOff and the    *)
(* cron job updateTripInfoBackground of                                    *)
(* src/src/trip-process/trip-process.service.ts.  All three read the       *)
(* cached trip from Redis, await the device, and write their whole copy    *)
(* back.  Nest starts the job every ten seconds whether or not the last    *)
(* one has ended, so jobs overlap each other and the calls; the end of the *)
(* trip (module TripProcess) deletes the entry under all of them.          *)
(***************************************************************************)
EXTENDS Naturals, Sequences

CONSTANTS
  Trips,       \* started trips, each with its scooter
  Calls,       \* calls of pauseOn and pauseOff
  Jobs,        \* runs of the background job that may overlap
  NoTrip,
  NoRecord,    \* no entry in Redis, or no copy in hand
  Statuses,    \* what getGeofencingTripStatus()[0] can say; the job treats
               \* SCHEDULE_SPEED_LIMIT as it treats GOOD
  MaxPauses    \* bound: calls of pauseOn push no more intervals than this

\* tripInfo of IActiveTripRoot: what of it the handlers decide on or change.
Records ==
  [paused : BOOLEAN,
   pauseIntervals : Seq({"open", "closed"}),
   engineStatus : {"POWERON", "POWEROFF"},
   geofencingStatus : Statuses]

ASSUME TripMonitorAssumption ==
  /\ NoTrip \notin Trips
  /\ Statuses \subseteq {"GOOD", "TRAVEL_BAN", "ALL_TIME_SPEED_LIMIT"}
  /\ "GOOD" \in Statuses
  /\ MaxPauses \in Nat
  /\ NoRecord \notin Records

\* The record start stores (lines 188-213).
FreshRecord ==
  [paused |-> FALSE, pauseIntervals |-> <<>>, engineStatus |-> "POWERON",
   geofencingStatus |-> "GOOD"]

VARIABLES
  cache,    \* the Redis entry of each trip
  listed,   \* the trips with an ActiveTrip row
  ending,   \* the trips whose end has deleted the entry
  place,    \* the status of the zones the scooter is in
  engine,   \* what the device does
  speed,    \* the device's speed limit
  call,     \* each call of pauseOn or pauseOff: where it stands, its copy
  job,      \* each run of the job: where it stands, its trip, its copy
  todo      \* the rows each run still has to visit

tripVars == <<listed, ending, place>>
vars     == <<cache, tripVars, engine, speed, call, job, todo>>

CallPcs == {"idle", "pausing", "resuming", "pauseWrite", "resumeWrite", "done"}
JobPcs  == {"idle", "next", "look", "engine", "speed", "write"}

Resting(pc) == [pc |-> pc, trip |-> NoTrip, copy |-> NoRecord]

Init ==
  /\ cache = [t \in Trips |-> FreshRecord]
  /\ listed = Trips
  /\ ending = {}
  /\ place \in [Trips -> Statuses]
  /\ engine = [t \in Trips |-> "on"]
  /\ speed = [t \in Trips |-> "normal"]
  /\ call = [c \in Calls |-> Resting("idle")]
  /\ job = [j \in Jobs |-> Resting("idle")]
  /\ todo = [j \in Jobs |-> {}]

\* sendCommand swallows a failure: the command may or may not reach the device.
Sent(device, t, state) == {device, [device EXCEPT ![t] = state]}

(***************************************************************************)
(* pauseOn and pauseOff                                                    *)
(***************************************************************************)
CallRead(c, t, pc) ==
  /\ call[c].pc = "idle"
  /\ cache[t] # NoRecord
  /\ call' = [call EXCEPT ![c] = [pc |-> pc, trip |-> t, copy |-> cache[t]]]
  /\ UNCHANGED <<cache, tripVars, engine, speed, job, todo>>

PauseRead(c, t) == CallRead(c, t, "pausing")

ResumeRead(c, t) == CallRead(c, t, "resuming")

CallRefused(c) == call' = [call EXCEPT ![c] = Resting("done")]

Paused(r) ==
  [r EXCEPT !.paused = TRUE, !.pauseIntervals = Append(@, "open")]

\* Mutant: the first interval is closed and not the last.
ResumedFirst(r) ==
  [r EXCEPT !.paused = FALSE, !.pauseIntervals = [@ EXCEPT ![1] = "closed"]]

Resumed(r) ==
  [r EXCEPT !.paused = FALSE, !.pauseIntervals = [@ EXCEPT ![Len(@)] = "closed"]]

\* SHUT_DOWN_ENGINE; without an answer the call is refused, whatever the
\* device did.
PauseCommand(c) ==
  LET t == call[c].trip IN
  /\ call[c].pc = "pausing"
  /\ \/ /\ Len(call[c].copy.pauseIntervals) < MaxPauses
        /\ engine' = [engine EXCEPT ![t] = "off"]
        /\ call' = [call EXCEPT ![c].pc = "pauseWrite", ![c].copy = Paused(@)]
     \/ engine' \in Sent(engine, t, "off") /\ CallRefused(c)
  /\ UNCHANGED <<cache, tripVars, speed, job, todo>>

\* START_ENGINE; with no interval to close the call throws after the command.
ResumeCommand(c) ==
  LET t == call[c].trip IN
  /\ call[c].pc = "resuming"
  /\ \/ /\ call[c].copy.pauseIntervals # <<>>
        /\ engine' = [engine EXCEPT ![t] = "on"]
        /\ call' = [call EXCEPT ![c].pc = "resumeWrite", ![c].copy = Resumed(@)]
     \/ engine' \in Sent(engine, t, "on") /\ CallRefused(c)
  /\ UNCHANGED <<cache, tripVars, speed, job, todo>>

\* cacheManager.set with the copy, whatever has happened to the entry.
CallWrite(c) ==
  /\ call[c].pc \in {"pauseWrite", "resumeWrite"}
  /\ cache' = [cache EXCEPT ![call[c].trip] = call[c].copy]
  /\ CallRefused(c)
  /\ UNCHANGED <<tripVars, engine, speed, job, todo>>

(***************************************************************************)
(* updateTripInfoBackground                                                *)
(***************************************************************************)
\* Mutant: the rows are read with findFirst for findMany.
JobStartFindFirst(j) ==
  /\ job[j].pc = "idle"
  /\ job' = [job EXCEPT ![j] = Resting("next")]
  /\ todo' = [todo EXCEPT ![j] =
       IF listed = {} THEN {} ELSE {CHOOSE t \in listed : TRUE}]
  /\ UNCHANGED <<cache, tripVars, engine, speed, call>>

JobStart(j) ==
  /\ job[j].pc = "idle"
  /\ job' = [job EXCEPT ![j] = Resting("next")]
  /\ todo' = [todo EXCEPT ![j] = listed]
  /\ UNCHANGED <<cache, tripVars, engine, speed, call>>

\* Mutant: a missing entry is rebuilt.
JobGetRebuilds(j, t) ==
  /\ job[j].pc = "next"
  /\ t \in todo[j]
  /\ todo' = [todo EXCEPT ![j] = @ \ {t}]
  /\ job' = [job EXCEPT ![j] = [pc |-> "look", trip |-> t,
       copy |-> IF cache[t] = NoRecord THEN FreshRecord ELSE cache[t]]]
  /\ UNCHANGED <<cache, tripVars, engine, speed, call>>

\* The next row of the list; a trip with no entry is skipped.
JobGet(j, t) ==
  /\ job[j].pc = "next"
  /\ t \in todo[j]
  /\ todo' = [todo EXCEPT ![j] = @ \ {t}]
  /\ \/ cache[t] = NoRecord /\ UNCHANGED job
     \/ /\ cache[t] # NoRecord
        /\ job' = [job EXCEPT ![j] = [pc |-> "look", trip |-> t, copy |-> cache[t]]]
  /\ UNCHANGED <<cache, tripVars, engine, speed, call>>

JobEnd(j) ==
  /\ job[j].pc = "next"
  /\ todo[j] = {}
  /\ job' = [job EXCEPT ![j] = Resting("idle")]
  /\ UNCHANGED <<cache, tripVars, engine, speed, call, todo>>

\* findOneMobile, the packets of the device and the zones they fall in.
JobLook(j) ==
  /\ job[j].pc = "look"
  /\ job' = [job EXCEPT ![j].pc = "engine",
                        ![j].copy.geofencingStatus = place[job[j].trip]]
  /\ UNCHANGED <<cache, tripVars, engine, speed, call, todo>>

\* The device has sent no packets.
JobNoPackets(j) ==
  /\ job[j].pc = "look"
  /\ job' = [job EXCEPT ![j].pc = "write"]
  /\ UNCHANGED <<cache, tripVars, engine, speed, call, todo>>

\* Any of the reads throws: the run ends, and so do the rows after this one.
JobThrow(j) ==
  /\ job[j].pc = "look"
  /\ job' = [job EXCEPT ![j] = Resting("idle")]
  /\ todo' = [todo EXCEPT ![j] = {}]
  /\ UNCHANGED <<cache, tripVars, engine, speed, call>>

\* Mutant: no command when the record already shows the wanted state.
JobEngineTrustsRecord(j, arrives) ==
  LET ban == job[j].copy.geofencingStatus = "TRAVEL_BAN"
      wanted == IF ban THEN "POWEROFF" ELSE "POWERON" IN
  /\ job[j].pc = "engine"
  /\ job' = [job EXCEPT ![j].pc = "speed", ![j].copy.engineStatus = wanted]
  /\ engine' = IF arrives /\ job[j].copy.engineStatus # wanted
               THEN [engine EXCEPT ![job[j].trip] = IF ban THEN "off" ELSE "on"]
               ELSE engine
  /\ UNCHANGED <<cache, tripVars, speed, call, todo>>

\* Whether the trip is paused is not looked at, nor is the command's answer.
JobEngine(j, arrives) ==
  LET ban == job[j].copy.geofencingStatus = "TRAVEL_BAN" IN
  /\ job[j].pc = "engine"
  /\ job' = [job EXCEPT ![j].pc = "speed",
                        ![j].copy.engineStatus = IF ban THEN "POWEROFF" ELSE "POWERON"]
  /\ engine' = IF arrives
               THEN [engine EXCEPT ![job[j].trip] = IF ban THEN "off" ELSE "on"]
               ELSE engine
  /\ UNCHANGED <<cache, tripVars, speed, call, todo>>

JobSpeed(j) ==
  LET limit == IF job[j].copy.geofencingStatus = "ALL_TIME_SPEED_LIMIT"
               THEN "limited" ELSE "normal" IN
  /\ job[j].pc = "speed"
  /\ job' = [job EXCEPT ![j].pc = "write"]
  /\ speed' \in Sent(speed, job[j].trip, limit)
  /\ UNCHANGED <<cache, tripVars, engine, call, todo>>

JobWrite(j) ==
  /\ job[j].pc = "write"
  /\ cache' = [cache EXCEPT ![job[j].trip] = job[j].copy]
  /\ job' = [job EXCEPT ![j] = Resting("next")]
  /\ UNCHANGED <<tripVars, engine, speed, call, todo>>

(***************************************************************************)
(* The surroundings: the scooter moves, the entry expires, the trip ends.  *)
(***************************************************************************)
Move(t, status) ==
  /\ t \in listed
  /\ place' = [place EXCEPT ![t] = status]
  /\ UNCHANGED <<cache, listed, ending, engine, speed, call, job, todo>>

Expire(t) ==
  /\ cache[t] # NoRecord
  /\ cache' = [cache EXCEPT ![t] = NoRecord]
  /\ UNCHANGED <<tripVars, engine, speed, call, job, todo>>

\* endTripTest and terminateTrip: the entry goes first, then the row.
Forget(t) ==
  /\ t \in listed \ ending
  /\ ending' = ending \cup {t}
  /\ cache' = [cache EXCEPT ![t] = NoRecord]
  /\ UNCHANGED <<listed, place, engine, speed, call, job, todo>>

Unlist(t) ==
  /\ t \in listed \cap ending
  /\ listed' = listed \ {t}
  /\ UNCHANGED <<cache, ending, place, engine, speed, call, job, todo>>

CallNext(c) ==
  \/ \E t \in Trips : PauseRead(c, t) \/ ResumeRead(c, t)
  \/ PauseCommand(c) \/ ResumeCommand(c) \/ CallWrite(c)

JobNext(j) ==
  \/ JobStart(j) \/ (\E t \in Trips : JobGet(j, t)) \/ JobEnd(j)
  \/ JobLook(j) \/ JobNoPackets(j) \/ JobThrow(j)
  \/ (\E arrives \in BOOLEAN : JobEngine(j, arrives)) \/ JobSpeed(j) \/ JobWrite(j)

Surroundings(t) ==
  (\E status \in Statuses : Move(t, status)) \/ Expire(t) \/ Forget(t) \/ Unlist(t)

Next ==
  \/ \E c \in Calls : CallNext(c)
  \/ \E j \in Jobs : JobNext(j)
  \/ \E t \in Trips : Surroundings(t)

Spec == Init /\ [][Next]_vars

\* The cron starts the job again and again and each run goes on.  No device
\* fails for ever: a trip whose turn comes again and again is at some time
\* looked at with success, and a command sent again and again at some time
\* arrives.
Fairness ==
  \A j \in Jobs :
    /\ WF_vars(JobNext(j))
    /\ \A t \in Trips :
         /\ SF_vars(job[j].trip = t /\ JobLook(j))
         /\ SF_vars(job[j].trip = t /\ JobEngine(j, TRUE))

FairSpec == Spec /\ Fairness

(***************************************************************************)
(* Properties.                                                             *)
(***************************************************************************)
Holders(pcs) ==
  [pc : pcs, trip : Trips \cup {NoTrip}, copy : Records \cup {NoRecord}]

TypeOK ==
  /\ cache \in [Trips -> Records \cup {NoRecord}]
  /\ listed \subseteq Trips
  /\ ending \subseteq Trips
  /\ place \in [Trips -> Statuses]
  /\ engine \in [Trips -> {"on", "off"}]
  /\ speed \in [Trips -> {"normal", "limited"}]
  /\ call \in [Calls -> Holders(CallPcs)]
  /\ job \in [Jobs -> Holders(JobPcs)]
  /\ todo \in [Jobs -> SUBSET Trips]

LastIsOpen(intervals) == intervals # <<>> /\ intervals[Len(intervals)] = "open"

PauseCoherent(r) == r.paused <=> LastIsOpen(r.pauseIntervals)

EngineCoherent(r) ==
  r.engineStatus = "POWEROFF" <=> r.geofencingStatus = "TRAVEL_BAN"

\* Every record in Redis tells one story, whichever of the three handlers
\* wrote it last and however stale its copy was: the trip is paused exactly
\* when its last interval is open, and the engine is shown as off exactly
\* when the zone shown is a ban.
RecordCoherent ==
  \A t \in Trips : cache[t] # NoRecord =>
    PauseCoherent(cache[t]) /\ EngineCoherent(cache[t])

Cached == {t \in Trips : cache[t] # NoRecord}

Held ==
  {t \in Trips : (\E c \in Calls : call[c].trip = t) \/ (\E j \in Jobs : job[j].trip = t)}

Record == INSTANCE CachedTrip WITH stored <- Trips, cached <- Cached, held <- Held

\* pauseOn, pauseOff and the job do to the entry of a trip what TripProcess
\* takes its unnamed handlers to do: they write a copy back only if they read it
\* while it was there, and never make an entry of their own.
KeepsRecord == Record!Spec

\* Nobody holds a copy of the trip, and there is no entry to read one from.
Quiet(t) ==
  /\ cache[t] = NoRecord
  /\ \A c \in Calls : call[c].trip # t
  /\ \A j \in Jobs : job[j].trip # t

\* A trip whose entry is gone and whose copies are used up stays so, and its
\* scooter, which another rider may have by then, gets no command on its
\* behalf: not from a run that listed the trip before its row went, not from
\* a late call of the rider.
QuietStaysQuiet ==
  [][\A t \in Trips : Quiet(t) =>
       Quiet(t)' /\ engine'[t] = engine[t] /\ speed'[t] = speed[t]]_vars

\* The scooter of a trip that stays in a travel ban and in Redis is at last
\* off for good, whatever the calls and the overlapping runs do before.
BanIsEnforced ==
  \A t \in Trips :
    <>[](t \in listed /\ place[t] = "TRAVEL_BAN" /\ cache[t] # NoRecord)
    => <>[](t \in listed /\ engine[t] = "off")
=============================================================================
