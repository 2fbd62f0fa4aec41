----------------------------- MODULE TripZones -----------------------------
(***************************************************************************)
(* What the geofences mean for a trip: getGeofencingTripStatus and the     *)
(* engine and speed steps of the background job in                         *)
(* src/src/trip-process/trip-process.service.ts, over the table that the   *)
(* CRM edits through src/src/geofence/geofence.service.ts.                 *)
(*                                                                         *)
(* A polygon or circle is the set of places it covers.  The job is one     *)
(* trip's share of a run; TripMonitor has the interleavings of the job     *)
(* with the rider.                                                         *)
(***************************************************************************)
EXTENDS Naturals, Sequences

CONSTANTS
  Places,
  Day,        \* minutes of a day (24 * 60)
  Forms,      \* the geofences that the CRM may draw
  MaxZones    \* bound of the table

Slugs == {"mainZone", "paidParkingCircle", "parkingPolygon", "parkingCircle",
          "notParking", "notScooters", "speedLimitAllDay", "speedLimitSchedule"}

Circles == {"paidParkingCircle", "parkingCircle"}
Minutes == 0 .. Day - 1
Periods == [start : Minutes, end : Minutes]

\* A row with its type, drawn over the places at; the hours may be missing.
Geofence == [slug : Slugs, own : BOOLEAN, at : SUBSET Places,
             timed : BOOLEAN, first : Periods, second : Periods,
             allTimeSpeedLimit : Nat, firstSpeedLimit : Nat, secondSpeedLimit : Nat]

ASSUME TripZonesAssumption ==
  /\ Day \in Nat \ {0} /\ MaxZones \in Nat
  /\ Forms \subseteq Geofence

VARIABLES
  zones,    \* the table, newest first
  place,    \* where the packets see the scooter
  now,      \* the minute of the day
  job,      \* the run: where it stands and the status it has computed
  engine, speed,   \* of the device
  shown     \* geofencingStatus of the cached trip

vars == <<zones, place, now, job, engine, speed, shown>>

(***************************************************************************)
(* The status of a place                                                   *)
(***************************************************************************)
Status(word, limit) == [word |-> word, limit |-> limit]
Ban  == Status("TRAVEL_BAN", 0)
Good == Status("GOOD", 0)
None == Status("none", 0)

Limit(v) == IF v \in {5, 10, 15, 20} THEN v ELSE 25

\* Mutant: the hours are not tested at their start.
IntervalFromMidnight(z, t) ==
  LET end == IF z.second.end < z.second.start THEN z.second.end + Day ELSE z.second.end
  IN  IF t \in z.first.start .. z.first.end THEN "firstInterval"
      ELSE IF t \in 0 .. end THEN "secondInterval" ELSE "noInterval"

\* getCurrentScheduleTimeInterval: only the end of the second interval is
\* carried over midnight, and the time of the day is not.
Interval(z, t) ==
  LET end == IF z.second.end < z.second.start THEN z.second.end + Day ELSE z.second.end
  IN  IF t \in z.first.start .. z.first.end THEN "firstInterval"
      ELSE IF t \in z.second.start .. end THEN "secondInterval" ELSE "noInterval"

ScheduleStatus(z, t) ==
  Status("SCHEDULE_SPEED_LIMIT",
         CASE Interval(z, t) = "firstInterval"  -> Limit(z.firstSpeedLimit)
           [] Interval(z, t) = "secondInterval" -> Limit(z.secondSpeedLimit)
           [] OTHER -> 25)

\* What one geofence adds to the list of getGeofencingTripStatus.
ZoneStatus(z, p, t) ==
  IF ~z.own \/ z.slug \in Circles THEN None
  ELSE CASE z.slug = "mainZone" /\ p \notin z.at -> Ban
         [] z.slug = "notScooters" /\ p \in z.at -> Ban
         [] z.slug = "speedLimitAllDay" /\ p \in z.at ->
              Status("ALL_TIME_SPEED_LIMIT", Limit(z.allTimeSpeedLimit))
         [] z.slug = "speedLimitSchedule" /\ p \in z.at -> ScheduleStatus(z, t)
         [] OTHER -> None

Speaking(zs, p, t) == {i \in DOMAIN zs : ZoneStatus(zs[i], p, t) # None}

\* Mutant: the geofences are read in the order of their rows.
OldestStatus(zs, p, t) ==
  LET S == Speaking(zs, p, t)
  IN  IF S = {} THEN Good
      ELSE ZoneStatus(zs[CHOOSE i \in S : \A j \in S : j <= i], p, t)

\* The head of the list, which is all that the job reads.
GeofencingStatus(zs, p, t) ==
  LET S == Speaking(zs, p, t)
  IN  IF S = {} THEN Good
      ELSE ZoneStatus(zs[CHOOSE i \in S : \A j \in S : i <= j], p, t)

\* A schedule without hours makes the split of its hours throw.
Unreadable(zs, p) ==
  \E i \in DOMAIN zs : /\ zs[i].own /\ zs[i].slug = "speedLimitSchedule"
                       /\ p \in zs[i].at /\ ~zs[i].timed

\* getCurrentSpeedLimit of the mobile map, a second copy of the same test.
MapInterval(z, t) ==
  LET over == z.second.end < z.second.start
      end  == z.second.end + (IF over THEN Day ELSE 0)
  IN  CASE z.first.start <= t /\ t <= z.first.end -> "firstInterval"
        [] ~(z.first.start <= t /\ t <= z.first.end)
             /\ z.second.start <= t /\ t <= end -> "secondInterval"
        [] OTHER -> "noInterval"

(***************************************************************************)
(* The table                                                               *)
(***************************************************************************)
Init ==
  /\ zones = <<>> /\ place \in Places /\ now \in Minutes
  /\ job = [pc |-> "idle", status |-> None]
  /\ engine = "on" /\ speed = 25
  /\ shown = Good

CreateGeofence(z) ==
  /\ Len(zones) < MaxZones
  /\ zones' = <<z>> \o zones
  /\ UNCHANGED <<place, now, job, engine, speed, shown>>

UpdateGeofence(i, z) ==
  /\ zones' = [zones EXCEPT ![i] = z]
  /\ UNCHANGED <<place, now, job, engine, speed, shown>>

DeleteGeofence(i) ==
  /\ zones' = SubSeq(zones, 1, i - 1) \o SubSeq(zones, i + 1, Len(zones))
  /\ UNCHANGED <<place, now, job, engine, speed, shown>>

Ride(p) ==
  /\ place' = p
  /\ UNCHANGED <<zones, now, job, engine, speed, shown>>

Tick ==
  /\ now' = (now + 1) % Day
  /\ UNCHANGED <<zones, place, job, engine, speed, shown>>

(***************************************************************************)
(* The job                                                                 *)
(***************************************************************************)
JobLook ==
  /\ job.pc = "idle" /\ ~Unreadable(zones, place)
  /\ job' = [pc |-> "looked", status |-> GeofencingStatus(zones, place, now)]
  /\ UNCHANGED <<zones, place, now, engine, speed, shown>>

\* getPer30SecPackets has nothing yet: the run commands nothing and writes the
\* record back with the status it read.
JobNoPackets ==
  /\ job.pc = "idle"
  /\ job' = [pc |-> "sped", status |-> shown]
  /\ UNCHANGED <<zones, place, now, engine, speed, shown>>

\* A command that does not arrive changes nothing; the job goes on.
JobEngine(ok) ==
  /\ job.pc = "looked"
  /\ job' = [job EXCEPT !.pc = "steered"]
  /\ engine' = IF ~ok THEN engine ELSE IF job.status = Ban THEN "off" ELSE "on"
  /\ UNCHANGED <<zones, place, now, speed, shown>>

\* Only the limit of the whole day is sent; the lines that would send the one of
\* a schedule are a comment, and the scooter is set to 25.
JobSpeed(ok) ==
  /\ job.pc = "steered"
  /\ job' = [job EXCEPT !.pc = "sped"]
  /\ speed' = IF ~ok THEN speed
              ELSE IF job.status.word = "ALL_TIME_SPEED_LIMIT" THEN job.status.limit ELSE 25
  /\ UNCHANGED <<zones, place, now, engine, shown>>

JobSave ==
  /\ job.pc = "sped"
  /\ shown' = job.status
  /\ job' = [pc |-> "idle", status |-> None]
  /\ UNCHANGED <<zones, place, now, engine, speed>>

Job == JobLook \/ JobNoPackets \/ (\E ok \in BOOLEAN : JobEngine(ok) \/ JobSpeed(ok)) \/ JobSave

Edit ==
  \/ \E z \in Forms : CreateGeofence(z)
  \/ \E i \in DOMAIN zones : DeleteGeofence(i) \/ \E z \in Forms : UpdateGeofence(i, z)

Next == Edit \/ (\E p \in Places : Ride(p)) \/ Tick \/ Job

Spec == Init /\ [][Next]_vars

\* The job runs every ten seconds; it asks for the packets since the start of the
\* trip, of which there are some from the first one on; and not every command is
\* lost.
FairSpec == /\ Spec /\ WF_vars(Job) /\ SF_vars(JobLook)
            /\ SF_vars(JobEngine(TRUE)) /\ SF_vars(JobSpeed(TRUE))

(***************************************************************************)
(* Properties.                                                             *)
(***************************************************************************)
TripStatuses == [word : {"TRAVEL_BAN", "GOOD", "none"}, limit : {0}]
                  \cup [word : {"ALL_TIME_SPEED_LIMIT", "SCHEDULE_SPEED_LIMIT"},
                        limit : {5, 10, 15, 20, 25}]

TypeOK ==
  /\ zones \in Seq(Forms) /\ Len(zones) <= MaxZones
  /\ place \in Places /\ now \in Minutes
  /\ job \in [pc : {"idle", "looked", "steered", "sped"}, status : TripStatuses]
  /\ engine \in {"on", "off"} /\ speed \in {5, 10, 15, 20, 25}
  /\ shown \in TripStatuses

\* What a geofence of the franchise is for: it bans, or it slows down.
BansAt(z, p) == /\ z.own
                /\ \/ z.slug = "mainZone" /\ p \notin z.at
                   \/ z.slug = "notScooters" /\ p \in z.at
SlowsAt(z, p) == z.own /\ z.slug \in {"speedLimitAllDay", "speedLimitSchedule"} /\ p \in z.at

\* A place is banned by the geofences of its franchise that say so.
Banned(zs, p) == \E i \in DOMAIN zs : BansAt(zs[i], p)

InPeriod(q, t) == IF q.start <= q.end THEN q.start <= t /\ t <= q.end
                                      ELSE q.start <= t \/ t <= q.end

Schedules(zs) == {i \in DOMAIN zs : zs[i].slug = "speedLimitSchedule" /\ zs[i].timed}

\* getGeofencingTripStatus bans only where a geofence of the franchise bans,
\* and finds nothing to say only where none has anything to say.
BanHasCause ==
  LET s == GeofencingStatus(zones, place, now)
  IN  /\ s = Ban => Banned(zones, place)
      /\ Banned(zones, place) => s # Good

OverMidnight(q) == q.end < q.start

\* The hours of a schedule that getCurrentScheduleTimeInterval finds are those of
\* the CRM but for two cases: a first interval over midnight is never found, and
\* of a second one only the part before midnight.  The mobile map
\* (getCurrentSpeedLimit) shows the interval that the job uses.
ScheduleInHours ==
  \A i \in Schedules(zones) :
    LET z == zones[i]
        w == Interval(z, now)
    IN  /\ w = MapInterval(z, now)
        /\ w = "firstInterval" <=> InPeriod(z.first, now) /\ ~OverMidnight(z.first)
        /\ w = "secondInterval" <=>
             /\ InPeriod(z.second, now) /\ w # "firstInterval"
             /\ ~(OverMidnight(z.second) /\ now <= z.second.end)

Rest == <>[][FALSE]_<<zones, place, now>>

\* The zone i has something to say here and no newer one has.
Heard(i) ==
  /\ BansAt(zones[i], place) \/ SlowsAt(zones[i], place)
  /\ \A j \in 1 .. i - 1 : ~BansAt(zones[j], place) /\ ~SlowsAt(zones[j], place)

HeardBan == \E i \in DOMAIN zones : Heard(i) /\ BansAt(zones[i], place)
HeardLimits == {Limit(zones[i].allTimeSpeedLimit) :
                  i \in {k \in DOMAIN zones : Heard(k) /\ zones[k].slug = "speedLimitAllDay"}}

Settled ==
  /\ engine = "off" <=> HeardBan
  /\ speed \in IF HeardLimits = {} THEN {25} ELSE HeardLimits
  /\ shown = GeofencingStatus(zones, place, now)

\* When the CRM, the rider and the hours come to rest, the device obeys the
\* newest geofence that bans or slows down here, though runs without packets and
\* lost commands come between: the engine stands if that zone bans and only
\* then, the limit is the one of a zone for the whole day and 25 in every other
\* place, those of a schedule included, and the trip shows the status.  An older
\* ban under a newer zone of slow riding is not obeyed.  A schedule without hours
\* stops the job instead.
DeviceSettles == Rest => <>[](Unreadable(zones, place) \/ Settled)
=============================================================================
