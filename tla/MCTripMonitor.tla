--------------------------- MODULE MCTripMonitor ---------------------------
(***************************************************************************)
(* TripMonitor, and beside it TripZones, which says where the statuses of  *)
(* the zones come from.  They share no state: a behaviour runs one of      *)
(* them, named by part.                                                    *)
(***************************************************************************)
EXTENDS TripMonitor, FiniteSets, TLC, MCGeofences

CONSTANTS Places, Day, Forms, MaxZones   \* of TripZones

VARIABLES part, zones, spot, now, round, motor, limit, shown

Zones == INSTANCE TripZones WITH
  place <- spot, job <- round, engine <- motor, speed <- limit

zoneVars == <<zones, spot, now, round, motor, limit, shown>>

ASSUME MCTripMonitorAssumption == Zones!TripZonesAssumption

RunInit ==
  /\ part \in {"monitor", "zones"} /\ Init /\ Zones!Init
  /\ part # "monitor" => place = [t \in Trips |-> "GOOD"]
  /\ part # "zones" => spot = p1 /\ now = 0

RunNext ==
  /\ UNCHANGED part
  /\ \/ part = "monitor" /\ Next /\ UNCHANGED zoneVars
     \/ part = "zones" /\ Zones!Next /\ UNCHANGED vars

RunSpec == RunInit /\ [][RunNext]_<<part, vars, zoneVars>>

Symmetry == Permutations(Calls) \cup Permutations(Jobs)

\* Bound: of the calls of pauseOn and pauseOff at most two overlap.
TwoCallsAtATime ==
  Cardinality({c \in Calls : call[c].pc \notin {"idle", "done"}}) <= 2

\* The job and the map, which compute the interval of the day each in its way,
\* agree on it, and it is the one whose hours it is, but for a first interval over
\* midnight and the part of a second one after it, which neither of them finds
\* (getCurrentScheduleTimeInterval, getCurrentSpeedLimit).
ScheduleInHours == Zones!ScheduleInHours
=============================================================================
