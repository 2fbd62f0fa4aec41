-------------------------- MODULE MCTripMonitorLive --------------------------
(***************************************************************************)
(* The fair runs of the job in TripMonitor: two that overlap on the trip   *)
(* of a rider who calls, or one that visits two trips one of whose devices *)
(* may fail.  A behaviour is of one kind, named by part.                   *)
(***************************************************************************)
EXTENDS TripMonitor

CONSTANTS a, b   \* the trips, and the runs of the job

VARIABLE part

RunInit ==
  /\ part \in {"overlap", "neighbour"}
  /\ listed = IF part = "overlap" THEN {a} ELSE Trips
  /\ cache = [t \in Trips |-> IF t \in listed THEN FreshRecord ELSE NoRecord]
  /\ ending = {}
  /\ place \in [Trips -> Statuses] /\ \A t \in Trips \ listed : place[t] = "GOOD"
  /\ engine = [t \in Trips |-> "on"]
  /\ speed = [t \in Trips |-> "normal"]
  /\ call = [c \in Calls |-> Resting("idle")]
  /\ job = [j \in Jobs |-> Resting("idle")]
  /\ todo = [j \in Jobs |-> {}]

RunNext ==
  /\ UNCHANGED part
  /\ \/ /\ part = "overlap"
        /\ \/ \E c \in Calls : CallNext(c)
           \/ \E j \in Jobs : JobNext(j)
           \/ Surroundings(a)
     \/ /\ part = "neighbour"
        /\ JobNext(a) \/ \E t \in Trips : Surroundings(t)

runVars == <<part, vars>>

(***************************************************************************)
(* TripMonitor!Fairness of the runs of the job that there are.  Since part *)
(* never changes, fairness of a disjunction with one action of each part   *)
(* is that of the action whose part runs.                                  *)
(***************************************************************************)
Runs(j) == part = "overlap" \/ j = a

Looks(x) ==
  \/ part = "overlap" /\ job[x].trip = a /\ JobLook(x)
  \/ part = "neighbour" /\ job[a].trip = x /\ JobLook(a)

Steers(x) ==
  \/ part = "overlap" /\ job[x].trip = a /\ JobEngine(x, TRUE)
  \/ part = "neighbour" /\ job[a].trip = x /\ JobEngine(a, TRUE)

RunSpec ==
  /\ RunInit /\ [][RunNext]_runVars
  /\ \A x \in {a, b} :
       /\ WF_runVars(Runs(x) /\ JobNext(x) /\ UNCHANGED part)
       /\ SF_runVars(Looks(x) /\ UNCHANGED part)
       /\ SF_runVars(Steers(x) /\ UNCHANGED part)
=============================================================================
