---------------------------- MODULE MCGeofences ----------------------------
(* Geofences for the runs of TripZones: a day of six minutes, three places. *)
CONSTANTS p1, p2, p3

Drawn(slug, at) ==
  [slug |-> slug, own |-> TRUE, at |-> at, timed |-> TRUE,
   first |-> [start |-> 1, end |-> 2], second |-> [start |-> 4, end |-> 0],
   allTimeSpeedLimit |-> 10, firstSpeedLimit |-> 15, secondSpeedLimit |-> 5]

ThreePlaces == {p1, p2, p3}

\* One geofence of each kind that the job obeys, and one of another franchise.
MCForms ==
  { Drawn("mainZone", {p1, p2}), [Drawn("mainZone", {}) EXCEPT !.own = FALSE],
    Drawn("notScooters", {p2}), Drawn("speedLimitAllDay", {p1, p2}),
    Drawn("speedLimitSchedule", {p2}),
    [Drawn("speedLimitSchedule", {p1}) EXCEPT !.timed = FALSE] }
=============================================================================
