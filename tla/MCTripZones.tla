---------------------------- MODULE MCTripZones ----------------------------
(* TripZones with the geofences of MCGeofences.                            *)
EXTENDS TripZones, MCGeofences
=============================================================================
