----------------------------- MODULE CachedTrip -----------------------------
(***************************************************************************)
(* What the handlers of a trip do to its entry in Redis, seen as one       *)
(* object: start stores it once; whoever else writes it had read it while  *)
(* it was there, and writes its copy back, perhaps after the entry is      *)
(* gone.  Both TripProcess, where the pauses and the job are anonymous,    *)
(* and TripMonitor, where they are themselves, keep to it.                 *)
(***************************************************************************)
CONSTANT Trips

VARIABLES
  stored,   \* the trips whose entry start has stored
  cached,   \* the trips that have an entry
  held      \* the trips some handler has a copy of, to write back

vars == <<stored, cached, held>>

Init == stored \subseteq Trips /\ cached = stored /\ held = {}

Store(t) ==
  /\ t \notin stored
  /\ stored' = stored \cup {t}
  /\ cached' = cached \cup {t}
  /\ UNCHANGED held

Read(t) == t \in cached /\ held' = held \cup {t} /\ UNCHANGED <<stored, cached>>

\* Another handler may still hold a copy of the same trip.
Write(t) ==
  /\ t \in held
  /\ cached' = cached \cup {t}
  /\ held' \in {held, held \ {t}}
  /\ UNCHANGED stored

Abandon(t) == held' = held \ {t} /\ UNCHANGED <<stored, cached>>

\* The end of the trip, the TTL, or a loss.
Lose(t) == cached' = cached \ {t} /\ UNCHANGED <<stored, held>>

Next == \E t \in Trips : Store(t) \/ Read(t) \/ Write(t) \/ Abandon(t) \/ Lose(t)

Spec == Init /\ [][Next]_vars
=============================================================================
