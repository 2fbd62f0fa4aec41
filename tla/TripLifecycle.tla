--------------------------- MODULE TripLifecycle ---------------------------
(***************************************************************************)
(* What the rental of a scooter promises, whatever fails on the way and    *)
(* however calls overlap: a trip goes through its phases in one direction, *)
(* the deposit is pledged once and given back or kept once, a ride goes on *)
(* under a standing pledge, and a trip leaves the list of active trips     *)
(* only after it is settled.                                               *)
(***************************************************************************)
CONSTANT Trips

VARIABLES
  phase,   \* asked, riding, over, settled
  pledge,  \* none, authorized, voided, captured
  listed   \* the trips in the list of active trips

vars == <<phase, pledge, listed>>

Init ==
  /\ phase = [t \in Trips |-> "asked"]
  /\ pledge = [t \in Trips |-> "none"]
  /\ listed = {}

Advance(t, from, to) ==
  /\ phase[t] = from
  /\ phase' = [phase EXCEPT ![t] = to]

MovePledge(t, from, to) ==
  /\ pledge[t] = from
  /\ pledge' = [pledge EXCEPT ![t] = to]
  /\ UNCHANGED <<phase, listed>>

Pledge(t) == phase[t] = "asked" /\ MovePledge(t, "none", "authorized")

\* A start that fails gives the deposit back.
GiveUp(t) == phase[t] = "asked" /\ MovePledge(t, "authorized", "voided")

Ride(t) ==
  /\ pledge[t] = "authorized"
  /\ Advance(t, "asked", "riding")
  /\ listed' = listed \cup {t}
  /\ UNCHANGED pledge

End(t) == Advance(t, "riding", "over") /\ UNCHANGED <<pledge, listed>>

\* A second finish may still be handling the deposit of a settled trip.
Resolve(t) ==
  /\ phase[t] \in {"over", "settled"}
  /\ \E to \in {"voided", "captured"} : MovePledge(t, "authorized", to)

Settle(t) == Advance(t, "over", "settled") /\ UNCHANGED <<pledge, listed>>

Unlist(t) ==
  /\ phase[t] = "settled"
  /\ listed' = listed \ {t}
  /\ UNCHANGED <<phase, pledge>>

Next ==
  \E t \in Trips :
    Pledge(t) \/ GiveUp(t) \/ Ride(t) \/ End(t) \/ Resolve(t) \/ Settle(t)
    \/ Unlist(t)

Spec == Init /\ [][Next]_vars
=============================================================================
