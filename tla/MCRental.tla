------------------------------ MODULE MCRental ------------------------------
(***************************************************************************)
(* TripProcess, and beside it the two systems a rider meets before he      *)
(* rides: MobileAuth, where he signs in, and ScooterRegistry, which puts   *)
(* the scooter on the map.  They share no state, so a behaviour runs one   *)
(* of them, named by part; the sets of model values serve them all, and    *)
(* their symmetry with them.                                               *)
(***************************************************************************)
EXTENDS MCTripProcess, Sequences

CONSTANTS
  Requests,   \* handlers under way in MobileAuth and ScooterRegistry
  Emails,     \* of MobileAuth
  MaxCalls,   \* its bound
  MaxRows     \* of ScooterRegistry

VARIABLES
  part,
  session, req, calls, phone, email, typed, rung, lapped, raced,
  rows, made, files, registered, work, told, touched, collided, mixed

SignIn == INSTANCE MobileAuth WITH
  Devices <- Scooters, Phones <- Trips, Users <- Finishes,
  Gone <- NoScooter, None <- NoTrip

Registry == INSTANCE ScooterRegistry WITH
  Devices <- Trips, Imeis <- Finishes, None <- NoTrip, folder <- files, req <- work

mobileVars   == <<session, req, calls, phone, email, typed, rung, lapped, raced>>
registryVars == <<rows, made, files, registered, work, told, touched, collided, mixed>>

ASSUME MCRentalAssumption ==
  SignIn!MobileAuthAssumption /\ Registry!ScooterRegistryAssumption

RunInit ==
  /\ part \in {"ride", "signIn", "again", "registry"}
  /\ Init /\ SignIn!Init /\ Registry!Init

\* Bounds: one part signs in to accounts after one call, with forms that write
\* one phone at most; another calls again and again and makes no account.
RunNext ==
  /\ UNCHANGED part
  /\ \/ part = "ride" /\ Next /\ UNCHANGED <<mobileVars, registryVars>>
     \/ /\ part = "signIn" /\ SignIn!Next /\ UNCHANGED <<vars, registryVars>>
        /\ Len(calls') <= 1 /\ \E p \in Trips : typed' \subseteq {p}
     \/ part = "again" /\ SignIn!Next /\ phone' = phone /\ UNCHANGED <<vars, registryVars>>
     \/ part = "registry" /\ Registry!Next /\ UNCHANGED <<vars, mobileVars>>

RunSpec == RunInit /\ [][RunNext]_<<part, vars, mobileVars, registryVars>>

RunSymmetry == Symmetry \cup Permutations(Requests)

(***************************************************************************)
(* Properties.                                                             *)
(***************************************************************************)
\* The types of the three, and the rows that sessions and handlers refer to.
TypesOK == TypeOK /\ SignIn!TypeOK /\ Registry!TypeOK

\* Whatever two requests of a device overwrite of each other, the code of a
\* session was dictated to the phone of that session; and a session gets three
\* codes and no more unless its requests overlapped, since the count is written
\* after the answer from what was read before the call (authMobile).  A call
\* that rang while its answer was lost is not counted, by the code either.
SessionsHold == SignIn!CodeOfItsPhone /\ SignIn!ThreeCalls

\* A phone has one account and an address one user, unless two handlers looked
\* for it side by side or a profile form wrote that phone: neither column is
\* unique, and UserService.update looks for the address only.
OneAccount == SignIn!OneAccount

\* Rightech, the disk and the database agree through every failure, lost answer
\* and crash of create and remove: what is registered has a row, a row has its
\* files, and a scooter answered as created is on the map until someone edits
\* or removes it.  Only an edit that moves an IMEI, a number drawn twice and a
\* slow removal that took the IMEI of a newer row excuse it.
ScootersAgree ==
  /\ Registry!RegisteredHasRow
  /\ Registry!FilesBehindRow
  /\ Registry!ToldIsOnMap
=============================================================================
