--------------------------- MODULE FranchiseSetup ---------------------------
(***************************************************************************)
(* A franchise is set up in the CRM: its city                              *)
(* (src/src/city/city.service.ts), its row and its owner                   *)
(* (src/src/franchise/franchise.service.ts), and the types of its          *)
(* geofences, each a row and a row of parameters, which createGeofenceType *)
(* of src/src/geofence/geofence.service.ts leaves to tasks nobody awaits.  *)
(* The removal of a franchise is in the service, but no route leads to it. *)
(***************************************************************************)
EXTENDS Naturals, Sequences

CONSTANTS
  Cities, Franchises, Owners,   \* the rows that may be created
  Slugs,                        \* the types every franchise gets
  Requests,                     \* handlers under way
  MaxBatches,                   \* bound of the orders of types per franchise
  MaxEdits,                     \* bound of the edits of types
  None

FranchiseSetupAssumption ==
  /\ MaxBatches \in Nat \ {0} /\ MaxEdits \in Nat
  /\ None \notin Cities \cup Franchises \cup Owners

VARIABLES
  city,      \* of each city: "new", "row" or "removed"
  cityOf,    \* cityId of each franchise, None before it is created
  owner,     \* ownerId of each franchise
  account,   \* of each owner: "new", "row" or "removed"
  types,     \* the rows of GeofenceType, by id, with those of their parameters
  work,      \* the inserts that createGeofenceType has left under way
  batches,   \* how often the types of each franchise were ordered
  req,       \* each handler
  edits,     \* the edits of types so far
  broken,    \* franchises whose last order of types died with the process
  torn       \* types whose edits overlapped, or failed half way

rowVars  == <<city, cityOf, owner, account>>
typeVars == <<types, work, batches, broken>>
editVars == <<edits, torn>>
vars == <<rowVars, typeVars, editVars, req>>

Idle == [pc |-> "idle", city |-> None, franchise |-> None, owner |-> None,
         type |-> 0, edit |-> 0]
Pcs  == {"idle", "city", "connect", "params"}
Type(f, s) == [franchise |-> f, slug |-> s, full |-> FALSE, edit |-> 0, params |-> 0]
TypeWork(f, s, n) == [franchise |-> f, slug |-> s, batch |-> n, type |-> 0]

Init ==
  /\ city = [c \in Cities |-> "new"]
  /\ cityOf = [f \in Franchises |-> None] /\ owner = [f \in Franchises |-> None]
  /\ account = [o \in Owners |-> "new"]
  /\ types = <<>> /\ work = {} /\ batches = [f \in Franchises |-> 0]
  /\ req = [k \in Requests |-> Idle]
  /\ edits = 0 /\ broken = {} /\ torn = {}

Begin(k, r) == req[k] = Idle /\ req' = [req EXCEPT ![k] = r]
Return(k)   == req' = [req EXCEPT ![k] = Idle]
Created(f)  == cityOf[f] # None

\* forEach(async ...): every insert is sent, and none awaited.
Order(f) ==
  /\ work' = work \cup {TypeWork(f, s, batches[f] + 1) : s \in Slugs}
  /\ batches' = [batches EXCEPT ![f] = @ + 1]

(***************************************************************************)
(* Cities, franchises and their owners                                     *)
(***************************************************************************)
\* CityService.create, alone or as the first statement of FranchiseService.create.
CreateCity(c) ==
  /\ city[c] = "new"
  /\ city' = [city EXCEPT ![c] = "row"]
  /\ \/ UNCHANGED req
     \/ \E k \in Requests : Begin(k, [Idle EXCEPT !.pc = "city", !.city = c])
  /\ UNCHANGED <<cityOf, owner, account, typeVars, editVars>>

RemoveCity(c) ==
  /\ city[c] = "row" /\ \A f \in Franchises : cityOf[f] # c
  /\ city' = [city EXCEPT ![c] = "removed"]
  /\ UNCHANGED <<cityOf, owner, account, typeVars, editVars, req>>

\* Mutant: the types are left to the route that orders them again.
CreateFranchiseBare(k) ==
  /\ req[k].pc = "city" /\ Return(k)
  /\ \E f \in Franchises : ~Created(f) /\ cityOf' = [cityOf EXCEPT ![f] = req[k].city]
  /\ UNCHANGED <<city, owner, account, typeVars, editVars>>

\* The row, or an error that leaves the city; it fails when the city is gone.
CreateFranchise(k) ==
  /\ req[k].pc = "city" /\ Return(k)
  /\ \/ UNCHANGED <<cityOf, work, batches>>
     \/ \E f \in Franchises :
          /\ ~Created(f) /\ city[req[k].city] = "row"
          /\ cityOf' = [cityOf EXCEPT ![f] = req[k].city]
          /\ Order(f)
  /\ UNCHANGED <<city, owner, account, types, broken, editVars>>

\* connectOwnerToFranchise registers the owner first (module EmployeeAccess).
RegisterOwner(k, o, f) ==
  /\ account[o] = "new"
  /\ account' = [account EXCEPT ![o] = "row"]
  /\ Begin(k, [Idle EXCEPT !.pc = "connect", !.owner = o, !.franchise = f])
  /\ UNCHANGED <<city, cityOf, owner, typeVars, editVars>>

\* The update replaces an earlier owner; its failure is logged and no more.
ConnectOwner(k) ==
  /\ req[k].pc = "connect" /\ Return(k)
  /\ \/ UNCHANGED owner
     \/ /\ Created(req[k].franchise) /\ account[req[k].owner] = "row"
        /\ owner' = [owner EXCEPT ![req[k].franchise] = req[k].owner]
  /\ UNCHANGED <<city, cityOf, account, typeVars, editVars>>

\* Mutant: the franchise keeps the id of the owner.
RemoveOwnerOnly(o) ==
  /\ account[o] = "row" /\ account' = [account EXCEPT ![o] = "removed"]
  /\ UNCHANGED <<city, cityOf, owner, typeVars, editVars, req>>

\* The account is removed; the reference is set to null.
RemoveOwner(o) ==
  /\ account[o] = "row" /\ account' = [account EXCEPT ![o] = "removed"]
  /\ owner' = [f \in Franchises |-> IF owner[f] = o THEN None ELSE owner[f]]
  /\ UNCHANGED <<city, cityOf, typeVars, editVars, req>>

(***************************************************************************)
(* The types of geofences                                                  *)
(***************************************************************************)
\* POST geofence/types orders all types again.
OrderTypes(f) ==
  /\ Created(f) /\ batches[f] < MaxBatches
  /\ Order(f) /\ broken' = broken \ {f}
  /\ UNCHANGED <<rowVars, types, editVars, req>>

\* Mutant: the parameters are left out.
MakeTypeBare(w) ==
  /\ w \in work /\ w.type = 0
  /\ types' = Append(types, Type(w.franchise, w.slug))
  /\ work' = work \ {w}
  /\ UNCHANGED <<rowVars, batches, broken, editVars, req>>

MakeType(w) ==
  /\ w \in work /\ w.type = 0
  /\ types' = Append(types, Type(w.franchise, w.slug))
  /\ work' = (work \ {w}) \cup {[w EXCEPT !.type = Len(types) + 1]}
  /\ UNCHANGED <<rowVars, batches, broken, editVars, req>>

MakeParams(w) ==
  /\ w \in work /\ w.type # 0
  /\ types' = [types EXCEPT ![w.type].full = TRUE]
  /\ work' = work \ {w}
  /\ UNCHANGED <<rowVars, batches, broken, editVars, req>>

Ordered == {w.franchise : w \in work}

\* The process ends: by itself, or because an insert that nobody awaits fails,
\* which is an unhandled rejection.
Crash ==
  /\ work # {} \/ \E k \in Requests : req[k] # Idle
  /\ work' = {} /\ req' = [k \in Requests |-> Idle]
  /\ broken' = broken \cup Ordered
  /\ torn' = torn \cup ({req[k].type : k \in Requests} \ {0})
  /\ UNCHANGED <<rowVars, types, batches, edits>>

\* updateGeofenceType: the row is updated, and then its parameters.
UpdateType(k, i) ==
  /\ edits < MaxEdits
  /\ Begin(k, [Idle EXCEPT !.pc = "params", !.type = i, !.edit = edits + 1])
  /\ types' = [types EXCEPT ![i].edit = edits + 1]
  /\ edits' = edits + 1
  /\ torn' = IF \E l \in Requests : req[l].type = i THEN torn \cup {i} ELSE torn
  /\ UNCHANGED <<rowVars, work, batches, broken>>

\* Mutant: a second edit leaves the parameters alone.
UpdateParamsOnce(k) ==
  /\ req[k].pc = "params" /\ Return(k)
  /\ types' = [types EXCEPT ![req[k].type].params = IF @ = 0 THEN req[k].edit ELSE @]
  /\ UNCHANGED <<rowVars, work, batches, broken, editVars>>

\* Without parameters, or when the update fails, the answer is null, though
\* the row is changed.
UpdateParams(k) ==
  /\ req[k].pc = "params" /\ Return(k)
  /\ \/ /\ types[req[k].type].full
        /\ types' = [types EXCEPT ![req[k].type].params = req[k].edit]
        /\ UNCHANGED torn
     \/ torn' = torn \cup {req[k].type} /\ UNCHANGED types
  /\ UNCHANGED <<rowVars, work, batches, broken, edits>>

Next ==
  \/ \E c \in Cities : CreateCity(c) \/ RemoveCity(c)
  \/ \E o \in Owners : RemoveOwner(o)
  \/ \E f \in Franchises : OrderTypes(f)
  \/ \E w \in work : MakeType(w) \/ MakeParams(w)
  \/ \E k \in Requests :
       \/ CreateFranchise(k) \/ ConnectOwner(k) \/ UpdateParams(k)
       \/ \E o \in Owners, f \in Franchises : RegisterOwner(k, o, f)
       \/ \E i \in 1 .. Len(types) : UpdateType(k, i)
  \/ Crash

Spec == Init /\ [][Next]_vars

(***************************************************************************)
(* Properties.                                                             *)
(***************************************************************************)
\* Types, and the references of franchises, types and edits to their rows.
TypeOK ==
  /\ city \in [Cities -> {"new", "row", "removed"}]
  /\ account \in [Owners -> {"new", "row", "removed"}]
  /\ cityOf \in [Franchises -> Cities \cup {None}] /\ owner \in [Franchises -> Owners \cup {None}]
  /\ \A f \in Franchises : /\ Created(f) => city[cityOf[f]] = "row"
                           /\ owner[f] # None => account[owner[f]] = "row"
  /\ types \in Seq([franchise : Franchises, slug : Slugs, full : BOOLEAN,
                    edit : 0 .. MaxEdits, params : 0 .. MaxEdits])
  /\ work \subseteq [franchise : Franchises, slug : Slugs, batch : 1 .. MaxBatches,
                     type : 0 .. Len(types)]
  /\ batches \in [Franchises -> 0 .. MaxBatches]
  /\ req \in [Requests -> [pc : Pcs, city : Cities \cup {None}, type : 0 .. Len(types),
                           franchise : Franchises \cup {None},
                           owner : Owners \cup {None}, edit : 0 .. MaxEdits]]
  /\ edits \in 0 .. MaxEdits
  /\ broken \subseteq Franchises /\ torn \subseteq 1 .. Len(types)

RowsOf(f, s) == {i \in 1 .. Len(types) : types[i].franchise = f /\ types[i].slug = s}
Coming(f, s) == \E w \in work : w.franchise = f /\ w.slug = s

\* A franchise has every type with its parameters, or its insert is under way,
\* unless the process died on them; the route that orders types repairs that.
TypesComplete ==
  \A f \in Franchises \ broken : Created(f) =>
    \A s \in Slugs : Coming(f, s) \/ \E i \in RowsOf(f, s) : types[i].full

\* The row of a type and its parameters come from the same edit, unless edits
\* overlapped or one failed between the two updates (updateGeofenceType).
EditsAgree ==
  \A i \in 1 .. Len(types) :
    \/ i \in torn \/ types[i].edit = types[i].params
    \/ \E k \in Requests : req[k].type = i
=============================================================================
