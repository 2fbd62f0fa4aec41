--------------------------- MODULE ScooterRegistry ---------------------------
(***************************************************************************)
(* A scooter is a row, a folder with its photo and QR code, and an object  *)
(* on the Rightech platform: create, update, remove and the lists of       *)
(* src/src/scooter/scooter.service.ts over                                 *)
(* src/src/rightech-scooter/rightech-scooter.service.ts. Every statement   *)
(* may fail; what Rightech did may not be answered.                        *)
(***************************************************************************)
EXTENDS Naturals, FiniteSets

CONSTANTS
  Devices,   \* the numbers generateDeviceId draws from
  Imeis,
  Requests,  \* handlers under way
  MaxRows,   \* bound of the rows created
  None

ScooterRegistryAssumption ==
  MaxRows \in Nat /\ None \notin Devices \cup Imeis

VARIABLES
  rows,        \* Scooter: [id, device, imei, online]
  made,        \* the rows created so far
  folder,      \* the devices that have a folder of files
  registered,  \* the objects at Rightech
  req,         \* each handler
  told,        \* rows answered as created
  touched,     \* rows that someone edited, or began to remove
  collided,    \* devices drawn while they were taken
  mixed        \* IMEIs an edit moved, or that were removed for a row without them

vars == <<rows, made, folder, registered, req, told, touched, collided, mixed>>

Idle == [pc |-> "idle", id |-> 0, device |-> None, imei |-> None]
Pcs  == {"idle", "files", "register", "unregister", "drop"}

Row(i)     == {r \in rows : r.id = i}
HasImei(m) == \E r \in rows : r.imei = m
Taken(d)   == \/ d \in folder \/ \E r \in rows : r.device = d
              \/ \E k \in Requests : req[k].device = d

Init ==
  /\ rows = {} /\ made = 0 /\ folder = {} /\ registered = {}
  /\ req = [k \in Requests |-> Idle]
  /\ told = {} /\ touched = {} /\ collided = {} /\ mixed = {}

Begin(k, r)  == req[k] = Idle /\ req' = [req EXCEPT ![k] = r]
At(k, pc)    == req[k].pc = pc
Goto(k, pc)  == req' = [req EXCEPT ![k].pc = pc]
Return(k)    == req' = [req EXCEPT ![k] = Idle]

(***************************************************************************)
(* create                                                                  *)
(***************************************************************************)
\* The files are written under a number drawn at random; without an answer
\* from the QR server the photo is left.
CreateFiles(k, d, m) ==
  /\ collided' = IF Taken(d) THEN collided \cup {d} ELSE collided
  /\ folder' = folder \cup {d}
  /\ \/ Begin(k, [pc |-> "files", id |-> 0, device |-> d, imei |-> m])
     \/ req[k] = Idle /\ UNCHANGED req
  /\ UNCHANGED <<rows, made, registered, told, touched, mixed>>

\* Mutant: the IMEI may repeat.
FitsDevice(k) == \A r \in rows : r.device # req[k].device

Fits(k) == \A r \in rows : r.device # req[k].device /\ r.imei # req[k].imei

\* The row, or an error that deletes the folder of the number.
CreateRow(k) ==
  /\ At(k, "files")
  /\ \/ /\ Fits(k) /\ made < MaxRows
        /\ rows' = rows \cup {[id |-> made + 1, device |-> req[k].device,
                               imei |-> req[k].imei, online |-> TRUE]}
        /\ made' = made + 1
        /\ req' = [req EXCEPT ![k].pc = "register", ![k].id = made + 1]
        /\ UNCHANGED folder
     \/ /\ folder' = folder \ {req[k].device} /\ Return(k)
        /\ UNCHANGED <<rows, made>>
  /\ UNCHANGED <<registered, told, touched, collided, mixed>>

\* Mutant: a failure is answered like a success.
RegisterQuietly(k) ==
  /\ At(k, "register") /\ Return(k)
  /\ registered' \in {registered, registered \cup {req[k].imei}}
  /\ told' = told \cup {req[k].id}
  /\ UNCHANGED <<rows, made, folder, touched, collided, mixed>>

\* A failure throws: the branch that would take the row back is not reached.
Register(k) ==
  /\ At(k, "register") /\ Return(k)
  /\ \/ /\ req[k].imei \notin registered
        /\ registered' = registered \cup {req[k].imei}
        /\ told' \in {told, told \cup {req[k].id}}
     \/ UNCHANGED <<registered, told>>
  /\ UNCHANGED <<rows, made, folder, touched, collided, mixed>>

(***************************************************************************)
(* update                                                                  *)
(***************************************************************************)
\* Whatever columns the CRM sends; Rightech is not told.
Update(r, m, o) ==
  /\ r \in rows /\ (m = r.imei \/ ~HasImei(m))
  /\ rows' = (rows \ {r}) \cup {[r EXCEPT !.imei = m, !.online = o]}
  /\ mixed' = IF m # r.imei THEN mixed \cup {r.imei} ELSE mixed
  /\ touched' = touched \cup {r.id}
  /\ UNCHANGED <<made, folder, registered, req, told, collided>>

(***************************************************************************)
(* remove                                                                  *)
(***************************************************************************)
RemoveFind(k, r) ==
  /\ r \in rows
  /\ Begin(k, [pc |-> "unregister", id |-> r.id, device |-> None, imei |-> r.imei])
  /\ touched' = touched \cup {r.id}
  /\ UNCHANGED <<rows, made, folder, registered, told, collided, mixed>>

\* Mutant: the row is deleted though Rightech keeps the object.
UnregisterNot(k) ==
  /\ At(k, "unregister") /\ Goto(k, "drop")
  /\ UNCHANGED <<rows, made, folder, registered, told, touched, collided, mixed>>

\* Rightech refuses what it does not know; any error ends the handler.
Unregister(k) ==
  /\ At(k, "unregister")
  /\ \/ /\ req[k].imei \in registered
        /\ registered' = registered \ {req[k].imei}
        /\ mixed' = IF \E r \in Row(req[k].id) : r.imei = req[k].imei
                    THEN mixed ELSE mixed \cup {req[k].imei}
        /\ Goto(k, "drop") \/ Return(k)
     \/ Return(k) /\ UNCHANGED <<registered, mixed>>
  /\ UNCHANGED <<rows, made, folder, told, touched, collided>>

\* Mutant: the files go whether the row does or not.
DropFilesFirst(k) ==
  /\ At(k, "drop") /\ Return(k)
  /\ folder' = folder \ {r.device : r \in Row(req[k].id)}
  /\ rows' \in {rows, rows \ Row(req[k].id)}
  /\ UNCHANGED <<made, registered, told, touched, collided, mixed>>

\* The row, and at once its folder; a row that is gone is an error.
DropRow(k) ==
  /\ At(k, "drop") /\ Return(k)
  /\ \/ UNCHANGED <<rows, folder>>
     \/ \E r \in Row(req[k].id) : rows' = rows \ {r} /\ folder' = folder \ {r.device}
  /\ UNCHANGED <<made, registered, told, touched, collided, mixed>>

\* The process ends and starts again.
Crash ==
  /\ \E k \in Requests : req[k] # Idle
  /\ req' = [k \in Requests |-> Idle]
  /\ UNCHANGED <<rows, made, folder, registered, told, touched, collided, mixed>>

Next ==
  \/ \E k \in Requests :
       \/ \E d \in Devices, m \in Imeis : CreateFiles(k, d, m)
       \/ \E r \in rows : RemoveFind(k, r)
       \/ CreateRow(k) \/ Register(k) \/ Unregister(k) \/ DropRow(k)
  \/ \E r \in rows, m \in Imeis, o \in BOOLEAN : Update(r, m, o)
  \/ Crash

Spec == Init /\ [][Next]_vars

(***************************************************************************)
(* The lists join the rows with the objects of Rightech.                   *)
(***************************************************************************)
OnPlatform == {r \in rows : r.imei \in registered}   \* findAllErp of an ADMIN
OnMap      == {r \in OnPlatform : r.online}          \* findAllMobile

(***************************************************************************)
(* Properties.                                                             *)
(***************************************************************************)
\* Types, and what the schema declares unique.
TypeOK ==
  /\ rows \subseteq [id : 1 .. made, device : Devices, imei : Imeis, online : BOOLEAN]
  /\ \A r, q \in rows : r = q \/ (r.id # q.id /\ r.device # q.device /\ r.imei # q.imei)
  /\ made \in 0 .. MaxRows
  /\ folder \subseteq Devices /\ registered \subseteq Imeis
  /\ req \in [Requests -> [pc : Pcs, id : 0 .. made, device : Devices \cup {None},
                           imei : Imeis \cup {None}]]
  /\ told \subseteq 1 .. made /\ touched \subseteq 1 .. made
  /\ collided \subseteq Devices /\ mixed \subseteq Imeis

\* What Rightech has, the database knows, through every failure, lost answer
\* and crash of create and remove, unless an edit moved its IMEI: the object is
\* the last to come and the first to go.
RegisteredHasRow == \A m \in registered \ mixed : HasImei(m)

\* A scooter has its photo and QR code, unless its number was drawn twice:
\* the create that fails on the number deletes the folder it shares.
FilesBehindRow == \A r \in rows : r.device \in folder \cup collided

\* A scooter answered as created is on the map until someone edits it or begins
\* to remove it, unless a slow removal took its IMEI for that of an older row.
ToldIsOnMap ==
  \A i \in told \ touched :
    Row(i) # {} /\ \A r \in Row(i) : r \in OnMap \/ r.imei \in mixed
=============================================================================
