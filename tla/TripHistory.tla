----------------------------- MODULE TripHistory -----------------------------
(***************************************************************************)
(* The Trip rows of one rider as src/src/trip/trip.service.ts lists, makes *)
(* and removes them, while trips go on, and their photos, which            *)
(* saveTripPhoto of src/src/trip-process writes too.  The list holds the   *)
(* rider's trips that are over, latest start first, and is read page by    *)
(* page; each page is a query of its own.                                  *)
(***************************************************************************)
EXTENDS Naturals, Sequences, FiniteSets, SequencesExt

CONSTANTS
  Trips,      \* the rows that may be created
  Removals,   \* calls of remove
  Shots,      \* calls of saveTripPhoto
  PageSize,   \* DEFAULT_PAGE_SIZE
  LastTime,   \* bound of the clock
  None

TripHistoryAssumption ==
  /\ IsFiniteSet(Trips) /\ None \notin Trips
  /\ PageSize \in Nat \ {0} /\ LastTime \in Nat

VARIABLES
  row,         \* of each trip: "none", "listed", "unlisted" (endTime is null, or
               \* it is another rider's), "gone"
  startTime,
  clock,
  photos,      \* trips that were created with a photo, or given one since
  folder,      \* trips whose folder of photos is on the disk
  saving,      \* the trip of each saveTripPhoto, once it was found
  written,     \* the saveTripPhotos whose file is on the disk
  refused,     \* trips whose last photo was refused by the database
  removal,     \* the trip of each removal, once it was found
  reader,      \* the application on the list of trips: the page it has, what it saw
  unsteady     \* a trip left the list, was moved, or tied with another meanwhile

shotVars == <<saving, written, refused>>
rowVars == <<row, startTime, clock, photos, folder, shotVars, removal>>
vars    == <<rowVars, reader, unsteady>>

Over == {t \in Trips : row[t] = "listed"}
There(t) == row[t] \in {"unlisted", "listed"}
Away == [page |-> 0, seen |-> {}, began |-> {}, done |-> FALSE]

Init ==
  /\ row = [t \in Trips |-> "none"] /\ startTime = [t \in Trips |-> 0] /\ clock = 0
  /\ photos = {} /\ folder = {}
  /\ removal = [k \in Removals |-> None]
  /\ saving = [k \in Shots |-> None] /\ written = {} /\ refused = {}
  /\ reader = Away /\ unsteady = FALSE

Tied == \E t, u \in Over : t # u /\ startTime[t] = startTime[u]
Shakes(b) == unsteady' = (unsteady \/ b \/ Tied')

(***************************************************************************)
(* Trips come and go                                                       *)
(***************************************************************************)
\* A trip starts now and ends later, in any order (module TripProcess).
Ride(t) ==
  /\ row[t] = "none" /\ clock < LastTime
  /\ row' = [row EXCEPT ![t] = "unlisted"]
  /\ clock' = clock + 1 /\ startTime' = [startTime EXCEPT ![t] = clock + 1]
  /\ UNCHANGED <<photos, folder, shotVars, removal, reader>> /\ Shakes(FALSE)

EndRide(t) ==
  /\ row[t] = "unlisted" /\ row' = [row EXCEPT ![t] = "listed"]
  /\ UNCHANGED <<startTime, clock, photos, folder, shotVars, removal, reader>> /\ Shakes(FALSE)

\* create takes both times from the application, and writes the photo first;
\* when the row fails the folder stays.
Create(t) ==
  /\ row[t] = "none"
  /\ \E s \in 1 .. LastTime, withPhoto \in BOOLEAN, stored \in BOOLEAN :
       /\ folder' = IF withPhoto THEN folder \cup {t} ELSE folder
       /\ photos' = IF withPhoto THEN photos \cup {t} ELSE photos
       /\ row' = [row EXCEPT ![t] = IF stored THEN "listed" ELSE "gone"]
       /\ startTime' = [startTime EXCEPT ![t] = IF stored THEN s ELSE 0]
  /\ UNCHANGED <<clock, shotVars, removal, reader>> /\ Shakes(FALSE)

\* update writes what it is given: times, an endTime of null, another rider.
Update(t) ==
  /\ There(t)
  /\ \E s \in 1 .. LastTime, to \in {"unlisted", "listed"} :
       /\ startTime' = [startTime EXCEPT ![t] = s]
       /\ row' = [row EXCEPT ![t] = to]
       /\ Shakes(s # startTime[t] \/ (row[t] = "listed" /\ to = "unlisted"))
  /\ UNCHANGED <<clock, photos, folder, shotVars, removal, reader>>

RemoveFind(k, t) ==
  /\ removal[k] = None /\ There(t)
  /\ removal' = [removal EXCEPT ![k] = t]
  /\ UNCHANGED <<row, startTime, clock, photos, folder, shotVars, reader, unsteady>>

\* Mutant: the folder is removed whether or not the row is.
RemoveFolderFirst(k) ==
  LET t == removal[k] IN
  /\ t # None /\ removal' = [removal EXCEPT ![k] = None]
  /\ folder' = folder \ {t}
  /\ \/ UNCHANGED <<row, unsteady>>
     \/ /\ There(t)
        /\ row' = [row EXCEPT ![t] = "gone"]
        /\ Shakes(TRUE)
  /\ UNCHANGED <<startTime, clock, photos, shotVars, reader>>

\* A row with a debt or a fine is not deleted, nor one that is gone; then the
\* handler stumbles over the missing row before it comes to the folder.
RemoveRow(k) ==
  LET t == removal[k] IN
  /\ t # None /\ removal' = [removal EXCEPT ![k] = None]
  /\ \/ UNCHANGED <<row, folder, unsteady>>
     \/ /\ There(t)
        /\ row' = [row EXCEPT ![t] = "gone"]
        /\ folder' = folder \ {t}
        /\ Shakes(TRUE)
  /\ UNCHANGED <<startTime, clock, photos, shotVars, reader>>

(***************************************************************************)
(* saveTripPhoto                                                           *)
(***************************************************************************)
listVars == <<startTime, clock, removal, reader, unsteady>>

PhotoFind(k, t) ==
  /\ saving[k] = None /\ There(t)
  /\ saving' = [saving EXCEPT ![k] = t]
  /\ UNCHANGED <<row, photos, folder, written, refused, listVars>>

\* The file goes where create puts it, whatever became of the row.
PhotoWrite(k) ==
  LET t == saving[k] IN
  /\ t # None /\ k \notin written
  /\ \/ /\ written' = written \cup {k} /\ folder' = folder \cup {t}
        /\ refused' = refused \ {t} /\ UNCHANGED saving
     \/ /\ saving' = [saving EXCEPT ![k] = None]   \* the photo is no base64
        /\ UNCHANGED <<written, folder, refused>>
  /\ UNCHANGED <<row, photos, listVars>>

\* When the row is not updated the whole folder goes, a photo of before too.
PhotoUpdate(k) ==
  LET t == saving[k] IN
  /\ k \in written
  /\ saving' = [saving EXCEPT ![k] = None] /\ written' = written \ {k}
  /\ \/ There(t) /\ photos' = photos \cup {t} /\ UNCHANGED <<folder, refused>>
     \/ folder' = folder \ {t} /\ refused' = refused \cup {t} /\ UNCHANGED photos
  /\ UNCHANGED <<row, listVars>>

(***************************************************************************)
(* getUserTrips                                                            *)
(***************************************************************************)
\* Descending start; trips that tie come in any order.
Lists ==
  {s \in SetToSeqs(Over) :
     \A i, j \in 1 .. Len(s) : i < j => startTime[s[i]] >= startTime[s[j]]}

AtMost(a, b) == IF a <= b THEN a ELSE b

\* Mutant: the pages are counted from nought.
PageFromNought(s, page) ==
  SubSeq(s, page * PageSize + 1, AtMost(Len(s), (page + 1) * PageSize))

\* skip and take
Page(s, page) ==
  SubSeq(s, (page - 1) * PageSize + 1, AtMost(Len(s), page * PageSize))

\* The application turns the page, and is through when one is not full.
Turn ==
  LET n == reader.page + 1 IN
  /\ ~reader.done
  /\ \E s \in Lists :
       LET p == Page(s, n) IN
       reader' = [page |-> n, seen |-> reader.seen \cup ToSet(p), done |-> Len(p) < PageSize,
                  began |-> IF n = 1 THEN Over ELSE reader.began]
  /\ unsteady' = (Tied \/ (n > 1 /\ unsteady))
  /\ UNCHANGED rowVars

Return ==
  /\ reader.page > 0 /\ reader' = Away
  /\ UNCHANGED <<rowVars, unsteady>>

Next ==
  \/ \E t \in Trips : Ride(t) \/ EndRide(t) \/ Create(t) \/ Update(t)
  \/ \E k \in Removals : RemoveRow(k) \/ \E t \in Trips : RemoveFind(k, t)
  \/ \E k \in Shots :
       PhotoWrite(k) \/ PhotoUpdate(k) \/ \E t \in Trips : PhotoFind(k, t)
  \/ Turn \/ Return

Spec == Init /\ [][Next]_vars

(***************************************************************************)
(* Properties.                                                             *)
(***************************************************************************)
TypeOK ==
  /\ row \in [Trips -> {"none", "unlisted", "listed", "gone"}]
  /\ startTime \in [Trips -> 0 .. LastTime] /\ clock \in 0 .. LastTime
  /\ photos \subseteq Trips /\ folder \subseteq Trips
  /\ saving \in [Shots -> Trips \cup {None}]
  /\ written \subseteq {k \in Shots : saving[k] # None} /\ refused \subseteq Trips
  /\ removal \in [Removals -> Trips \cup {None}]
  /\ reader \in [page : 0 .. Cardinality(Trips) + 1, seen : SUBSET Trips,
                 began : SUBSET Trips, done : BOOLEAN]
  /\ unsteady \in BOOLEAN

\* Who has turned all pages has seen every trip that was over when he began,
\* though other trips ended meanwhile and moved the pages (getUserTrips); only
\* a removal, an edit of the row (update) or a tie can hide one.
PagesMissNothing == reader.done /\ ~unsteady => reader.began \subseteq reader.seen

\* A row keeps the photo it was created with or given, however many removals of
\* it the database refuses (remove), unless it was saveTripPhoto that failed to
\* update the row: that deletes the folder, with a photo of before in it, and
\* only a photo written after it brings the folder back.
RowKeepsPhotos == \A t \in photos : There(t) => t \in folder \cup refused
=============================================================================
