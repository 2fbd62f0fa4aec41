---------------------------- MODULE MCTripRecords ----------------------------
(***************************************************************************)
(* TripSettlement, and beside it TripHistory, the list in which the rider  *)
(* finds his trips afterwards, and their photos.  They share no state: a   *)
(* behaviour runs one of them, named by part.                              *)
(***************************************************************************)
EXTENDS MCTripSettlement

CONSTANTS Removals, Shots, PageSize, LastTime   \* of TripHistory, with Trips and None

VARIABLES part, row, startTime, clock, photos, folder, saving, written, refused,
          removal, reader, unsteady

History == INSTANCE TripHistory

historyVars == <<row, startTime, clock, photos, folder, saving, written, refused,
                 removal, reader, unsteady>>

ASSUME MCTripRecordsAssumption == History!TripHistoryAssumption

RunInit ==
  /\ part \in {"settlement", "list", "photos"}
  /\ Init /\ (part # "settlement" => bonuses = 0)
  /\ History!Init

\* The reader of the list looks at no photo: one part has him, the other has
\* the photos, where it does not matter when the trips began.  A reader who is
\* through, or who is promised nothing any more, starts over before anything
\* else happens.
StartsOver == (unsteady \/ reader.done) /\ reader.page > 0 => reader'.page = 0

\* The finishes and the photos come to an end, the reader never does.
RunNext ==
  /\ UNCHANGED part
  /\ \/ part = "settlement" /\ Next /\ UNCHANGED historyVars
     \/ part = "list" /\ History!Next /\ UNCHANGED vars
        /\ folder' = folder /\ StartsOver
     \/ part = "photos" /\ History!Next /\ UNCHANGED vars
        /\ reader' = reader /\ \A t \in Trips : startTime'[t] <= 1
     \/ part # "list" /\ UNCHANGED <<vars, historyVars>>

RunSpec == RunInit /\ [][RunNext]_<<part, vars, historyVars>>

\* The types of both.
TypesOK == TypeOK /\ History!TypeOK

\* Who has turned all pages has seen every trip that was over when he began,
\* though other trips ended meanwhile and moved the pages (getUserTrips); only
\* a removal, an edit of the row or a tie can hide one.  And a row keeps the
\* photo it was given, however many removals of it the database refuses
\* (TripService.remove), unless it refused a photo (saveTripPhoto).
NothingIsLost == History!PagesMissNothing /\ History!RowKeepsPhotos
=============================================================================
