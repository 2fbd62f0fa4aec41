----------------------------- MODULE TariffOrder -----------------------------
(***************************************************************************)
(* The order of the tariffs in the application, highest place first:       *)
(* src/src/tariff/tariff.service.ts.  The server numbers the list itself   *)
(* only when changeTariffStatus activates or archives a tariff; the places *)
(* of updateTariffsOrders are the CRM's, written as they come.  Either way *)
(* the updates commit one by one: they stand in a $transaction, but use    *)
(* dbService and not its client.                                           *)
(***************************************************************************)
EXTENDS Naturals, Sequences, FiniteSets, SequencesExt

CONSTANTS
  Tariffs,   \* the rows that may be created
  Requests,  \* handlers under way
  MaxPlace,  \* bound of the places
  None

TariffOrderAssumption ==
  IsFiniteSet(Tariffs) /\ MaxPlace \in Nat /\ None \notin Tariffs \cup Requests

VARIABLES
  status,   \* of each tariff: "none" before it is created, "removed" after
  place,    \* orderInList of each tariff
  serial,   \* the sequence that numbers a new row
  req,      \* each handler
  rough,    \* the places may have gaps and repetitions
  renumbered   \* the list whose renumbering is the last change of all, or <<>>

vars == <<status, place, serial, req, rough, renumbered>>

\* "calm" holds while nobody else has changed the table since the handler read it.
Idle == [pc |-> "idle", tariff |-> None, to |-> "none", count |-> 0, list |-> <<>>,
         from |-> 1, calm |-> FALSE]
Pcs  == {"idle", "counted", "archived", "placing"}

There(t) == status[t] \in {"ACTIVE", "ARCHIVE"}
Active  == {t \in Tariffs : status[t] = "ACTIVE"}

\* The active tariffs by descending place; equal places come in any order.
Lists ==
  {s \in SetToSeqs(Active) :
     \A i, j \in 1 .. Len(s) : i < j => place[s[i]] >= place[s[j]]}

\* The active tariffs have the places from one up, each once.
Dense == {place[t] : t \in Active} = 1 .. Cardinality(Active)

Init ==
  /\ status = [t \in Tariffs |-> "none"] /\ place = [t \in Tariffs |-> 0]
  /\ serial = 0
  /\ req = [k \in Requests |-> Idle]
  /\ rough = FALSE /\ renumbered = <<>>

At(k, pc) == req[k].pc = pc

\* A change of the table by handler k, which goes on as r.
Changes(k, r) ==
  req' = [l \in Requests |-> IF l = k THEN r ELSE [req[l] EXCEPT !.calm = FALSE]]
Changed == Changes(None, Idle) /\ renumbered' = <<>>

(***************************************************************************)
(* create, update, remove                                                  *)
(***************************************************************************)
\* Mutant: a new tariff takes a place above its number.
CreateSkipping(t) ==
  /\ status[t] = "none" /\ serial < MaxPlace
  /\ status' = [status EXCEPT ![t] = "ACTIVE"]
  /\ place' = [place EXCEPT ![t] = MaxPlace + 1]
  /\ serial' = serial + 1 /\ rough' = TRUE
  /\ Changed

\* The row has the status of the form and is numbered by the sequence, which
\* knows nothing of the list.
Create(t) ==
  /\ status[t] = "none" /\ serial < MaxPlace
  /\ \E as \in {"ACTIVE", "ARCHIVE"} :
       /\ status' = [status EXCEPT ![t] = as]
       /\ rough' = (rough \/ (as = "ACTIVE" /\ serial # Cardinality(Active)))
  /\ place' = [place EXCEPT ![t] = serial + 1]
  /\ serial' = serial + 1
  /\ Changed

\* PATCH tariff/:id writes a status like any other column.
EditStatus(t, to) ==
  /\ There(t) /\ status[t] # to
  /\ status' = [status EXCEPT ![t] = to]
  /\ rough' = TRUE /\ Changed /\ UNCHANGED <<place, serial>>

RemoveTariff(t) ==
  /\ There(t)
  /\ status' = [status EXCEPT ![t] = "removed"] /\ place' = [place EXCEPT ![t] = 0]
  /\ rough' = TRUE /\ Changed /\ UNCHANGED serial

\* One line of updateTariffsOrders: the row and the place that the CRM sent,
\* 0 for a status other than ACTIVE, whatever list it had before it.  A line of
\* a missing row throws, and the lines after it are not written.
Reorder(t, n) ==
  /\ There(t)
  /\ place' = [place EXCEPT ![t] = n]
  /\ UNCHANGED <<status, serial>> /\ rough' = ~Dense' /\ Changed

(***************************************************************************)
(* changeTariffStatus                                                      *)
(***************************************************************************)
Count(k, t, to) ==
  /\ req[k] = Idle /\ There(t)
  /\ req' = [req EXCEPT ![k] = [Idle EXCEPT !.pc = "counted", !.tariff = t, !.to = to,
                                            !.count = Cardinality(Active), !.calm = TRUE]]
  /\ UNCHANGED <<status, place, serial, rough, renumbered>>

\* Mutant: the new place is that of the last tariff there is.
PlaceOfLast(k) == IF req[k].to = "ARCHIVE" THEN 0 ELSE req[k].count

\* The place of a tariff that is taken into the list, by the count as read.
NewPlace(k) == IF req[k].to = "ARCHIVE" THEN 0 ELSE req[k].count + 1

\* The update of a row that is gone throws. A tariff that was active leaves a
\* gap behind: an archived one until the list is numbered again.
SetStatus(k) ==
  LET t == req[k].tariff IN
  /\ At(k, "counted") /\ NewPlace(k) <= MaxPlace
  /\ \/ /\ ~There(t)
        /\ req' = [req EXCEPT ![k] = Idle]
        /\ UNCHANGED <<status, place, rough, renumbered>>
     \/ /\ There(t)
        /\ status' = [status EXCEPT ![t] = req[k].to]
        /\ place' = [place EXCEPT ![t] = NewPlace(k)]
        /\ rough' = (rough \/ ~req[k].calm \/ status[t] = "ACTIVE")
        /\ Changes(k, IF req[k].to = "ARCHIVE" THEN [Idle EXCEPT !.pc = "archived"] ELSE Idle)
        /\ renumbered' = <<>>
  /\ UNCHANGED serial

(***************************************************************************)
(* The places of a list                                                    *)
(***************************************************************************)
Placing(s) == [Idle EXCEPT !.pc = "placing", !.list = s, !.calm = TRUE]

\* updateTariffsOrderAfterChangeStatus
ListActive(k) ==
  /\ At(k, "archived")
  /\ \E s \in Lists : req' = [req EXCEPT ![k] = IF s = <<>> THEN Idle ELSE Placing(s)]
  /\ UNCHANGED <<status, place, serial, rough, renumbered>>

\* Mutant: the list is numbered from its head.
PlaceUpwards(s, i) == i

PlaceInList(s, i) == Len(s) + 1 - i

\* One update of the list; it throws for a row that is gone, and leaves the rest.
Place(k) ==
  LET s == req[k].list
      i == req[k].from
      last == i = Len(s)
  IN /\ At(k, "placing")
     /\ \/ /\ ~There(s[i])
           /\ req' = [req EXCEPT ![k] = Idle]
           /\ UNCHANGED <<place, rough, renumbered>>
        \/ /\ There(s[i])
           /\ place' = [place EXCEPT ![s[i]] = PlaceInList(s, i)]
           /\ Changes(k, IF last THEN Idle ELSE [req[k] EXCEPT !.from = i + 1])
           /\ rough' = ~(last /\ req[k].calm)
           /\ renumbered' = IF last /\ req[k].calm THEN s ELSE <<>>
     /\ UNCHANGED <<status, serial>>

Next ==
  \/ \E t \in Tariffs : \/ Create(t) \/ RemoveTariff(t)
                       \/ \E to \in {"ACTIVE", "ARCHIVE"} : EditStatus(t, to)
                       \/ \E n \in 0 .. MaxPlace : Reorder(t, n)
  \/ \E k \in Requests :
       \/ \E t \in Tariffs, to \in {"ACTIVE", "ARCHIVE"} : Count(k, t, to)
       \/ SetStatus(k) \/ ListActive(k) \/ Place(k)

Spec == Init /\ [][Next]_vars

(***************************************************************************)
(* Properties.                                                             *)
(***************************************************************************)
TypeOK ==
  /\ status \in [Tariffs -> {"none", "ACTIVE", "ARCHIVE", "removed"}]
  /\ place \in [Tariffs -> 0 .. MaxPlace] /\ serial \in 0 .. MaxPlace
  /\ req \in [Requests -> [pc : Pcs, tariff : Tariffs \cup {None},
                            to : {"none", "ACTIVE", "ARCHIVE"}, count : 0 .. Cardinality(Tariffs),
                            list : Seq(Tariffs), from : 1 .. Cardinality(Tariffs) + 1,
                            calm : BOOLEAN]]
  /\ rough \in BOOLEAN /\ renumbered \in Seq(Tariffs)

\* The places are dense after the renumbering of an archival that nobody
\* disturbed, and stay so through every activation that nobody overlaps
\* (changeTariffStatus counts before it writes) and every new row whose number
\* is the next; what the CRM sends is dense only if the CRM made it so.
PlacesDense == rough \/ Dense

\* An undisturbed renumbering leaves the list in the order it was read.
OrderKept ==
  \A i, j \in 1 .. Len(renumbered) :
    i < j => place[renumbered[i]] > place[renumbered[j]]
=============================================================================
