------------------------------- MODULE Reports -------------------------------
(***************************************************************************)
(* The reports of src/src/stats/stats.service.ts over the trips, the fines *)
(* and the debts of a franchise, while all of them change.  A report makes *)
(* three queries; the $transaction around them uses dbService and so gives *)
(* no snapshot.  A trip belongs to whoever owns its scooter now, and costs *)
(* the boarding that its tariff has now; its row may be edited by hand.    *)
(*                                                                         *)
(* Left out: the interval of days, and with it the averages.               *)
(***************************************************************************)
EXTENDS Sums

CONSTANTS
  Trips, Fines, Debts,   \* the rows that may be created
  Franchises, Scooters, Tariffs,
  Boardings,             \* boardingCost of a tariff
  Prices,                \* of the minutes of a trip
  Bonuses,               \* what a rider may pay of it in bonuses
  DuePrice,              \* the price of a fine or a debt
  Handlers,              \* calls under way: reports, and ends of a trip
  None

Dues == Fines \cup Debts

ReportsAssumption ==
  /\ Boardings \subseteq Nat /\ Prices \subseteq Nat /\ Bonuses \subseteq Nat /\ DuePrice \in Nat
  /\ IsFiniteSet(Trips \cup Dues) /\ IsFiniteSet(Handlers) /\ Fines \cap Debts = {}
  /\ None \notin Franchises \cup Trips

VARIABLES
  home,      \* franchiseId of each scooter, None when it is removed
  boarding,  \* boardingCost of each tariff, None when it is removed
  trip,      \* each trip: its row, and what the Payment rows have of it
  due,       \* each fine and debt: paidStatus, initiator, trip
  waived,    \* fines that were closed without money
  moved,     \* scooters that have been with more than one owner
  edited,    \* tariffs that have been edited or removed
  report     \* each handler: how far it is, for whom, what it read

rows == <<home, boarding, trip, due, waived, moved, edited>>
vars == <<rows, report>>

\* calm: nothing has changed since the first query; first: the fines and debts
\* that were paid then; gone: those deleted since.
Idle == [pc |-> "idle", franchise |-> None, trips |-> {}, fines |-> {}, debts |-> {},
         calm |-> FALSE, first |-> {}, gone |-> {}]
Pcs  == {"idle", "trips", "fines", "answered", "failed"}

\* board: of the start.  ended, owed: the calls that ended the trip, and what
\* each has yet to book; booked: the sum of its Payment rows; share: what the
\* last end left to the card; again: what the ends before it did.
NoTrip == [pc |-> "none", scooter |-> None, tariff |-> None, price |-> 0, bonuses |-> 0,
           board |-> 0, patched |-> FALSE, ended |-> {}, owed |-> [k \in Handlers |-> 0],
           booked |-> 0, share |-> 0, again |-> 0]
NoDue  == [status |-> "none", initiator |-> None, trip |-> None]

Init ==
  /\ home \in [Scooters -> Franchises] /\ boarding \in [Tariffs -> Boardings]
  /\ trip = [t \in Trips |-> NoTrip] /\ due = [d \in Dues |-> NoDue]
  /\ waived = {} /\ moved = {} /\ edited = {}
  /\ report = [k \in Handlers |-> Idle]

\* The rows change under the reports; the dues of deleted are no more.
Stir(deleted) ==
  report' = [k \in Handlers |->
    IF report[k].pc = "idle" THEN report[k]
    ELSE [report[k] EXCEPT !.calm = FALSE, !.gone = @ \cup deleted]]

(***************************************************************************)
(* What the report is about                                                *)
(***************************************************************************)
ChangeTrip == Stir({}) /\ UNCHANGED <<home, boarding, due, waived, moved, edited>>

\* Module TripProcess: the price is the minutes; boarding is that of the start.
StartTrip(t, s, f) ==
  /\ trip[t].pc = "none" /\ home[s] # None /\ boarding[f] # None
  /\ trip' = [trip EXCEPT ![t].pc = "riding", ![t].scooter = s, ![t].tariff = f,
                          ![t].board = boarding[f]]
  /\ ChangeTrip

\* trip.update of endTripTest and terminateTrip.  A second call, repeated or at
\* the same time, writes price and bonusesUsed over those of the first.
EndTrip(k, t, p, b) ==
  /\ trip[t].pc \in {"riding", "over"} /\ k \notin trip[t].ended
  /\ b <= p + trip[t].board
  /\ LET share == p + trip[t].board - b
     IN  trip' = [trip EXCEPT ![t].pc = "over", ![t].price = p, ![t].bonuses = b,
                              ![t].ended = trip[t].ended \cup {k},
                              ![t].owed = [trip[t].owed EXCEPT ![k] = share],
                              ![t].share = share, ![t].again = trip[t].again + trip[t].share]
  /\ ChangeTrip

\* Mutant: the difference is taken the wrong way round.
BookTripNegative(k, t) ==
  /\ trip[t].owed[k] > 0
  /\ trip' = [trip EXCEPT ![t].booked = @ + trip[t].bonuses - trip[t].owed[k], ![t].owed[k] = 0]
  /\ ChangeTrip

\* savePayment writes the whole card share, the deposit confirmed or not; a
\* charge declined before it leaves it owed for good (module TripSettlement).
BookTrip(k, t) ==
  /\ trip[t].owed[k] > 0
  /\ trip' = [trip EXCEPT ![t].booked = @ + trip[t].owed[k], ![t].owed[k] = 0]
  /\ ChangeTrip

\* PATCH trip/:id writes what the form has, unchecked: the price, another scooter,
\* another tariff.
EditTrip(t, p, s, f) ==
  /\ trip[t].pc \in {"riding", "over"}
  /\ s # trip[t].scooter => home[s] # None
  /\ f # trip[t].tariff => boarding[f] # None
  /\ trip' = [trip EXCEPT ![t].price = p, ![t].scooter = s, ![t].tariff = f, ![t].patched = TRUE]
  /\ ChangeTrip

RemoveTrip(t) ==
  /\ trip[t].pc \in {"riding", "over"}
  /\ trip' = [trip EXCEPT ![t].pc = "removed"]
  /\ ChangeTrip

\* The owner of the scooter at that time is the initiator; a trip has one debt.
File(d, t) ==
  /\ due[d].status = "none" /\ trip[t].pc \in {"riding", "over"} /\ home[trip[t].scooter] # None
  /\ d \in Debts => \A e \in Debts : due[e].trip # t
  /\ due' = [due EXCEPT ![d] = [status |-> "NOTPAID", initiator |-> home[trip[t].scooter],
                                trip |-> t]]
  /\ Stir({}) /\ UNCHANGED <<home, boarding, trip, waived, moved, edited>>

\* Paid by the rider, or a fine closed in the CRM (module Obligations).
Close(d, byCrm) ==
  /\ due[d].status = "NOTPAID" /\ (byCrm => d \in Fines)
  /\ due' = [due EXCEPT ![d].status = "PAID"]
  /\ waived' = IF byCrm THEN waived \cup {d} ELSE waived
  /\ Stir({}) /\ UNCHANGED <<home, boarding, trip, moved, edited>>

Delete(d) ==
  /\ due[d].status \in {"NOTPAID", "PAID"}
  /\ due' = [due EXCEPT ![d] = NoDue] /\ waived' = waived \ {d}
  /\ Stir({d}) /\ UNCHANGED <<home, boarding, trip, moved, edited>>

\* A scooter goes to another franchise, or its row is removed: the trips stay,
\* without a scooter.
MoveScooter(s, f) ==
  /\ home[s] # None /\ f # home[s]
  /\ home' = [home EXCEPT ![s] = f] /\ moved' = moved \cup {s}
  /\ Stir({}) /\ UNCHANGED <<boarding, trip, due, waived, edited>>

\* A tariff is edited, or removed: the trips stay, without a tariff.
EditTariff(f, b) ==
  /\ boarding[f] # None /\ b # boarding[f]
  /\ boarding' = [boarding EXCEPT ![f] = b] /\ edited' = edited \cup {f}
  /\ Stir({}) /\ UNCHANGED <<home, trip, due, waived, moved>>

(***************************************************************************)
(* The report                                                              *)
(***************************************************************************)
\* A row of the table with a scooter that is there.
Standing(t) == trip[t].pc \in {"riding", "over"} /\ home[trip[t].scooter] # None

\* Mutant: the trips of every franchise.
TripsOfAll(f) == {t \in Trips : Standing(t)}

\* where: scooter.franchiseId, start; trips that are not over are in it too.
TripsOf(f) == {t \in Trips : Standing(t) /\ home[trip[t].scooter] = f}

\* The row with its tariff; the debts it includes are summed up by another name
\* (calucateDebtsForTrip), so that they count for nothing.
Read(t) == [id |-> t, price |-> trip[t].price, bonuses |-> trip[t].bonuses,
            boarding |-> boarding[trip[t].tariff]]

DuesOf(f, kind) == {[id |-> d, status |-> due[d].status] : d \in {e \in kind : due[e].initiator = f}}

PaidNow(f) == {d \in Dues : due[d].status = "PAID" /\ due[d].initiator = f}

\* getGroupReportEntities and its twin for the CRM's own staff.
ReadTrips(k, f) ==
  /\ report[k].pc = "idle"
  /\ report' = [report EXCEPT ![k] = [Idle EXCEPT !.pc = "trips", !.franchise = f, !.calm = TRUE,
                                                  !.trips = {Read(t) : t \in TripsOf(f)},
                                                  !.first = PaidNow(f)]]
  /\ UNCHANGED rows

ReadFines(k) ==
  /\ report[k].pc = "trips"
  /\ report' = [report EXCEPT ![k].pc = "fines", ![k].fines = DuesOf(report[k].franchise, Fines)]
  /\ UNCHANGED rows

\* After the debts everything is summed up in one go; a trip without a tariff,
\* or a query that failed and left nothing to sum up, is an exception.
ReadDebts(k) ==
  /\ report[k].pc = "fines"
  /\ report' = [report EXCEPT
       ![k].debts = DuesOf(report[k].franchise, Debts),
       ![k].pc = IF \E t \in report[k].trips : t.boarding = None THEN "failed" ELSE "answered"]
  /\ UNCHANGED rows

QueryFails(k) ==
  /\ report[k].pc \in {"trips", "fines"}
  /\ report' = [report EXCEPT ![k] = Idle]
  /\ UNCHANGED rows

Discard(k) ==
  /\ report[k].pc \in {"answered", "failed"}
  /\ report' = [report EXCEPT ![k] = Idle]
  /\ UNCHANGED rows

\* Mutant: the bonuses count as money.
MoneyOfWhole(t) == t.price + t.boarding

MoneyOf(t) == t.price - t.bonuses + t.boarding

\* Mutant: every fine and debt counts.
PaidAll(dues) == dues

Paid(dues) == {d \in dues : d.status = "PAID"}

Sum(dues) == DuePrice * Cardinality(dues)

\* caclulateAmountOfCharges, and calculateFranchiseeRevenue, its copy.
AmountOfCharges(k) ==
  SumOf([t \in report[k].trips |-> MoneyOf(t)])
    + Sum(Paid(report[k].fines)) + Sum(Paid(report[k].debts))

Next ==
  \/ \E t \in Trips :
       \/ RemoveTrip(t)
       \/ \E s \in Scooters, f \in Tariffs :
            \/ StartTrip(t, s, f)
            \/ \E p \in Prices \cup {trip[t].price} : EditTrip(t, p, s, f)
       \/ \E k \in Handlers :
            \/ BookTrip(k, t)
            \/ \E p \in Prices, b \in Bonuses : EndTrip(k, t, p, b)
       \/ \E d \in Dues : File(d, t)
  \/ \E d \in Dues : Delete(d) \/ \E byCrm \in BOOLEAN : Close(d, byCrm)
  \/ \E s \in Scooters, f \in Franchises \cup {None} : MoveScooter(s, f)
  \/ \E f \in Tariffs, b \in Boardings \cup {None} : EditTariff(f, b)
  \/ \E k \in Handlers :
       \/ ReadFines(k) \/ ReadDebts(k) \/ QueryFails(k) \/ Discard(k)
       \/ \E f \in Franchises : ReadTrips(k, f)

Spec == Init /\ [][Next]_vars

(***************************************************************************)
(* Properties.                                                             *)
(***************************************************************************)
TripRows == [id : Trips, price : Prices \cup {0}, bonuses : Bonuses \cup {0},
             boarding : Boardings \cup {None}]
DueRows(kind) == [id : kind, status : {"none", "NOTPAID", "PAID"}]

TripType == [pc : {"none", "riding", "over", "removed"}, scooter : Scooters \cup {None},
             tariff : Tariffs \cup {None}, price : Prices \cup {0}, bonuses : Bonuses \cup {0},
             board : Boardings \cup {0}, patched : BOOLEAN, ended : SUBSET Handlers,
             owed : [Handlers -> Nat], booked : Nat, share : Nat, again : Nat]
ReportType == [pc : Pcs, franchise : Franchises \cup {None}, trips : SUBSET TripRows,
               fines : SUBSET DueRows(Fines), debts : SUBSET DueRows(Debts), calm : BOOLEAN,
               first : SUBSET Dues, gone : SUBSET Dues]

TypeOK ==
  /\ home \in [Scooters -> Franchises \cup {None}]
  /\ boarding \in [Tariffs -> Boardings \cup {None}]
  /\ trip \in [Trips -> TripType]
  /\ \A t \in Trips : trip[t].pc # "none" => trip[t].scooter \in Scooters /\ trip[t].tariff \in Tariffs
  /\ due \in [Dues -> [status : {"none", "NOTPAID", "PAID"}, initiator : Franchises \cup {None},
                       trip : Trips \cup {None}]]
  /\ waived \subseteq Fines /\ moved \subseteq Scooters /\ edited \subseteq Tariffs
  /\ report \in [Handlers -> ReportType]

Answered(k) == report[k].pc = "answered"
Ids(S) == {x.id : x \in S}

\* What the Payment rows have of a trip, what its calls have yet to book, and
\* the boarding of a ride under way.
Booked(t)  == trip[t].booked
Owing(t)   == SumOf(trip[t].owed)
Boarded(t) == IF trip[t].pc = "riding" THEN trip[t].board ELSE 0

\* The row is as the program wrote it, and the tariff as it was at the start.
Genuine(t) == ~trip[t].patched /\ trip[t].tariff \notin edited

\* The charges of a report that nothing disturbs, of trips and tariffs nobody
\* edited, are what the Payment rows of its trips and the paid fines and debts
\* say and, as if it were money, what ends have not booked (and may never), the
\* boarding of rides under way and the fines the CRM closed; of a trip that was
\* ended again it counts the last end alone, though all of them may be booked.
ChargesExplained ==
  \A k \in Handlers :
    LET ids == Ids(report[k].trips)
        f   == report[k].franchise
    IN  Answered(k) /\ report[k].calm /\ (\A t \in ids : Genuine(t)) =>
          AmountOfCharges(k) + SumOf([t \in ids |-> trip[t].again]) =
            SumOf([t \in ids |-> Booked(t)]) + SumOf([t \in ids |-> Owing(t) + Boarded(t)])
              + Sum(PaidNow(f) \ waived) + Sum({d \in waived : due[d].initiator = f})

Counted(k) == Ids(Paid(report[k].fines)) \cup Ids(Paid(report[k].debts))

\* Whatever happens between the queries, a report counts the fines and debts
\* that were paid at the first one, and none that is not paid now; either but
\* for those deleted in between.
CountsWhatIsPaid ==
  \A k \in Handlers : Answered(k) =>
    /\ report[k].first \ report[k].gone \subseteq Counted(k)
    /\ Counted(k) \ report[k].gone \subseteq PaidNow(report[k].franchise)

\* Two franchises are credited with one trip only if its scooter changed hands
\* or its row was given another one.
CreditedOnce ==
  \A k, l \in Handlers : report[k].franchise # report[l].franchise =>
    \A t \in Ids(report[k].trips) \cap Ids(report[l].trips) :
      trip[t].patched \/ trip[t].scooter \in moved
=============================================================================
