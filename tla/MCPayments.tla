----------------------------- MODULE MCPayments -----------------------------
(***************************************************************************)
(* Renewals, and beside it Receipts and Reports: the other ways of the     *)
(* money.  They share no state: a behaviour runs one of them, named by     *)
(* part, and the sets of model values serve them all.                      *)
(***************************************************************************)
EXTENDS MCRenewals

CONSTANTS
  Ends,              \* of Receipts
  Trips, Handlers,   \* of Receipts and Reports
  Fines, Debts, Scooters, Tariffs, Boardings, Prices, Bonuses, DuePrice,   \* of Reports
  Spare,             \* scooters and tariffs that one part of it uses
  None

VARIABLES
  part,
  end, cached, riding, stored, url, gone, hook, acked,
  home, boarding, trip, due, waived, moved, edited, report

Receipt == INSTANCE Receipts WITH Hooks <- Handlers

Stats == INSTANCE Reports WITH Franchises <- Options

receiptVars == <<end, cached, riding, stored, url, gone, hook, acked>>
reportVars  == <<home, boarding, trip, due, waived, moved, edited, report>>
otherVars   == <<receiptVars, reportVars>>

ASSUME MCPaymentsAssumption ==
  Receipt!ReceiptsAssumption /\ Stats!ReportsAssumption

Begun == expDate = [o \in Options |-> 1] /\ autoPayment = [o \in Options |-> TRUE]

Reported == {"dues", "ends", "trips", "credits"}

RunInit ==
  /\ part \in {"renewals", "receipts"} \cup Reported
  /\ Init /\ Receipt!Init /\ Stats!Init
  /\ part # "renewals" => Begun
  /\ part # "credits" => \A s, z \in Scooters : home[s] = home[z]
  /\ part # "trips" => boarding = [f \in Tariffs |-> 1]

\* Bounds of the reports: a fine and a debt of a ride; the ends and edits of a
\* trip; two trips and two tariffs; or two scooters and two reports.
NoneFiled  == \A d \in Fines \cup Debts : due'[d] = Stats!NoDue
NoneEnded  == \A t \in Trips : trip'[t].ended = {}
NoneEdited == \A t \in Trips : ~trip'[t].patched
OnePrice   == \A t \in Trips : Cardinality(trip'[t].ended) <= 1 /\ trip'[t].price \in {0, 3}
OneReport  == \A k, l \in Handlers : report'[k].pc # "idle" /\ report'[l].pc # "idle" => k = l
OneTrip    == \A t, u \in Trips : trip'[t].pc # "none" /\ trip'[u].pc # "none" => t = u
OneScooter == /\ \A t \in Trips : trip'[t].scooter \notin Spare
              /\ \A s \in Scooters \cap Spare : home'[s] = home[s]
OneTariff  == /\ \A t \in Trips : trip'[t].tariff \notin Spare
              /\ \A f \in Tariffs : boarding'[f] \in {1, None}

ReportsNext ==
  /\ part \in Reported /\ Stats!Next
  /\ part = "dues" => OneTrip /\ NoneEnded /\ NoneEdited /\ OneReport /\ OneScooter /\ OneTariff
  /\ part = "ends" => NoneFiled /\ OneTrip /\ OneReport /\ OneScooter /\ OneTariff
  /\ part = "trips" => NoneFiled /\ NoneEdited /\ OnePrice /\ OneReport /\ OneScooter /\ moved' = {}
  /\ part = "credits" => NoneFiled /\ NoneEnded /\ OnePrice /\ OneTrip /\ OneTariff
  /\ \A f \in Tariffs \cap Spare : boarding'[f] = boarding[f]

\* Only the renewals come to rest, when the calendar ends.
RunNext ==
  /\ UNCHANGED part
  /\ \/ part = "renewals" /\ Next /\ UNCHANGED otherVars
     \/ part = "renewals" /\ UNCHANGED <<vars, otherVars>>
     \/ part = "receipts" /\ Receipt!Next /\ UNCHANGED <<vars, reportVars>>
     \/ ReportsNext /\ UNCHANGED <<vars, receiptVars>>

RunSpec == RunInit /\ [][RunNext]_<<part, vars, otherVars>>

RunSymmetry == Symmetry \cup Permutations(Trips) \cup Permutations(Handlers)

\* The types of the three.
TypesOK == TypeOK /\ Receipt!TypeOK /\ Stats!TypeOK

\* A trip shows the receipt of a charge of that very trip, however late the
\* webhook writes (updateEntityWhereTransactionIdEqual), and it is the charge
\* the row names unless two calls ended the trip.
ReceiptOfOwnCharge == Receipt!ReceiptOfOwnCharge

\* What a report charges is accounted for: by the Payment rows and the paid fines
\* and debts and, as if it were money, by what ends of trips have not booked, the
\* boarding of rides under way and the fines the CRM closed, less what an end
\* left before another wrote over it, if nothing disturbs the report and nobody
\* edited its trips or tariffs; and whatever happens between its queries, it
\* counts the fines and debts that are paid, and no others, but for deleted ones.
\* Two franchises are credited with one trip only if its scooter changed hands or
\* its row was given another one.
ReportsAddUp == Stats!ChargesExplained /\ Stats!CountsWhatIsPaid /\ Stats!CreditedOnce
=============================================================================
