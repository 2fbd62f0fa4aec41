-------------------------- MODULE TripSettlement ---------------------------
(***************************************************************************)
(* The money of one rider's finished trips: how endTripTest and            *)
(* terminateTrip of src/src/trip-process/trip-process.service.ts split the *)
(* cost of a trip between bonuses and card, and what they collect.  The    *)
(* rider may finish several trips at once, and one trip by several calls:  *)
(* nothing refuses a second one while the cached trip is there, and a late *)
(* rewrite brings that back.  Each handler reads the rider's bonuses,      *)
(* awaits the cached trip, and then takes its share off the row.           *)
(*                                                                         *)
(* Amounts are whole kopecks; toFixed(2) rounds a half kopeck either way.  *)
(***************************************************************************)
EXTENDS Integers

CONSTANTS
  Trips,     \* the rider's trips
  None,      \* no trip
  Finishes,  \* the rider's calls of endTripTest, and terminateTrip on them
  Deposit,   \* the amount pledged by start (300 in the code)
  Costs,     \* what a trip may cost: minutes times the price, and boarding
  Grants,    \* what a promocode may add to the bonuses
  MaxBonuses \* bound: promocodes are used up to this many bonuses

ASSUME TripSettlementAssumption ==
  /\ None \notin Trips
  /\ Deposit \in Nat \ {0}
  /\ Costs \subseteq Nat
  /\ Grants \subseteq Nat
  /\ MaxBonuses \in Nat

(***************************************************************************)
(* The split (lines 256-274 and 503-521).                                  *)
(***************************************************************************)
AtMost(a, b) == IF a <= b THEN a ELSE b

\* parseFloat((x * 0.5).toFixed(2))
Halves(x) == {x \div 2, (x + 1) \div 2}

\* Mutant: the share of the bonuses is not corrected to what there is.
SplitUncorrected(cost, has, maxBonusUsage, half) ==
  [bonus |-> cost - half, card |-> half]

\* Mutant: half of the cost, whether the rider has it in bonuses or not.
SplitIgnoresBonuses(cost, has, maxBonusUsage, half) ==
  [bonus |-> maxBonusUsage, card |-> cost - maxBonusUsage]

\* maxBonusUsage and half are the rounded halves of the cost and of what the
\* bonuses leave.
Split(cost, has, maxBonusUsage, half) ==
  LET available == AtMost(has, maxBonusUsage) IN
  IF cost - half > available
  THEN [bonus |-> available, card |-> cost - available]
  ELSE [bonus |-> cost - half, card |-> half]

Splits(cost, has) ==
  UNION {{Split(cost, has, m, half) : half \in Halves(cost - AtMost(has, m))} :
           m \in Halves(cost)}

(***************************************************************************)
(* The handlers.                                                           *)
(***************************************************************************)
VARIABLES
  bonuses,   \* User.bonuses
  fin,       \* each finish: its trip, where it stands, what it read, its split
  hold,      \* each trip's deposit, which start pledged at the gateway
  collected, \* what each trip got from the card, the deposit included
  overlapped \* some finish read the bonuses while another was about to take

vars == <<bonuses, fin, hold, collected, overlapped>>

Pcs == {"idle", "read", "deposit", "void", "charge", "save", "paid", "died"}

Init ==
  /\ bonuses \in Grants
  /\ fin = [f \in Finishes |-> [trip |-> None, pc |-> "idle", read |-> 0,
                               cost |-> 0, bonus |-> 0, card |-> 0]]
  /\ hold = [t \in Trips |-> "held"]
  /\ collected = [t \in Trips |-> 0]
  /\ overlapped = FALSE

\* userService.findOneByUUID, in a call on trip t
ReadUser(f, t) ==
  /\ fin[f].pc = "idle"
  /\ fin' = [fin EXCEPT ![f].trip = t, ![f].pc = "read", ![f].read = bonuses]
  /\ overlapped' = (overlapped \/ \E g \in Finishes : fin[g].pc = "read")
  /\ UNCHANGED <<bonuses, hold, collected>>

\* The cost is known, and trip.update decrements the bonuses of the row, not
\* those of the copy.
EndTrip(f) ==
  \E cost \in Costs : \E s \in Splits(cost, fin[f].read) :
    /\ fin[f].pc = "read"
    /\ fin' = [fin EXCEPT ![f].pc = IF s.card = 0 THEN "save"
                                    ELSE IF s.card > Deposit THEN "deposit"
                                    ELSE "void",
                          ![f].cost = cost, ![f].bonus = s.bonus, ![f].card = s.card]
    /\ bonuses' = bonuses - s.bonus
    /\ UNCHANGED <<hold, collected, overlapped>>

\* acceptPayment takes the whole deposit if it is still held; its failure is
\* only logged, and so is an answer that got lost.
AcceptDeposit(f) ==
  /\ fin[f].pc = "deposit"
  /\ fin' = [fin EXCEPT ![f].pc = "charge"]
  /\ \/ /\ hold[fin[f].trip] = "held"
        /\ hold' = [hold EXCEPT ![fin[f].trip] = "taken"]
        /\ collected' = [collected EXCEPT ![fin[f].trip] = @ + Deposit]
     \/ UNCHANGED <<hold, collected>>
  /\ UNCHANGED <<bonuses, overlapped>>

\* voidPayment gives the deposit back before a fare below it; a failure, and
\* a lost answer, end the handler.
VoidDeposit(f, answered) ==
  /\ fin[f].pc = "void" /\ hold[fin[f].trip] = "held"
  /\ hold' = [hold EXCEPT ![fin[f].trip] = "voided"]
  /\ fin' = [fin EXCEPT ![f].pc = IF answered THEN "charge" ELSE "died"]
  /\ UNCHANGED <<bonuses, collected, overlapped>>

\* Mutant: the deposit is not taken off the charge.
DueAll(f) == fin[f].card

\* Mutant: the deposit is taken off a charge below it too.
DueLess(f) == fin[f].card - Deposit

Due(f) == IF fin[f].card > Deposit THEN fin[f].card - Deposit ELSE fin[f].card

\* createReccurentPayment; a declined charge ends the handler (Die), and so
\* does a lost answer, after the charge.
Charge(f, answered) ==
  /\ fin[f].pc = "charge"
  /\ fin' = [fin EXCEPT ![f].pc = IF answered THEN "save" ELSE "died"]
  /\ collected' = [collected EXCEPT ![fin[f].trip] = @ + Due(f)]
  /\ UNCHANGED <<bonuses, hold, overlapped>>

\* The Payment row says cardSpent.
SavePayment(f) ==
  /\ fin[f].pc = "save"
  /\ fin' = [fin EXCEPT ![f].pc = "paid"]
  /\ UNCHANGED <<bonuses, hold, collected, overlapped>>

Die(f) ==
  /\ fin[f].pc \notin {"idle", "paid", "died"}
  /\ fin' = [fin EXCEPT ![f].pc = "died"]
  /\ UNCHANGED <<bonuses, hold, collected, overlapped>>

\* usePromocode increments the row.
Redeem(sum) ==
  /\ bonuses + sum <= MaxBonuses
  /\ bonuses' = bonuses + sum
  /\ UNCHANGED <<fin, hold, collected, overlapped>>

Next ==
  \/ \E f \in Finishes :
       \/ EndTrip(f) \/ AcceptDeposit(f) \/ SavePayment(f) \/ Die(f)
       \/ \E t \in Trips : ReadUser(f, t)
       \/ \E answered \in BOOLEAN : VoidDeposit(f, answered) \/ Charge(f, answered)
  \/ \E sum \in Grants : Redeem(sum)

Spec == Init /\ [][Next]_vars

(***************************************************************************)
(* Properties.                                                             *)
(***************************************************************************)
Ended(f) == fin[f].pc \in {"deposit", "void", "charge", "save", "paid"}

TypeOK ==
  /\ bonuses \in Int
  /\ fin \in [Finishes -> [trip : Trips \cup {None}, pc : Pcs, read : Int,
                           cost : Nat, bonus : Int, card : Nat]]
  /\ \A f \in Finishes : fin[f].pc # "idle" => fin[f].trip \in Trips
  /\ hold \in [Trips -> {"held", "taken", "voided"}]
  /\ collected \in [Trips -> Nat]
  /\ overlapped \in BOOLEAN

FairSplit(cost, has, bonus, card) ==
  /\ bonus + card = cost
  /\ card >= cost \div 2
  /\ \E half \in Halves(cost) : bonus = AtMost(has, half)

\* The two-stage computation with its roundings and its correction comes to
\* this: the bonuses the handler read pay up to half of the cost, the odd
\* kopeck either way, the card pays the rest exactly.
SplitIsFair ==
  \A f \in Finishes :
    Ended(f) => FairSplit(fin[f].cost, fin[f].read, fin[f].bonus, fin[f].card)

\* The row of the bonuses never goes below zero unless two finishes of the
\* rider overlapped between the read and the update; retries after a failure
\* and promocodes in between do no harm.
NoOverdraftAlone == ~overlapped => bonuses >= 0

\* What the trip of f has brought in, by the bonuses of f and by the card.
Brought(f) == fin[f].bonus + collected[fin[f].trip]

\* No other call ended this trip.
Alone(f) == \A g \in Finishes : g # f => fin[g].trip # fin[f].trip

\* A trip with a finish that went through brought in what that finish counted,
\* by bonuses, deposit and charge; only a deposit whose confirmation was
\* refused can be missing.  And a trip that one call ended never brings in more
\* than it cost, whether the call went through, died on a declined charge or
\* lost an answer: it takes a second call on the same trip to be paid twice.
PaidInFull ==
  \A f \in Finishes :
    /\ fin[f].pc = "paid" =>
         \/ Brought(f) >= fin[f].cost
         \/ /\ fin[f].card > Deposit /\ hold[fin[f].trip] # "taken"
            /\ Brought(f) >= fin[f].cost - Deposit
    /\ fin[f].pc # "idle" /\ Alone(f) => Brought(f) <= fin[f].cost
=============================================================================
