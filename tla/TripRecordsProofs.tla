-------------------------- MODULE TripRecordsProofs -------------------------
(* The split of a trip's cost for every cost, deposit and bonuses, the     *)
(* invariants of TripSettlement for any number of finishes, and those of   *)
(* TripHistory for any number of trips, pages and removals.                *)
EXTENDS MCTripRecords, FiniteSetTheorems, SequenceTheorems, TLAPS

USE DEF vars

LEMMA HalvesType ==
  ASSUME NEW x \in Nat, NEW h \in Halves(x)
  PROVE  /\ h \in Nat /\ h <= x
         /\ x \div 2 <= x - h
         /\ 2 * h >= x - 1 /\ 2 * h <= x + 1
  BY DEF Halves

\* The code's split in two stages, with its roundings and its correction, is
\* "bonuses up to half, card the rest".
LEMMA SplitIsReference ==
  ASSUME NEW cost \in Nat, NEW has \in Int, NEW s \in Splits(cost, has)
  PROVE  \E m \in Halves(cost) :
           s = [bonus |-> AtMost(has, m), card |-> cost - AtMost(has, m)]
<1>0. PICK m \in Halves(cost) :
        \E half \in Halves(cost - AtMost(has, m)) : s = Split(cost, has, m, half)
  BY DEF Splits
<1>1. PICK half \in Halves(cost - AtMost(has, m)) : s = Split(cost, has, m, half)
  BY <1>0
<1> DEFINE a == AtMost(has, m)
<1>2. m \in Nat /\ m <= cost /\ 2 * m <= cost + 1
  BY HalvesType
<1>3. a \in Int /\ a <= m
  BY <1>2 DEF AtMost
<1>4. cost - a \in Nat
  BY <1>2, <1>3
<1>5. half \in Nat /\ half <= cost - a /\ 2 * half <= cost - a + 1
  BY <1>4, HalvesType
<1>6. CASE cost - half > a
  BY <1>1, <1>6 DEF Split
<1>7. CASE ~(cost - half > a)
  <2>1. half = cost - a
    BY <1>3, <1>5, <1>7
  <2>2. s = [bonus |-> cost - half, card |-> half]
    BY <1>1, <1>7 DEF Split
  <2>3. cost - half = a
    BY <1>3, <2>1
  <2> QED
    BY <2>1, <2>2, <2>3
<1> QED
  BY <1>6, <1>7

LEMMA SplitFair ==
  ASSUME NEW cost \in Nat, NEW has \in Int, NEW s \in Splits(cost, has)
  PROVE  /\ s.bonus \in Int /\ s.card \in Nat
         /\ s.bonus <= has
         /\ FairSplit(cost, has, s.bonus, s.card)
<1>1. PICK m \in Halves(cost) :
        s = [bonus |-> AtMost(has, m), card |-> cost - AtMost(has, m)]
  BY SplitIsReference
<1>2. m \in Nat /\ m <= cost /\ cost \div 2 <= cost - m
  BY HalvesType
<1>3. AtMost(has, m) \in Int /\ AtMost(has, m) <= m /\ AtMost(has, m) <= has
  BY <1>2 DEF AtMost
<1>4. cost \div 2 \in Nat
  OBVIOUS
<1>5. s.bonus = AtMost(has, m) /\ s.card = cost - AtMost(has, m)
  BY <1>1
<1>6. \E half \in Halves(cost) : s.bonus = AtMost(has, half)
  BY <1>5
<1>7. /\ s.bonus \in Int /\ s.card \in Nat /\ s.bonus <= has
      /\ s.bonus + s.card = cost /\ s.card >= cost \div 2
  BY <1>2, <1>3, <1>4, <1>5
<1> QED
  BY <1>6, <1>7 DEF FairSplit

(***************************************************************************)
(* The inductive invariant.                                                *)
(***************************************************************************)
\* What the gateway took of the deposit of t, and what else it took for t.
Pledge(t) == IF hold[t] = "taken" THEN Deposit ELSE 0
Charged(t) == collected[t] - Pledge(t)

\* Until a call names a trip nothing is collected for it.
TripInv(t) ==
  /\ Charged(t) >= 0
  /\ (\A f \in Finishes : fin[f].trip # t) => hold[t] = "held" /\ collected[t] = 0

\* The trip of a finish that is through was charged what it counted.
CoveredInv(f) == fin[f].pc \in {"save", "paid"} => Charged(fin[f].trip) >= Due(f)

\* What the trip of a call without others has collected, by where that stands.
AloneInv(f) ==
  LET r == fin[f] IN
  Alone(f) =>
    /\ r.pc \in {"read", "deposit", "void"} =>
         hold[r.trip] = "held" /\ collected[r.trip] = 0
    /\ r.pc = "charge" =>
         IF r.card > Deposit THEN collected[r.trip] \in {0, Deposit}
         ELSE collected[r.trip] = 0
    /\ r.pc # "idle" => collected[r.trip] <= r.card

FairInv(f) ==
  LET r == fin[f] IN
  /\ Ended(f) => FairSplit(r.cost, r.read, r.bonus, r.card)
  /\ r.bonus + r.card = r.cost
  /\ r.pc = "idle" => r.trip = None
  /\ r.pc \in {"idle", "read"} => r.card = 0
  /\ r.pc = "deposit" => r.card > Deposit

\* Alone between its read and its update, a finish takes what is there.
LedgerInv ==
  ~overlapped =>
    /\ bonuses >= 0
    /\ \A f \in Finishes : fin[f].pc = "read" => fin[f].read <= bonuses
    /\ \A f, g \in Finishes : fin[f].pc = "read" /\ fin[g].pc = "read" => f = g

IInv ==
  /\ TypeOK
  /\ \A t \in Trips : TripInv(t)
  /\ \A f \in Finishes : CoveredInv(f) /\ AloneInv(f) /\ FairInv(f)
  /\ LedgerInv

LEMMA InitIInv == Init => IInv
<1> SUFFICES ASSUME Init PROVE IInv
  OBVIOUS
<1> DEFINE none == [trip |-> None, pc |-> "idle", read |-> 0, cost |-> 0,
                    bonus |-> 0, card |-> 0]
           Records == [trip : Trips \cup {None}, pc : Pcs, read : Int,
                       cost : Nat, bonus : Int, card : Nat]
<1>1. bonuses \in Nat
  BY TripSettlementAssumption DEF Init
<1>2. \A f \in Finishes : fin[f] = none
  BY DEF Init
<1>3. \A t \in Trips : hold[t] = "held" /\ collected[t] = 0
  <2>1. hold = [t \in Trips |-> "held"] /\ collected = [t \in Trips |-> 0]
    BY Zenon DEF Init
  <2> QED
    BY ONLY <2>1
<1>4. TypeOK
  <2>1. none \in Records
    BY DEF Pcs
  <2>2. fin = [f \in Finishes |-> none] /\ collected = [t \in Trips |-> 0]
        /\ hold = [t \in Trips |-> "held"]
    BY DEF Init
  <2>3. \A f \in Finishes : fin[f].pc = "idle"
    BY <1>2
  <2> HIDE DEF none, Records
  <2>4. fin \in [Finishes -> Records]
    BY <2>1, <2>2
  <2>5. collected \in [Trips -> Nat] /\ hold \in [Trips -> {"held", "taken", "voided"}]
    <3>1. 0 \in Nat /\ "held" \in {"held", "taken", "voided"}
      OBVIOUS
    <3> QED
      BY <2>2, <3>1, Zenon
  <2>6. overlapped \in BOOLEAN
    BY Zenon DEF Init
  <2>7. bonuses \in Int
    BY <1>1
  <2> QED
    BY <2>3, <2>4, <2>5, <2>6, <2>7 DEF TypeOK, Records
<1>5. \A t \in Trips : TripInv(t)
  <2> TAKE t \in Trips
  <2>1. Pledge(t) = 0 /\ collected[t] = 0 /\ hold[t] = "held"
    BY ONLY <1>3, t \in Trips DEF Pledge
  <2> QED
    BY ONLY <2>1 DEF TripInv, Charged
<1>6. \A f \in Finishes : CoveredInv(f) /\ AloneInv(f) /\ FairInv(f)
  BY <1>2 DEF CoveredInv, AloneInv, FairInv, Ended
<1>7. LedgerInv
  BY <1>1, <1>2 DEF LedgerInv
<1> QED
  BY <1>4, <1>5, <1>6, <1>7 DEF IInv

\* A step of one call leaves the other calls their invariants: it touches what
\* its own trip collected, and never lessens what that was charged.
LEMMA OneCallMoves ==
  ASSUME IInv, TypeOK', LedgerInv', NEW f \in Finishes, NEW t \in Trips,
         fin[f].trip = t, fin'[f].trip = t,
         fin[f].pc # "idle", fin'[f].pc # "idle", fin' = [fin EXCEPT ![f] = fin'[f]],
         hold' = [hold EXCEPT ![t] = hold'[t]],
         collected' = [collected EXCEPT ![t] = collected'[t]],
         Charged(t)' >= Charged(t),
         CoveredInv(f)', AloneInv(f)', FairInv(f)'
  PROVE  IInv'
<1>1. \A g \in Finishes : fin'[g].trip = fin[g].trip
  BY DEF IInv, TypeOK
<1>2. \A g \in Finishes : g # f => fin'[g] = fin[g]
  BY DEF IInv, TypeOK
<1>3. \A u \in Trips : u # t => hold'[u] = hold[u] /\ collected'[u] = collected[u]
  BY DEF IInv, TypeOK
<1>4. \A u \in Trips : collected[u] \in Nat /\ Pledge(u) \in Nat
  BY TripSettlementAssumption DEF IInv, TypeOK, Pledge
<1>5. \A u \in Trips : collected'[u] \in Nat /\ Pledge(u)' \in Nat
  BY TripSettlementAssumption DEF TypeOK, Pledge
<1>6. \A u \in Trips : Charged(u)' >= Charged(u) /\ Charged(u) \in Int /\ Charged(u)' \in Int
  <2> TAKE u \in Trips
  <2>1. CASE u = t
    BY <1>4, <1>5, <2>1 DEF Charged
  <2>2. CASE u # t
    BY <1>3, <1>4, <1>5, <2>2 DEF Charged, Pledge
  <2> QED
    BY <2>1, <2>2
<1>7. ASSUME NEW u \in Trips PROVE TripInv(u)'
  <2>1. Charged(u)' >= 0
    <3>1. Charged(u) >= 0
      BY DEF IInv, TripInv
    <3> HIDE DEF Charged
    <3> QED
      BY <1>6, <3>1
  <2>2. ASSUME \A g \in Finishes : fin'[g].trip # u
        PROVE  hold'[u] = "held" /\ collected'[u] = 0
    <3>1. u # t /\ \A g \in Finishes : fin[g].trip # u
      BY <1>1, <2>2
    <3> QED
      BY <1>3, <3>1 DEF IInv, TripInv
  <2> QED
    BY <2>1, <2>2 DEF TripInv
<1>8. ASSUME NEW g \in Finishes, g # f
      PROVE  CoveredInv(g)' /\ AloneInv(g)' /\ FairInv(g)'
  <2>1. fin'[g] = fin[g]
    BY <1>2, <1>8
  <2>2. CoveredInv(g)'
    <3> SUFFICES ASSUME fin[g].pc \in {"save", "paid"},
                        NEW u \in Trips, fin[g].trip = u
                 PROVE  Charged(u)' >= Due(g)
      BY <2>1 DEF IInv, TypeOK, CoveredInv, Due, Charged, Pledge
    <3>1. Charged(u) >= Due(g) /\ Due(g) \in Int
      BY TripSettlementAssumption DEF IInv, TypeOK, CoveredInv, Due
    <3>2. Charged(u)' >= Charged(u) /\ Charged(u) \in Int /\ Charged(u)' \in Int
      BY <1>6
    <3> QED
      BY ONLY <3>1, <3>2
  <2>3. AloneInv(g)'
    <3> SUFFICES ASSUME Alone(g)', fin[g].pc # "idle" PROVE AloneInv(g)'
      BY <2>1 DEF AloneInv
    <3>1. Alone(g) /\ fin[g].trip # t /\ fin[g].trip \in Trips
      BY <1>1, <1>8 DEF Alone, IInv, TypeOK
    <3>2. hold'[fin[g].trip] = hold[fin[g].trip]
          /\ collected'[fin[g].trip] = collected[fin[g].trip]
      BY <1>3, <3>1
    <3> QED
      BY <2>1, <3>1, <3>2 DEF IInv, AloneInv
  <2>4. FairInv(g)'
    BY <2>1 DEF IInv, FairInv, Ended
  <2> QED
    BY <2>2, <2>3, <2>4
<1>9. \A g \in Finishes : CoveredInv(g)' /\ AloneInv(g)' /\ FairInv(g)'
  BY <1>8
<1> QED
  BY <1>7, <1>9 DEF IInv

LEMMA ReadUserStep ==
  ASSUME IInv, NEW f \in Finishes, NEW t \in Trips, ReadUser(f, t)
  PROVE  IInv'
<1>1. /\ fin[f].pc = "idle" /\ fin[f].trip = None /\ None # t
      /\ fin'[f] = [fin[f] EXCEPT !.trip = t, !.pc = "read", !.read = bonuses]
      /\ \A g \in Finishes : g # f => fin'[g] = fin[g]
      /\ UNCHANGED <<bonuses, hold, collected>>
  BY TripSettlementAssumption DEF ReadUser, IInv, TypeOK, FairInv
<1>2. TypeOK'
  <2>1. overlapped' \in BOOLEAN
    BY Zenon DEF ReadUser, IInv, TypeOK
  <2> QED
    BY <1>1, <2>1 DEF ReadUser, IInv, TypeOK, Pcs
<1>3. LedgerInv'
  <2> SUFFICES ASSUME ~overlapped' PROVE LedgerInv'
    BY DEF LedgerInv
  <2>1. ~overlapped /\ \A g \in Finishes : fin[g].pc # "read"
    BY Zenon DEF ReadUser
  <2>2. bonuses >= 0 /\ bonuses \in Int
    BY <2>1 DEF IInv, TypeOK, LedgerInv
  <2>3. fin'[f].pc = "read" /\ fin'[f].read = bonuses
    BY <1>1 DEF IInv, TypeOK
  <2>4. \A g \in Finishes : fin'[g].pc = "read" => g = f
    BY <1>1, <2>1
  <2>5. bonuses' = bonuses
    BY <1>1
  <2>6. ASSUME NEW g \in Finishes, fin'[g].pc = "read" PROVE fin'[g].read <= bonuses'
    BY <2>2, <2>3, <2>4, <2>5, <2>6
  <2>7. bonuses' >= 0
    BY <2>2, <2>5
  <2> QED
    BY <2>4, <2>6, <2>7 DEF LedgerInv
<1>4. \A g \in Finishes : fin[g].trip \in Trips => fin'[g].trip = fin[g].trip
  BY <1>1, TripSettlementAssumption
<1>5. ASSUME NEW u \in Trips PROVE TripInv(u)'
  <2>1. (\A g \in Finishes : fin'[g].trip # u) => \A g \in Finishes : fin[g].trip # u
    BY <1>4
  <2> QED
    BY <1>1, <2>1 DEF IInv, TripInv, Charged, Pledge
<1>6. ASSUME NEW g \in Finishes PROVE CoveredInv(g)' /\ FairInv(g)'
  <2>1. CASE g = f
    <3>1. /\ fin'[f].pc = "read" /\ fin[f].pc = "idle"
          /\ fin'[f].bonus = fin[f].bonus /\ fin'[f].card = fin[f].card
          /\ fin'[f].cost = fin[f].cost
      BY <1>1 DEF IInv, TypeOK
    <3>2. fin[f].bonus + fin[f].card = fin[f].cost /\ fin[f].card = 0
      BY <3>1 DEF IInv, FairInv
    <3> QED
      BY ONLY <2>1, <3>1, <3>2 DEF CoveredInv, FairInv, Ended
  <2>2. CASE g # f
    BY <1>1, <2>2 DEF IInv, CoveredInv, FairInv, Ended, Charged, Pledge, Due
  <2> QED
    BY <2>1, <2>2
<1>7. ASSUME NEW g \in Finishes PROVE AloneInv(g)'
  <2>1. CASE g = f
    <3> SUFFICES ASSUME Alone(f)' PROVE AloneInv(f)'
      BY <2>1 DEF AloneInv
    <3>1. \A h \in Finishes : fin[h].trip # t
      BY <1>1 DEF Alone
    <3>2. hold[t] = "held" /\ collected[t] = 0
      BY <3>1 DEF IInv, TripInv
    <3>3. fin'[f].trip = t /\ fin'[f].pc = "read" /\ fin'[f].card \in Nat
      BY <1>1, <1>2 DEF IInv, TypeOK
    <3> QED
      BY <1>1, <3>2, <3>3 DEF AloneInv
  <2>2. CASE g # f
    <3> SUFFICES ASSUME Alone(g)', fin[g].pc # "idle" PROVE AloneInv(g)'
      BY <1>1, <2>2 DEF AloneInv
    <3>1. Alone(g)
      BY <1>1, <1>4, <2>2, TripSettlementAssumption DEF Alone, IInv, TypeOK
    <3> QED
      BY <1>1, <2>2, <3>1 DEF IInv, AloneInv
  <2> QED
    BY <2>1, <2>2
<1> QED
  BY <1>2, <1>3, <1>5, <1>6, <1>7 DEF IInv

\* The update of the row: the split of what the handler read.
LEMMA EndTripStep ==
  ASSUME IInv, NEW f \in Finishes, EndTrip(f)
  PROVE  IInv'
<1>0. PICK cost \in Costs : \E s \in Splits(cost, fin[f].read) :
        /\ fin[f].pc = "read"
        /\ fin' = [fin EXCEPT ![f].pc = IF s.card = 0 THEN "save"
                                    ELSE IF s.card > Deposit THEN "deposit"
                                    ELSE "void",
                          ![f].cost = cost, ![f].bonus = s.bonus, ![f].card = s.card]
        /\ bonuses' = bonuses - s.bonus
        /\ UNCHANGED <<hold, collected, overlapped>>
  BY DEF EndTrip
<1>1. PICK s \in Splits(cost, fin[f].read) :
        /\ fin[f].pc = "read"
        /\ fin' = [fin EXCEPT ![f].pc = IF s.card = 0 THEN "save"
                                    ELSE IF s.card > Deposit THEN "deposit"
                                    ELSE "void",
                          ![f].cost = cost, ![f].bonus = s.bonus, ![f].card = s.card]
        /\ bonuses' = bonuses - s.bonus
        /\ UNCHANGED <<hold, collected, overlapped>>
  BY <1>0
<1>2. cost \in Nat /\ fin[f].read \in Int
  BY TripSettlementAssumption DEF IInv, TypeOK
<1>3. /\ s.bonus \in Int /\ s.card \in Nat
      /\ s.bonus <= fin[f].read
      /\ FairSplit(cost, fin[f].read, s.bonus, s.card)
  BY <1>1, <1>2, SplitFair
<1> DEFINE pc == IF s.card = 0 THEN "save"
                 ELSE IF s.card > Deposit THEN "deposit" ELSE "void"
           r == [trip |-> fin[f].trip, pc |-> pc, read |-> fin[f].read,
                 cost |-> cost, bonus |-> s.bonus, card |-> s.card]
<1>4. fin'[f] = r /\ fin' = [fin EXCEPT ![f] = fin'[f]]
  <2>1. fin \in [Finishes -> [trip : Trips \cup {None}, pc : Pcs, read : Int,
                              cost : Nat, bonus : Int, card : Nat]]
    BY DEF IInv, TypeOK
  <2>2. fin' = [fin EXCEPT ![f].pc = pc, ![f].cost = cost, ![f].bonus = s.bonus,
                           ![f].card = s.card]
    BY <1>1
  <2> HIDE DEF pc
  <2> QED
    BY <2>1, <2>2
<1>5. PICK t \in Trips : fin[f].trip = t
  <2>1. fin[f].pc # "idle" => fin[f].trip \in Trips
    BY DEF IInv, TypeOK
  <2> QED
    BY <1>1, <2>1
<1>6. TypeOK'
  BY <1>1, <1>2, <1>3, <1>4, <1>5 DEF IInv, TypeOK, Pcs
<1>7. LedgerInv'
  BY <1>1, <1>2, <1>3, <1>4, <1>5 DEF IInv, TypeOK, LedgerInv
<1>8. FairInv(f)'
  BY <1>3, <1>4 DEF FairInv, FairSplit, Ended
<1>9. AloneInv(f)'
  <2> SUFFICES ASSUME Alone(f)' PROVE AloneInv(f)'
    BY DEF AloneInv
  <2>1. Alone(f)
    BY <1>1, <1>4, <1>5 DEF Alone, IInv, TypeOK
  <2>2. hold[t] = "held" /\ collected[t] = 0
    BY <1>1, <1>5, <2>1 DEF IInv, AloneInv
  <2> QED
    BY <1>1, <1>3, <1>4, <1>5, <2>2 DEF AloneInv
<1>10. CoveredInv(f)'
  <2>1. Charged(t)' = Charged(t) /\ Charged(t) >= 0
    BY <1>1, <1>4, <1>5 DEF Charged, Pledge, IInv, TripInv
  <2>2. fin'[f].pc \in {"save", "paid"} => Due(f)' = 0
    BY <1>4, TripSettlementAssumption DEF Due
  <2> HIDE DEF Charged
  <2> QED
    BY <1>4, <1>5, <2>1, <2>2 DEF CoveredInv
<1>11. Charged(t)' >= Charged(t)
  BY <1>1, <1>4, <1>5, TripSettlementAssumption DEF Charged, Pledge, IInv, TypeOK
<1>12. /\ hold' = [hold EXCEPT ![t] = hold'[t]]
       /\ collected' = [collected EXCEPT ![t] = collected'[t]]
  BY <1>1, <1>4, <1>5 DEF IInv, TypeOK
<1>13. fin[f].pc # "idle" /\ fin'[f].pc # "idle" /\ fin[f].trip = t /\ fin'[f].trip = t
  BY <1>1, <1>4, <1>5
<1> QED
  BY <1>4, <1>5, <1>6, <1>7, <1>8, <1>9, <1>10, <1>11, <1>12, <1>13, OneCallMoves

\* The steps at the gateway: deposit, void, charge.
LEMMA GatewayStep ==
  ASSUME IInv, NEW f \in Finishes,
         \/ AcceptDeposit(f)
         \/ \E answered \in BOOLEAN : VoidDeposit(f, answered) \/ Charge(f, answered)
  PROVE  IInv'
<1> USE TripSettlementAssumption
<1>0. fin[f].pc \in {"deposit", "void", "charge"} /\ UNCHANGED <<bonuses, overlapped>>
  BY DEF AcceptDeposit, VoidDeposit, Charge
<1>1. PICK pc \in {"charge", "save", "died"} : fin' = [fin EXCEPT ![f].pc = pc]
  BY DEF AcceptDeposit, VoidDeposit, Charge
<1>2. PICK t \in Trips : fin[f].trip = t
  BY <1>0 DEF IInv, TypeOK
<1>3. /\ fin'[f] = [fin[f] EXCEPT !.pc = pc]
      /\ fin' = [fin EXCEPT ![f] = fin'[f]] /\ fin'[f].trip = t
      /\ fin[f].card \in Nat /\ collected[t] \in Nat
      /\ fin'[f].pc = pc /\ fin'[f].card = fin[f].card
  BY <1>0, <1>1, <1>2 DEF IInv, TypeOK
<1>4. \/ fin[f].pc = "deposit" /\ pc = "charge" /\ hold[t] = "held" /\ hold'[t] = "taken"
         /\ collected'[t] = collected[t] + Deposit
      \/ fin[f].pc = "deposit" /\ pc = "charge" /\ hold'[t] = hold[t]
         /\ collected'[t] = collected[t]
      \/ fin[f].pc = "void" /\ hold[t] = "held" /\ hold'[t] = "voided"
         /\ collected'[t] = collected[t] /\ pc \in {"charge", "died"}
      \/ fin[f].pc = "charge" /\ pc \in {"save", "died"} /\ hold'[t] = hold[t]
         /\ collected'[t] = collected[t] + Due(f)
  <2>1. \A x : fin' = [fin EXCEPT ![f].pc = x] => fin'[f].pc = x
    BY DEF IInv, TypeOK
  <2>2. hold \in [Trips -> {"held", "taken", "voided"}] /\ collected \in [Trips -> Nat]
    BY DEF IInv, TypeOK
  <2>3. CASE AcceptDeposit(f)
    <3>1. fin[f].pc = "deposit" /\ pc = "charge"
      BY <1>3, <2>1, <2>3 DEF AcceptDeposit
    <3> QED
      BY <1>2, <2>2, <2>3, <3>1 DEF AcceptDeposit
  <2>4. ASSUME NEW answered \in BOOLEAN, VoidDeposit(f, answered)
        PROVE  /\ fin[f].pc = "void" /\ pc \in {"charge", "died"}
               /\ hold[t] = "held" /\ hold'[t] = "voided" /\ collected'[t] = collected[t]
    <3>1. fin[f].pc = "void" /\ pc \in {"charge", "died"}
      BY <1>3, <2>1, <2>4 DEF VoidDeposit
    <3> QED
      BY <1>2, <2>2, <2>4, <3>1 DEF VoidDeposit
  <2>5. ASSUME NEW answered \in BOOLEAN, Charge(f, answered)
        PROVE  /\ fin[f].pc = "charge" /\ pc \in {"save", "died"}
               /\ hold'[t] = hold[t] /\ collected'[t] = collected[t] + Due(f)
    <3>1. fin[f].pc = "charge" /\ pc \in {"save", "died"}
      BY <1>3, <2>1, <2>5 DEF Charge
    <3> QED
      BY <1>2, <2>2, <2>5, <3>1 DEF Charge
  <2> QED
    BY <2>3, <2>4, <2>5
<1>5. /\ hold' = [hold EXCEPT ![t] = hold'[t]]
      /\ collected' = [collected EXCEPT ![t] = collected'[t]]
      /\ hold'[t] \in {"held", "taken", "voided"}
  BY <1>2, <1>3 DEF AcceptDeposit, VoidDeposit, Charge, IInv, TypeOK
<1>6. Due(f) \in Nat /\ Due(f) <= fin[f].card /\ Due(f)' = Due(f)
  BY <1>3 DEF Due
<1>7. collected'[t] \in Nat
  BY <1>3, <1>4, <1>6
<1>8. TypeOK'
  BY <1>0, <1>1, <1>3, <1>5, <1>7 DEF IInv, TypeOK, Pcs
<1>9. LedgerInv'
  BY <1>0, <1>1, <1>3 DEF IInv, TypeOK, LedgerInv
<1>10. Charged(t)' >= Charged(t) /\ (pc = "save" => Charged(t)' >= Due(f))
  <2>1. Charged(t) >= 0
    BY <1>3 DEF IInv, TripInv
  <2>2. Charged(t)' = collected'[t] - (IF hold'[t] = "taken" THEN Deposit ELSE 0)
    BY <1>3 DEF Charged, Pledge
  <2>3. Charged(t) = collected[t] - (IF hold[t] = "taken" THEN Deposit ELSE 0)
    BY DEF Charged, Pledge
  <2> HIDE DEF Charged
  <2> QED
    BY <1>3, <1>4, <1>6, <1>7, <2>1, <2>2, <2>3
<1>11. CoveredInv(f)'
  BY <1>1, <1>2, <1>3, <1>6, <1>10 DEF CoveredInv
<1>12. FairInv(f)'
  BY <1>0, <1>1, <1>3, <1>4 DEF IInv, FairInv, Ended
<1>13. AloneInv(f)'
  <2> SUFFICES ASSUME Alone(f)' PROVE AloneInv(f)'
    BY DEF AloneInv
  <2>1. Alone(f)
    BY <1>1, <1>3 DEF Alone, IInv, TypeOK
  <2>2. AloneInv(f) /\ FairInv(f)
    BY DEF IInv
  <2>3. collected[t] <= fin[f].card
    BY <1>0, <1>2, <2>1, <2>2 DEF AloneInv
  <2>4. CASE fin[f].pc = "deposit"
    <3>1. fin[f].card > Deposit /\ collected[t] = 0
      BY <1>2, <2>1, <2>2, <2>4 DEF AloneInv, FairInv
    <3> QED
      BY <1>2, <1>3, <1>4, <2>4, <3>1 DEF AloneInv
  <2>5. CASE fin[f].pc = "void"
    <3>1. collected[t] = 0
      BY <1>2, <2>1, <2>2, <2>5 DEF AloneInv
    <3> QED
      BY <1>2, <1>3, <1>4, <2>5, <3>1 DEF AloneInv
  <2>6. CASE fin[f].pc = "charge"
    <3>1. collected[t] + Due(f) <= fin[f].card
      BY <1>2, <1>3, <2>1, <2>2, <2>6 DEF AloneInv, Due
    <3> QED
      BY <1>2, <1>3, <1>4, <2>6, <3>1 DEF AloneInv
  <2> QED
    BY <1>0, <2>4, <2>5, <2>6
<1>14. fin[f].pc # "idle" /\ fin'[f].pc # "idle"
  BY <1>0, <1>1, <1>3
<1> QED
  BY <1>2, <1>3, <1>5, <1>8, <1>9, <1>10, <1>11, <1>12, <1>13, <1>14, OneCallMoves

LEMMA RestStep ==
  ASSUME IInv, NEW f \in Finishes, SavePayment(f) \/ Die(f)
  PROVE  IInv'
<1>0. fin[f].pc # "idle" /\ UNCHANGED <<bonuses, hold, collected, overlapped>>
  BY DEF SavePayment, Die
<1>1. PICK pc \in {"paid", "died"} :
        fin' = [fin EXCEPT ![f].pc = pc] /\ (pc = "paid" => fin[f].pc = "save")
  BY DEF SavePayment, Die
<1>2. PICK t \in Trips : fin[f].trip = t
  BY <1>0 DEF IInv, TypeOK
<1>3. /\ fin'[f] = [fin[f] EXCEPT !.pc = pc]
      /\ fin' = [fin EXCEPT ![f] = fin'[f]] /\ fin'[f].trip = t
      /\ fin'[f].pc = pc
  BY <1>0, <1>1, <1>2 DEF IInv, TypeOK
<1>4. TypeOK'
  BY <1>0, <1>1, <1>2, <1>3 DEF IInv, TypeOK, Pcs
<1>5. LedgerInv'
  BY <1>0, <1>1, <1>2, <1>3 DEF IInv, TypeOK, LedgerInv
<1>6. CoveredInv(f)'
  BY <1>0, <1>1, <1>2, <1>3 DEF IInv, CoveredInv, Due, Charged, Pledge
<1>7. FairInv(f)'
  BY <1>1, <1>2, <1>3 DEF IInv, FairInv, Ended
<1>8. AloneInv(f)'
  <2>1. Alone(f)' => Alone(f)
    BY <1>1, <1>2, <1>3 DEF Alone, IInv, TypeOK
  <2> QED
    BY <1>0, <1>1, <1>2, <1>3, <2>1 DEF IInv, AloneInv
<1>9. Charged(t)' >= Charged(t)
  BY <1>0, <1>2, <1>3, TripSettlementAssumption DEF Charged, Pledge, IInv, TypeOK
<1>10. /\ hold' = [hold EXCEPT ![t] = hold'[t]]
      /\ collected' = [collected EXCEPT ![t] = collected'[t]]
      /\ fin'[f].pc # "idle"
  BY <1>0, <1>1, <1>2, <1>3 DEF IInv, TypeOK
<1> QED
  BY <1>0, <1>2, <1>3, <1>4, <1>5, <1>6, <1>7, <1>8, <1>9, <1>10, OneCallMoves

LEMMA IInvStep == IInv /\ [Next]_vars => IInv'
<1> SUFFICES ASSUME IInv, [Next]_vars PROVE IInv'
  OBVIOUS
<1>1. ASSUME UNCHANGED <<fin, hold, collected>>, TypeOK', LedgerInv' PROVE IInv'
  <2>1. \A t \in Trips : TripInv(t)'
    BY <1>1 DEF IInv, TripInv, Charged, Pledge
  <2>2. \A f \in Finishes : CoveredInv(f)' /\ AloneInv(f)' /\ FairInv(f)'
    BY <1>1 DEF IInv, CoveredInv, AloneInv, FairInv, Alone, Ended, Charged, Pledge, Due
  <2> QED
    BY <1>1, <2>1, <2>2 DEF IInv
<1>2. CASE UNCHANGED vars
  <2>1. TypeOK' /\ LedgerInv'
    BY <1>2 DEF IInv, TypeOK, LedgerInv
  <2> QED
    BY <1>1, <1>2, <2>1
<1>3. ASSUME NEW sum \in Grants, Redeem(sum) PROVE IInv'
  <2>1. TypeOK' /\ LedgerInv'
    BY <1>3, TripSettlementAssumption DEF Redeem, IInv, TypeOK, LedgerInv
  <2> QED
    BY <1>1, <1>3, <2>1 DEF Redeem
<1> QED
  BY <1>2, <1>3, ReadUserStep, EndTripStep, GatewayStep, RestStep DEF Next

THEOREM SettlementInductive == Spec => []IInv
  BY InitIInv, IInvStep, PTL DEF Spec

\* The amounts keep their types: nobody is charged a negative amount.
THEOREM SettlementTypeCorrect == Spec => []TypeOK
  BY SettlementInductive, PTL DEF IInv

\* Whatever the cost and the bonuses, the bonuses read pay up to half and the
\* card pays the rest exactly.
THEOREM SplitAlwaysFair == Spec => []SplitIsFair
<1>1. IInv => SplitIsFair
  BY DEF IInv, FairInv, SplitIsFair
<1> QED
  BY <1>1, SettlementInductive, PTL

\* Only finishes that overlap can overdraw the bonuses.
THEOREM OverdraftNeedsOverlap == Spec => []NoOverdraftAlone
<1>1. IInv => NoOverdraftAlone
  BY DEF IInv, LedgerInv, NoOverdraftAlone
<1> QED
  BY <1>1, SettlementInductive, PTL

\* A trip with a finish that went through brought in what that counted, but for
\* a deposit the gateway refused to take; and a trip that one call ended never
\* brings in more than it cost, wherever that call is or died.
THEOREM PaidTripIsPaidInFull == Spec => []PaidInFull
<1>1. ASSUME IInv PROVE PaidInFull
  <2> SUFFICES ASSUME NEW f \in Finishes
               PROVE  /\ fin[f].pc = "paid" =>
                           \/ Brought(f) >= fin[f].cost
                           \/ /\ fin[f].card > Deposit /\ hold[fin[f].trip] # "taken"
                              /\ Brought(f) >= fin[f].cost - Deposit
                      /\ fin[f].pc # "idle" /\ Alone(f) => Brought(f) <= fin[f].cost
    BY DEF PaidInFull
  <2> USE <1>1, TripSettlementAssumption
  <2>1. /\ fin[f].pc # "idle" => fin[f].trip \in Trips /\ collected[fin[f].trip] \in Nat
        /\ fin[f].bonus \in Int /\ fin[f].card \in Nat /\ fin[f].cost \in Nat
        /\ fin[f].bonus + fin[f].card = fin[f].cost
    BY DEF IInv, TypeOK, FairInv
  <2>2. ASSUME fin[f].pc = "paid"
        PROVE  \/ Brought(f) >= fin[f].cost
               \/ /\ fin[f].card > Deposit /\ hold[fin[f].trip] # "taken"
                  /\ Brought(f) >= fin[f].cost - Deposit
    <3>1. Charged(fin[f].trip) >= Due(f)
      BY <2>2 DEF IInv, CoveredInv
    <3> QED
      BY <2>1, <2>2, <3>1 DEF Charged, Pledge, Due, Brought
  <2>3. ASSUME fin[f].pc # "idle", Alone(f) PROVE Brought(f) <= fin[f].cost
    <3>1. collected[fin[f].trip] <= fin[f].card
      BY <2>3 DEF IInv, AloneInv
    <3> QED
      BY <2>1, <2>3, <3>1 DEF Brought
  <2> QED
    BY <2>2, <2>3
<1> QED
  BY <1>1, SettlementInductive, PTL

(***************************************************************************)
(* TripHistory.                                                            *)
(***************************************************************************)
\* How many trips stand before t in the list.
Before(t) == {u \in History!Over : startTime[u] > startTime[t]}
Ahead(t) == Cardinality(Before(t))

Steady == \A t, u \in History!Over : t # u => startTime[t] # startTime[u]

\* A trip the reader began with is over still, and it was seen or stands behind
\* the pages that are turned.
Awaited(t) ==
  /\ t \in History!Over
  /\ \/ t \in reader.seen
     \/ ~reader.done /\ Ahead(t) >= reader.page * PageSize

ReaderInv ==
  /\ reader.page = 0 => reader = History!Away
  /\ ~reader.done => reader.page * PageSize <= Cardinality(Trips)
  /\ ~unsteady => Steady
  /\ ~unsteady /\ reader.page > 0 => \A t \in reader.began : Awaited(t)

\* A row with a photo, and one whose photo was just written, has its folder.
PhotoInv ==
  /\ \A t \in photos : row[t] # "none" /\ (History!There(t) => t \in folder \cup refused)
  /\ \A k \in Shots : saving[k] # None => row[saving[k]] # "none"
  /\ \A k \in written : History!There(saving[k]) => saving[k] \in folder \cup refused

HistoryInv == History!TypeOK /\ PhotoInv /\ ReaderInv

LEMMA SameCount == \A S : /\ History!Cardinality(S) = Cardinality(S)
                          /\ History!IsFiniteSet(S) <=> IsFiniteSet(S)
<1>1. \A S : History!Cardinality(S) = Cardinality(S)
  BY DEF History!Cardinality, Cardinality
<1>2. \A S : History!IsFiniteSet(S) <=> IsFiniteSet(S)
  BY DEF History!IsFiniteSet, IsFiniteSet
<1> QED
  BY <1>1, <1>2

LEMMA TripsFinite ==
  /\ IsFiniteSet(Trips) /\ Cardinality(Trips) \in Nat
  /\ None \notin Trips /\ PageSize \in Nat \ {0} /\ LastTime \in Nat
<1>1. /\ IsFiniteSet(Trips) /\ None \notin Trips
      /\ PageSize \in Nat \ {0} /\ LastTime \in Nat
  BY MCTripRecordsAssumption, SameCount DEF History!TripHistoryAssumption
<1> QED
  BY <1>1, FS_CardinalityType

HistoryType ==
  /\ row \in [Trips -> {"none", "unlisted", "listed", "gone"}]
  /\ startTime \in [Trips -> 0 .. LastTime] /\ clock \in 0 .. LastTime
  /\ photos \subseteq Trips /\ folder \subseteq Trips
  /\ saving \in [Shots -> Trips \cup {None}]
  /\ written \subseteq {k \in Shots : saving[k] # None} /\ refused \subseteq Trips
  /\ removal \in [Removals -> Trips \cup {None}]
  /\ reader \in [page : 0 .. Cardinality(Trips) + 1, seen : SUBSET Trips,
                 began : SUBSET Trips, done : BOOLEAN]
  /\ unsteady \in BOOLEAN

LEMMA HistoryTypeIs == History!TypeOK <=> HistoryType
<1>1. History!Cardinality(Trips) = Cardinality(Trips)
  BY SameCount
<1> QED
  BY <1>1 DEF History!TypeOK, HistoryType

LEMMA HistoryTypeNext == History!TypeOK' <=> HistoryType'
  BY HistoryTypeIs, PTL

LEMMA HistoryInit == History!Init => HistoryInv
<1> SUFFICES ASSUME History!Init PROVE HistoryInv
  OBVIOUS
<1> USE TripsFinite DEF History!Init, History!Away
<1>1. HistoryType
  <2>1. reader \in [page : 0 .. Cardinality(Trips) + 1, seen : SUBSET Trips,
                    began : SUBSET Trips, done : BOOLEAN]
    <3>1. reader = [page |-> 0, seen |-> {}, began |-> {}, done |-> FALSE]
      OBVIOUS
    <3>2. 0 \in 0 .. Cardinality(Trips) + 1
      OBVIOUS
    <3> QED
      BY ONLY <3>1, <3>2
  <2>2. /\ row \in [Trips -> {"none", "unlisted", "listed", "gone"}]
        /\ startTime \in [Trips -> 0 .. LastTime] /\ clock \in 0 .. LastTime
        /\ removal \in [Removals -> Trips \cup {None}]
    OBVIOUS
  <2>3. /\ photos \subseteq Trips /\ folder \subseteq Trips /\ unsteady \in BOOLEAN
        /\ saving \in [Shots -> Trips \cup {None}] /\ refused \subseteq Trips
        /\ written \subseteq {k \in Shots : saving[k] # None}
    OBVIOUS
  <2> QED
    BY ONLY <2>1, <2>2, <2>3 DEF HistoryType
<1>2. PhotoInv
  BY DEF PhotoInv
<1>3. ReaderInv
  BY DEF ReaderInv, Steady, History!Over
<1> QED
  BY <1>1, <1>2, <1>3, HistoryTypeIs DEF HistoryInv

\* Trips that end meanwhile may come in anywhere: the others stay behind as many.
LEMMA OthersStayBehind ==
  ASSUME HistoryType, HistoryType', ReaderInv, UNCHANGED reader,
         unsteady' = (unsteady \/ History!Tied'),
         History!Over \subseteq History!Over',
         \A t \in History!Over : startTime'[t] = startTime[t]
  PROVE  ReaderInv'
<1>1. ~unsteady' => Steady'
  BY DEF History!Tied, Steady
<1>2. ASSUME ~unsteady', reader'.page > 0, NEW t \in reader'.began PROVE Awaited(t)'
  <2>1. Awaited(t)
    BY <1>2 DEF ReaderInv
  <2>2. t \in History!Over'
    BY <2>1 DEF Awaited
  <2>3. Before(t) \subseteq Before(t)' /\ Before(t)' \subseteq Trips
    BY <2>1 DEF Awaited, Before, History!Over
  <2>4. IsFiniteSet(Before(t)') /\ IsFiniteSet(Before(t))
    BY <2>3, TripsFinite, FS_Subset
  <2>5. Ahead(t) <= Ahead(t)'
    BY <2>3, <2>4, FS_Subset DEF Ahead
  <2>6. Ahead(t) \in Nat /\ Ahead(t)' \in Nat
    BY <2>4, FS_CardinalityType DEF Ahead
  <2>7. reader.page * PageSize \in Nat
    BY TripsFinite DEF HistoryType
  <2> HIDE DEF Ahead
  <2>8. ASSUME t \notin reader'.seen
        PROVE  ~reader'.done /\ Ahead(t)' >= reader'.page * PageSize
    <3>1. ~reader.done /\ Ahead(t) >= reader.page * PageSize
      BY <2>1, <2>8 DEF Awaited
    <3> QED
      BY <2>5, <2>6, <2>7, <3>1
  <2> QED
    BY <2>2, <2>8 DEF Awaited
<1> QED
  BY <1>1, <1>2 DEF ReaderInv, History!Away

\* Nothing is promised to the reader once the list was shaken.
LEMMA ShakenPromisesNothing ==
  ASSUME ReaderInv, UNCHANGED reader, unsteady' = TRUE
  PROVE  ReaderInv'
  BY DEF ReaderInv, History!Away

LEMMA TripSteps ==
  ASSUME HistoryType, PhotoInv, ReaderInv, NEW t \in Trips,
         \/ History!Ride(t) \/ History!EndRide(t)
         \/ History!Create(t) \/ History!Update(t)
  PROVE  HistoryType' /\ PhotoInv' /\ ReaderInv'
<1> USE TripsFinite
<1>1. CASE History!Ride(t)
  <2>1. HistoryType' /\ PhotoInv'
    BY <1>1 DEF History!Ride, History!Shakes, History!shotVars, HistoryType, PhotoInv, History!There
  <2>2. History!Over \subseteq History!Over' /\ \A u \in History!Over : startTime'[u] = startTime[u]
    BY <1>1 DEF History!Ride, HistoryType, History!Over
  <2> QED
    BY <1>1, <2>1, <2>2, OthersStayBehind DEF History!Ride, History!Shakes
<1>2. CASE History!EndRide(t)
  <2>1. HistoryType' /\ PhotoInv'
    BY <1>2 DEF History!EndRide, History!Shakes, History!shotVars, HistoryType, PhotoInv, History!There
  <2>2. History!Over \subseteq History!Over' /\ \A u \in History!Over : startTime'[u] = startTime[u]
    BY <1>2 DEF History!EndRide, HistoryType, History!Over
  <2> QED
    BY <1>2, <2>1, <2>2, OthersStayBehind DEF History!EndRide, History!Shakes
<1>3. CASE History!Create(t)
  <2>1. HistoryType' /\ PhotoInv'
    BY <1>3 DEF History!Create, History!Shakes, History!shotVars, HistoryType, PhotoInv, History!There
  <2>2. History!Over \subseteq History!Over' /\ \A u \in History!Over : startTime'[u] = startTime[u]
    BY <1>3 DEF History!Create, HistoryType, History!Over
  <2> QED
    BY <1>3, <2>1, <2>2, OthersStayBehind DEF History!Create, History!Shakes
<1>4. CASE History!Update(t)
  <2>0. PICK s \in 1 .. LastTime, to \in {"unlisted", "listed"} :
          /\ startTime' = [startTime EXCEPT ![t] = s] /\ row' = [row EXCEPT ![t] = to]
          /\ History!Shakes(s # startTime[t] \/ (row[t] = "listed" /\ to = "unlisted"))
    BY <1>4 DEF History!Update
  <2>1. HistoryType' /\ PhotoInv'
    BY <1>4, <2>0 DEF History!Update, History!Shakes, History!shotVars, HistoryType, PhotoInv, History!There
  <2>2. CASE s # startTime[t] \/ (row[t] = "listed" /\ to = "unlisted")
    BY <1>4, <2>0, <2>1, <2>2, ShakenPromisesNothing DEF History!Update, History!Shakes
  <2>3. CASE ~(s # startTime[t] \/ (row[t] = "listed" /\ to = "unlisted"))
    <3>1. History!Over \subseteq History!Over' /\ \A u \in History!Over : startTime'[u] = startTime[u]
      BY <2>0, <2>3 DEF HistoryType, History!Over
    <3> QED
      BY <1>4, <2>0, <2>1, <2>3, <3>1, OthersStayBehind DEF History!Update, History!Shakes
  <2> QED
    BY <2>2, <2>3
<1> QED
  BY <1>1, <1>2, <1>3, <1>4

LEMMA RemovalSteps ==
  ASSUME HistoryType, PhotoInv, ReaderInv, NEW k \in Removals,
         History!RemoveRow(k) \/ \E t \in Trips : History!RemoveFind(k, t)
  PROVE  HistoryType' /\ PhotoInv' /\ ReaderInv'
<1> USE TripsFinite
<1>1. ASSUME NEW t \in Trips, History!RemoveFind(k, t)
      PROVE  HistoryType' /\ PhotoInv' /\ ReaderInv'
  <2>1. HistoryType' /\ PhotoInv'
    BY <1>1 DEF History!RemoveFind, History!shotVars, HistoryType, PhotoInv, History!There
  <2>2. ReaderInv'
    BY <1>1 DEF History!RemoveFind, ReaderInv, History!Away, Steady, Awaited, Ahead, Before, History!Over
  <2> QED
    BY <2>1, <2>2
<1>2. CASE History!RemoveRow(k)
  <2> DEFINE t == removal[k]
  <2>1. /\ t \in Trips /\ removal' = [removal EXCEPT ![k] = None]
        /\ UNCHANGED <<startTime, clock, photos, saving, written, refused, reader>>
    BY <1>2 DEF History!RemoveRow, History!shotVars, HistoryType
  <2>2. CASE UNCHANGED <<row, folder, unsteady>>
    <3>1. HistoryType' /\ PhotoInv'
      BY <2>1, <2>2 DEF HistoryType, PhotoInv, History!There
    <3>2. ReaderInv'
      BY ONLY ReaderInv, <2>1, <2>2
         DEF ReaderInv, History!Away, Steady, Awaited, Ahead, Before, History!Over
    <3> QED
      BY <3>1, <3>2
  <2>3. CASE /\ row' = [row EXCEPT ![t] = "gone"] /\ folder' = folder \ {t}
             /\ History!Shakes(TRUE)
    <3>1. unsteady' = TRUE
      BY <2>3 DEF History!Shakes
    <3>2. HistoryType' /\ PhotoInv'
      BY <2>1, <2>3, <3>1 DEF HistoryType, PhotoInv, History!There
    <3>3. ReaderInv'
      BY <2>1, <3>1, ShakenPromisesNothing
    <3> QED
      BY <3>2, <3>3
  <2> QED
    BY <1>2, <2>2, <2>3 DEF History!RemoveRow
<1> QED
  BY <1>1, <1>2

\* The reader looks at no photo.
LEMMA PhotoSteps ==
  ASSUME HistoryType, PhotoInv, ReaderInv, NEW k \in Shots,
         \/ History!PhotoWrite(k) \/ History!PhotoUpdate(k)
         \/ \E t \in Trips : History!PhotoFind(k, t)
  PROVE  HistoryType' /\ PhotoInv' /\ ReaderInv'
<1> USE TripsFinite
<1>1. UNCHANGED <<row, startTime, clock, removal, reader, unsteady>>
  BY DEF History!PhotoWrite, History!PhotoUpdate, History!PhotoFind, History!listVars
<1>2. ReaderInv'
  BY ONLY ReaderInv, <1>1
     DEF ReaderInv, History!Away, Steady, Awaited, Ahead, Before, History!Over
<1>3. ASSUME NEW t \in Trips, History!PhotoFind(k, t) PROVE HistoryType' /\ PhotoInv'
  <2>1. HistoryType'
    BY <1>1, <1>3 DEF History!PhotoFind, HistoryType
  <2>2. row[t] # "none" /\ k \notin written
    BY <1>3 DEF History!PhotoFind, History!There, HistoryType
  <2>3. PhotoInv'
    BY <1>1, <1>3, <2>2 DEF History!PhotoFind, HistoryType, PhotoInv, History!There
  <2> QED
    BY <2>1, <2>3
<1>4. CASE History!PhotoWrite(k)
  <2>1. HistoryType'
    BY <1>1, <1>4 DEF History!PhotoWrite, HistoryType
  <2>2. PhotoInv'
    BY <1>1, <1>4 DEF History!PhotoWrite, HistoryType, PhotoInv, History!There
  <2> QED
    BY <1>2, <2>1, <2>2
<1>5. CASE History!PhotoUpdate(k)
  <2>1. HistoryType'
    BY <1>1, <1>5 DEF History!PhotoUpdate, HistoryType
  <2>2. PhotoInv'
    BY <1>1, <1>5 DEF History!PhotoUpdate, HistoryType, PhotoInv, History!There
  <2> QED
    BY <1>2, <2>1, <2>2
<1> QED
  BY <1>2, <1>3, <1>4, <1>5

\* Without ties a trip has as many before it as its place says.
LEMMA PlaceInList ==
  ASSUME HistoryType, Steady, NEW s \in History!Lists
  PROVE  /\ s \in Seq(Trips) /\ Len(s) <= Cardinality(Trips)
         /\ \A t \in History!Over : \E i \in 1 .. Len(s) : s[i] = t /\ Ahead(t) = i - 1
<1> DEFINE O == History!Over
           n == Cardinality(O)
<1>1. O \subseteq Trips
  BY DEF History!Over
<1>2. IsFiniteSet(O) /\ n \in Nat /\ n <= Cardinality(Trips)
  BY <1>1, TripsFinite, FS_Subset, FS_CardinalityType
<1>3. s \in [1 .. n -> O] /\ \A i, j \in 1 .. n : i # j => s[i] # s[j]
  <2>1. History!Cardinality(O) = n
    BY SameCount
  <2> HIDE DEF n
  <2> QED
    BY <2>1 DEF History!Lists, History!SetToSeqs
<1>4. s \in Surjection(1 .. n, O)
  <2>1. IsFiniteSet(1 .. n) /\ Cardinality(1 .. n) = n
    BY <1>2, FS_Interval
  <2>2. s \in Injection(1 .. n, O)
    BY <1>3 DEF Injection, IsInjective
  <2> QED
    BY <1>2, <2>1, <2>2, FS_Injection
<1> HIDE DEF n
<1>5. s \in Seq(Trips) /\ Len(s) = n
  BY <1>1, <1>2, <1>3
<1>6. \A i, j \in 1 .. n : i < j => startTime[s[i]] > startTime[s[j]]
  <2> SUFFICES ASSUME NEW i \in 1 .. n, NEW j \in 1 .. n, i < j
               PROVE  startTime[s[i]] > startTime[s[j]]
    OBVIOUS
  <2>1. startTime[s[i]] >= startTime[s[j]]
    BY <1>5 DEF History!Lists
  <2>2. startTime[s[i]] # startTime[s[j]]
    BY <1>2, <1>3 DEF Steady
  <2>3. startTime[s[i]] \in Nat /\ startTime[s[j]] \in Nat
    BY <1>1, <1>3, TripsFinite DEF HistoryType
  <2> QED
    BY <2>1, <2>2, <2>3
<1>7. ASSUME NEW t \in O PROVE \E i \in 1 .. n : s[i] = t /\ Ahead(t) = i - 1
  <2>1. PICK i \in 1 .. n : s[i] = t
    BY <1>4 DEF Surjection
  <2> DEFINE g == [j \in 1 .. (i - 1) |-> s[j]]
  <2>2. \A j \in 1 .. n : startTime[s[j]] > startTime[t] <=> j < i
    <3> SUFFICES ASSUME NEW j \in 1 .. n PROVE startTime[s[j]] > startTime[t] <=> j < i
      OBVIOUS
    <3>1. startTime[s[j]] \in Nat /\ startTime[t] \in Nat
      BY <1>1, <1>3, TripsFinite DEF HistoryType
    <3>2. CASE j < i
      BY <1>6, <2>1, <3>2
    <3>3. CASE j = i
      BY <2>1, <3>1, <3>3
    <3>4. CASE j > i
      <4>1. startTime[t] > startTime[s[j]]
        BY <1>6, <2>1, <3>4
      <4> QED
        BY <3>1, <3>4, <4>1
    <3> QED
      BY <1>2, <3>2, <3>3, <3>4
  <2>3. 1 .. (i - 1) \subseteq 1 .. n /\ \A j \in 1 .. n : j \in 1 .. (i - 1) <=> j < i
    BY <1>2
  <2>4. Before(t) = {s[j] : j \in 1 .. (i - 1)}
    <3>1. ASSUME NEW u \in Before(t) PROVE \E j \in 1 .. (i - 1) : s[j] = u
      <4>1. PICK j \in 1 .. n : s[j] = u
        BY <1>4 DEF Surjection, Before
      <4> QED
        BY <2>2, <2>3, <4>1 DEF Before
    <3>2. ASSUME NEW j \in 1 .. (i - 1) PROVE s[j] \in Before(t)
      BY <1>3, <2>2, <2>3 DEF Before
    <3> QED
      BY <3>1, <3>2
  <2>5. g \in Bijection(1 .. (i - 1), Before(t))
    <3>1. g \in [1 .. (i - 1) -> Before(t)]
      BY <2>4
    <3>2. \A j, k \in 1 .. (i - 1) : g[j] = g[k] => j = k
      BY <1>3, <2>3
    <3>3. \A u \in Before(t) : \E j \in 1 .. (i - 1) : g[j] = u
      BY <2>4
    <3> HIDE DEF g
    <3> QED
      BY <3>1, <3>2, <3>3 DEF Bijection, Injection, Surjection, IsInjective
  <2>6. Cardinality(1 .. (i - 1)) = i - 1 /\ IsFiniteSet(1 .. (i - 1))
    BY <1>2, FS_Interval
  <2>7. ExistsBijection(1 .. (i - 1), Before(t))
    BY <2>5 DEF ExistsBijection
  <2> QED
    BY <2>1, <2>6, <2>7, FS_Bijection DEF Ahead
<1> QED
  BY <1>2, <1>5, <1>7

\* The page of n, as the sections of the list it cuts out.
LEMMA PageIs ==
  ASSUME NEW s \in Seq(Trips), NEW p \in Nat
  PROVE  LET q == History!Page(s, p + 1)
             full == Len(s) >= (p + 1) * PageSize IN
         /\ q \in Seq(Trips)
         /\ (p + 1) * PageSize = p * PageSize + PageSize /\ p * PageSize \in Nat
         /\ Len(q) < PageSize <=> ~full
         /\ \A i \in 1 .. Len(s) :
              i > p * PageSize /\ i <= (p + 1) * PageSize
                => s[i] \in History!ToSet(q)
         /\ History!ToSet(q) \subseteq Trips
<1> DEFINE a == p * PageSize
           b == History!AtMost(Len(s), (p + 1) * PageSize)
           q == History!Page(s, p + 1)
<1>1. a \in Nat /\ (p + 1) * PageSize = a + PageSize /\ (p + 1) - 1 = p
  BY TripsFinite
<1>2. q = SubSeq(s, a + 1, b)
  BY <1>1 DEF History!Page
<1>3. b \in Nat /\ b <= Len(s) /\ b <= a + PageSize /\ (b = Len(s) \/ b = a + PageSize)
  BY <1>1, TripsFinite DEF History!AtMost
<1> HIDE DEF a, b, q
<1>4. \A i \in a + 1 .. b : s[i] \in Trips
  BY <1>1, <1>3
<1>5. /\ q \in Seq(Trips)
      /\ Len(q) = IF a + 1 <= b THEN b - (a + 1) + 1 ELSE 0
      /\ \A i \in 1 .. b - (a + 1) + 1 : q[i] = s[(a + 1) + i - 1]
  BY <1>1, <1>2, <1>3, <1>4, SubSeqProperties
<1>6. Len(q) < PageSize <=> ~(Len(s) >= a + PageSize)
  BY <1>1, <1>3, <1>5, TripsFinite
<1>7. ASSUME NEW i \in 1 .. Len(s), i > a, i <= a + PageSize PROVE s[i] \in History!ToSet(q)
  <2>1. i <= b
    BY <1>1, <1>3, <1>7, TripsFinite
  <2>2. (i - a) \in 1 .. Len(q) /\ q[i - a] = s[i]
    BY <1>1, <1>3, <1>5, <1>7, <2>1
  <2> QED
    BY <1>5, <2>2 DEF History!ToSet
<1>8. History!ToSet(q) \subseteq Trips
  BY <1>5 DEF History!ToSet
<1> QED
  BY <1>1, <1>5, <1>6, <1>7, <1>8 DEF a, q

LEMMA TurnStep ==
  ASSUME HistoryType, PhotoInv, ReaderInv, History!Turn
  PROVE  HistoryType' /\ PhotoInv' /\ ReaderInv'
<1> DEFINE p == reader.page
           n == p + 1
           a == p * PageSize
           b == n * PageSize
           began == IF n = 1 THEN History!Over ELSE reader.began
<1>1. PICK s \in History!Lists :
        LET q == History!Page(s, n) IN
        reader' = [page |-> n, seen |-> reader.seen \cup History!ToSet(q),
                   done |-> Len(q) < PageSize, began |-> began]
  BY DEF History!Turn
<1> DEFINE q == History!Page(s, n)
<1>2. /\ ~reader.done /\ unsteady' = (History!Tied \/ (n > 1 /\ unsteady))
      /\ UNCHANGED <<row, startTime, clock, photos, folder, saving, written, refused, removal>>
  BY DEF History!Turn, History!rowVars, History!shotVars
<1>3. p \in Nat /\ p <= Cardinality(Trips) + 1 /\ reader.seen \subseteq Trips
  BY TripsFinite DEF HistoryType
<1>4. s \in Seq(Trips) /\ Len(s) <= Cardinality(Trips)
  <2>1. s \in History!SetToSeqs(History!Over)
    BY DEF History!Lists
  <2>2. IsFiniteSet(History!Over) /\ Cardinality(History!Over) \in Nat
        /\ Cardinality(History!Over) <= Cardinality(Trips) /\ History!Over \subseteq Trips
    BY TripsFinite, FS_Subset, FS_CardinalityType DEF History!Over
  <2>3. s \in [1 .. Cardinality(History!Over) -> History!Over]
    <3>1. History!Cardinality(History!Over) = Cardinality(History!Over)
      BY SameCount
    <3> QED
      BY <2>1, <3>1 DEF History!SetToSeqs
  <2> QED
    BY <2>2, <2>3
<1>5. /\ q \in Seq(Trips) /\ History!ToSet(q) \subseteq Trips
      /\ b = a + PageSize /\ a \in Nat /\ b \in Nat
      /\ Len(q) < PageSize <=> ~(Len(s) >= b)
      /\ \A i \in 1 .. Len(s) :
           i > a /\ i <= b => s[i] \in History!ToSet(q)
  <2>1. \A x \in Nat : (x + 1) * PageSize = x * PageSize + PageSize /\ x * PageSize \in Nat
    BY TripsFinite
  <2>2. b = a + PageSize /\ a \in Nat /\ b \in Nat
    <3>1. p \in Nat /\ p + 1 \in Nat
      BY <1>3
    <3> QED
      BY <2>1, <3>1
  <2> QED
    BY <1>3, <1>4, <2>2, PageIs
<1>6. p <= a /\ a <= Cardinality(Trips)
  BY <1>2, <1>3, TripsFinite DEF ReaderInv
<1>7. /\ reader'.page = n /\ reader'.seen = reader.seen \cup History!ToSet(q)
      /\ reader'.done = (Len(q) < PageSize) /\ reader'.began = began
  BY <1>1
<1>8. began \subseteq Trips
  BY DEF HistoryType, History!Over
<1>9. HistoryType'
  <2>1. reader' \in [page : 0 .. Cardinality(Trips) + 1, seen : SUBSET Trips,
                     began : SUBSET Trips, done : BOOLEAN]
    <3>1. n \in 0 .. Cardinality(Trips) + 1
      BY <1>3, <1>5, <1>6, TripsFinite
    <3>2. reader.seen \cup History!ToSet(q) \subseteq Trips
      BY <1>3, <1>5
    <3>3. (Len(q) < PageSize) \in BOOLEAN
      OBVIOUS
    <3> HIDE DEF q, n, began
    <3> QED
      BY <1>1, <1>8, <3>1, <3>2, <3>3 DEF q
  <2>2. unsteady' \in BOOLEAN
    BY <1>2
  <2> QED
    BY <1>2, <2>1, <2>2 DEF HistoryType
<1>10. PhotoInv'
  BY <1>2 DEF PhotoInv, History!There
<1>11. n > 0 /\ (n = 1 <=> p = 0)
  BY <1>3
<1>12. /\ reader'.page * PageSize = b
       /\ ~reader'.done => b <= Cardinality(Trips)
  <2>1. Len(s) \in Nat /\ Cardinality(Trips) \in Nat
    BY <1>4, TripsFinite
  <2>2. reader'.page * PageSize = b
    BY <1>7
  <2>3. ASSUME ~reader'.done PROVE Len(s) >= b
    BY <1>5, <1>7, <2>3
  <2> HIDE DEF a, b, n, q
  <2>4. ASSUME Len(s) >= b PROVE b <= Cardinality(Trips)
    BY <1>4, <1>5, <2>1, <2>4
  <2> QED
    BY <2>2, <2>3, <2>4
<1>13. ASSUME ~unsteady' PROVE Steady
  BY <1>2, <1>13 DEF History!Tied, Steady
<1>14. ASSUME ~unsteady', NEW t \in began PROVE Awaited(t)'
  <2>1. /\ t \in History!Over
        /\ t \notin reader.seen => Ahead(t) >= a
    <3>1. CASE p = 0
      <4>1. reader.seen = {} /\ t \in History!Over
        BY <1>11, <1>14, <3>1 DEF ReaderInv, History!Away
      <4>2. Before(t) \subseteq Trips
        BY DEF Before, History!Over
      <4>3. Ahead(t) \in Nat
        BY <4>2, TripsFinite, FS_Subset, FS_CardinalityType DEF Ahead
      <4>4. a = 0
        BY <3>1, TripsFinite
      <4> HIDE DEF p, a
      <4> QED
        BY <4>1, <4>3, <4>4
    <3>2. CASE p # 0
      <4>1. n > 1 /\ n # 1 /\ p > 0
        BY <1>3, <3>2
      <4>2. ~unsteady
        BY <1>2, <1>14, <4>1
      <4>3. Awaited(t)
        BY <1>14, <4>1, <4>2 DEF ReaderInv
      <4> QED
        BY <4>3 DEF Awaited
    <3> QED
      BY <3>1, <3>2
  <2>2. PICK i \in 1 .. Len(s) : s[i] = t /\ Ahead(t) = i - 1
    <3>1. Steady /\ t \in History!Over
      BY <1>13, <1>14, <2>1
    <3> QED
      BY <3>1, PlaceInList
  <2>3. t \in History!Over' /\ Ahead(t)' = Ahead(t)
    BY <1>2, <2>1 DEF History!Over, Ahead, Before
  <2>4. ASSUME t \notin reader'.seen PROVE ~reader'.done /\ Ahead(t)' >= reader'.page * PageSize
    <3>1. t \notin reader.seen /\ t \notin History!ToSet(q)
      BY <1>7, <2>4
    <3> HIDE DEF a, b, q
    <3>2. Len(s) \in Nat /\ i \in Nat
      BY <1>4
    <3>3. i - 1 >= a
      BY <2>1, <2>2, <3>1
    <3>4. ~(i <= b)
      BY <1>5, <2>2, <3>1, <3>2, <3>3
    <3>5. Len(s) >= b /\ i - 1 >= b
      BY <1>5, <3>2, <3>4
    <3>6. ~reader'.done
      BY <1>5, <1>7, <3>5
    <3> QED
      BY <1>12, <2>2, <2>3, <3>5, <3>6
  <2> QED
    BY <2>3, <2>4 DEF Awaited
<1>15. ReaderInv'
  <2>1. ~unsteady' => Steady'
    BY <1>2, <1>13 DEF Steady, History!Over
  <2>2. reader'.page # 0
    BY <1>7, <1>11
  <2>3. ~unsteady' => \A t \in reader'.began : Awaited(t)'
    BY <1>7, <1>14
  <2>4. ~reader'.done => reader'.page * PageSize <= Cardinality(Trips)
    BY <1>12
  <2> QED
    BY ONLY <2>1, <2>2, <2>3, <2>4 DEF ReaderInv
<1> QED
  BY <1>9, <1>10, <1>15

LEMMA HistoryStep == HistoryInv /\ [History!Next]_(History!vars) => HistoryInv'
<1> SUFFICES ASSUME HistoryType, PhotoInv, ReaderInv, [History!Next]_(History!vars)
             PROVE  HistoryType' /\ PhotoInv' /\ ReaderInv'
  BY HistoryTypeIs, HistoryTypeNext DEF HistoryInv
<1>1. CASE UNCHANGED History!vars
  <2>1. UNCHANGED <<row, startTime, clock, photos, folder, saving, written, refused, removal, reader, unsteady>>
    BY <1>1 DEF History!vars, History!rowVars, History!shotVars
  <2>2. HistoryType' /\ PhotoInv'
    BY ONLY HistoryType, PhotoInv, <2>1 DEF HistoryType, PhotoInv, History!There
  <2>3. ReaderInv'
    BY ONLY ReaderInv, <2>1
       DEF ReaderInv, History!Away, Steady, Awaited, Ahead, Before, History!Over
  <2> QED
    BY <2>2, <2>3
<1>2. CASE History!Return
  <2>1. /\ reader' = [page |-> 0, seen |-> {}, began |-> {}, done |-> FALSE]
        /\ UNCHANGED <<row, startTime, clock, photos, folder, saving, written, refused, removal, unsteady>>
    BY <1>2 DEF History!Return, History!rowVars, History!shotVars, History!Away
  <2>2. HistoryType'
    <3>1. 0 \in 0 .. Cardinality(Trips) + 1
      BY TripsFinite
    <3>2. reader' \in [page : 0 .. Cardinality(Trips) + 1, seen : SUBSET Trips,
                       began : SUBSET Trips, done : BOOLEAN]
      BY ONLY <2>1, <3>1
    <3> QED
      BY <2>1, <3>2 DEF HistoryType
  <2>3. PhotoInv'
    BY <2>1 DEF PhotoInv, History!There
  <2>4. ReaderInv'
    <3>1. reader'.page = 0 /\ 0 * PageSize = 0
      BY <2>1, TripsFinite
    <3> QED
      BY <2>1, <3>1, TripsFinite DEF ReaderInv, History!Away, Steady, History!Over
  <2> QED
    BY <2>2, <2>3, <2>4
<1> QED
  BY <1>1, <1>2, TripSteps, RemovalSteps, PhotoSteps, TurnStep DEF History!Next

(***************************************************************************)
(* Both parts.                                                             *)
(***************************************************************************)
LEMMA RunsSettlement == RunSpec => Spec
<1>1. RunInit => Init
  BY DEF RunInit
<1>2. [RunNext]_<<part, vars, historyVars>> => [Next]_vars
  BY DEF RunNext
<1> QED
  BY <1>1, <1>2, PTL DEF RunSpec, Spec

LEMMA RunsHistory == RunSpec => History!Spec
<1>1. RunInit => History!Init
  BY DEF RunInit
<1>2. [RunNext]_<<part, vars, historyVars>> => [History!Next]_(History!vars)
  BY DEF RunNext, historyVars, History!vars, History!rowVars, History!shotVars
<1> QED
  BY <1>1, <1>2, PTL DEF RunSpec, History!Spec

\* What the list and its reader keep between them.
THEOREM HistoryInductive == History!Spec => []HistoryInv
  BY HistoryInit, HistoryStep, PTL DEF History!Spec

\* Nobody who pages through the list misses a trip that was over when he began,
\* and no row loses its photo but to a photo that the database refuses, for any
\* number of trips, removals and photos and any size of the page.
THEOREM NothingGetsLost == RunSpec => []NothingIsLost
<1>1. HistoryInv => NothingIsLost
  <2> SUFFICES ASSUME HistoryType, PhotoInv, ReaderInv PROVE NothingIsLost
    BY HistoryTypeIs DEF HistoryInv
  <2>1. History!RowKeepsPhotos
    BY DEF PhotoInv, History!RowKeepsPhotos
  <2>2. ASSUME reader.done, ~unsteady PROVE reader.began \subseteq reader.seen
    <3>1. reader.page # 0 /\ reader.page \in Nat
      BY <2>2, TripsFinite DEF ReaderInv, History!Away, HistoryType
    <3> QED
      BY <2>2, <3>1 DEF ReaderInv, Awaited
  <2> QED
    BY <2>1, <2>2 DEF NothingIsLost, History!PagesMissNothing
<1> QED
  BY <1>1, RunsHistory, HistoryInductive, PTL

\* The types of both parts.
THEOREM TripRecordsTypesCorrect == RunSpec => []TypesOK
<1>1. TypeOK /\ HistoryInv => TypesOK
  BY DEF HistoryInv, TypesOK
<1> QED
  BY <1>1, RunsSettlement, RunsHistory, SettlementTypeCorrect, HistoryInductive, PTL
=============================================================================
