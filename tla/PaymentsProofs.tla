--------------------------- MODULE PaymentsProofs ---------------------------
(***************************************************************************)
(* What Renewals, Receipts and Reports promise, for any number of rows,    *)
(* trips, calls, webhooks and reports, any calendar and any prices.        *)
(***************************************************************************)
EXTENDS MCPayments, SumsProofs, FiniteSetTheorems, TLAPS

USE RenewalsAssumption
USE DEF rowVars, bookVars, vars

(***************************************************************************)
(* The inductive invariant.                                                *)
(***************************************************************************)
\* What was charged for lies behind; who is yet to be charged was not charged
\* for the date that is now, and that date is today.
ChargeInv ==
  /\ again = {}
  /\ \A o \in Options :
       /\ \A d \in charged[o] : d <= today
       /\ job[o].pc \in {"selected", "looked"} =>
            expDate[o] = today /\ expDate[o] \notin charged[o]

\* A row that is past its date is in the hands of the job, or a run failed on it.
OverdueInv ==
  \A o \in Options :
    Present(o) /\ expDate[o] <= today =>
      o \in missed \/ job[o].pc \in {"selected", "looked", "paid", "refused"}

\* Charges come first: one is ahead of the extensions while a row is paid, and
\* of the Payments until the row is booked.
Ahead(pcs, o) == IF job[o].pc \in pcs THEN 1 ELSE 0
BooksInv ==
  \A o \in Options :
    /\ extended[o] + Ahead({"paid"}, o) <= Cardinality(charged[o])
    /\ booked[o] + Ahead({"paid", "extended"}, o) <= Cardinality(charged[o])

IInv == TypeOK /\ ChargeInv /\ OverdueInv /\ BooksInv

LEMMA DaysFinite ==
  ASSUME NEW S \in SUBSET Days
  PROVE  IsFiniteSet(S) /\ Cardinality(S) \in Nat
<1>1. LastDay + Period \in Int
  OBVIOUS
<1>2. IsFiniteSet(Days)
  BY <1>1, FS_Interval DEF Days
<1> QED
  BY <1>2, FS_Subset, FS_CardinalityType

\* A date that is new counts as one more.
LEMMA OneMore ==
  ASSUME NEW S \in SUBSET Days, NEW d \in Days, d \notin S
  PROVE  Cardinality(S \cup {d}) = Cardinality(S) + 1
  BY DaysFinite, FS_AddElement

(***************************************************************************)
(* Types                                                                   *)
(***************************************************************************)
\* The types of every variable, checkSubscriptionExp and its users together.
LEMMA InitType == Init => TypeOK
<1> SUFFICES ASSUME Init PROVE TypeOK
  OBVIOUS
<1>1. expDate \in [Options -> Days] /\ today \in 0 .. LastDay
  BY DEF Init, Days
<1> QED
  BY <1>1 DEF Init, TypeOK, Idle, Pcs

LEMMA NextType == TypeOK /\ [Next]_vars => TypeOK'
<1> SUFFICES ASSUME TypeOK, [Next]_vars PROVE TypeOK'
  OBVIOUS
<1> USE DEF TypeOK, Idle, Pcs
<1>1. CASE Midnight
  BY <1>1 DEF Midnight, NextDay
<1>2. CASE MidnightMissed
  BY <1>2 DEF MidnightMissed, NextDay, Expiring
<1>3. CASE Crash
  BY <1>3 DEF Crash
<1>4. ASSUME NEW o \in Options, Drop(o) PROVE TypeOK'
  BY <1>4 DEF Drop, Return, DeleteRow
<1>5. ASSUME NEW o \in Options, Look(o) PROVE TypeOK'
  BY <1>5 DEF Look, Goto
<1>6. ASSUME NEW o \in Options, Charge(o) PROVE TypeOK'
  <2>1. bookVars' = bookVars \/ ChargeEffect(o)
    BY <1>6 DEF Charge
  <2>2. charged' \in [Options -> SUBSET Days] /\ again' \subseteq Options
    BY <2>1 DEF ChargeEffect
  <2>3. extended' = extended /\ booked' = booked
    BY <2>1 DEF ChargeEffect
  <2>4. job' \in [Options -> [pc : Pcs, auto : BOOLEAN]]
    <3>1. CASE Goto(o, "looked", "paid")
      BY <3>1 DEF Goto
    <3>2. CASE Goto(o, "looked", "refused")
      BY <3>2 DEF Goto
    <3>3. CASE Return(o, "looked")
      BY <3>3 DEF Return
    <3> QED
      BY <1>6, <3>1, <3>2, <3>3 DEF Charge
  <2>5. missed' \subseteq Options /\ UNCHANGED <<today, rowVars>>
    BY <1>6 DEF Charge
  <2> QED
    BY <2>2, <2>3, <2>4, <2>5
<1>7. ASSUME NEW o \in Options, Extend(o) PROVE TypeOK'
  <2>1. today + Period \in Days
    BY DEF Days
  <2>2. expDate' \in [Options -> Days] /\ missed' \subseteq Options
    BY <1>7, <2>1 DEF Extend
  <2>3. extended' \in [Options -> Nat]
    BY <1>7 DEF Extend
  <2> QED
    BY <1>7, <2>2, <2>3 DEF Extend, Goto
<1>8. ASSUME NEW o \in Options, Book(o) PROVE TypeOK'
  BY <1>8 DEF Book, Return
<1>9. ASSUME NEW o \in Options, Cancel(o) PROVE TypeOK'
  BY <1>9 DEF Cancel, Return, DeleteRow
<1>10. ASSUME NEW o \in Options, UpdateOptions(o) PROVE TypeOK'
  BY <1>10 DEF UpdateOptions
<1>11. ASSUME NEW o \in Options, DeleteUserAccount(o) PROVE TypeOK'
  BY <1>11 DEF DeleteUserAccount
<1>12. CASE UNCHANGED vars
  BY <1>12
<1> QED
  BY <1>1, <1>2, <1>3, <1>4, <1>5, <1>6, <1>7, <1>8, <1>9, <1>10, <1>11, <1>12
     DEF Next, JobNext

(***************************************************************************)
(* Charges                                                                 *)
(***************************************************************************)
LEMMA NextCharge == TypeOK /\ ChargeInv /\ [Next]_vars => ChargeInv'
<1> SUFFICES ASSUME TypeOK, ChargeInv, [Next]_vars PROVE ChargeInv'
  OBVIOUS
<1> USE DEF TypeOK, ChargeInv, Idle, Pcs, Days
<1>1. CASE Midnight
  BY <1>1 DEF Midnight, NextDay, Expiring
<1>2. CASE MidnightMissed
  BY <1>2 DEF MidnightMissed, NextDay
<1>3. CASE Crash
  BY <1>3 DEF Crash
<1>4. ASSUME NEW o \in Options, Drop(o) PROVE ChargeInv'
  BY <1>4 DEF Drop, Return
<1>5. ASSUME NEW o \in Options, Look(o) PROVE ChargeInv'
  BY <1>5 DEF Look, Goto
<1>6. ASSUME NEW o \in Options, Charge(o) PROVE ChargeInv'
  <2>1. job[o].pc = "looked" /\ expDate[o] = today /\ expDate[o] \notin charged[o]
    BY <1>6 DEF Charge, Goto, Return
  <2>2. bookVars' = bookVars \/ ChargeEffect(o)
    BY <1>6 DEF Charge
  <2>3. again' = {} /\ \A p \in Options :
          charged'[p] = charged[p] \/ (p = o /\ charged'[p] = charged[p] \cup {today})
    BY <2>1, <2>2 DEF ChargeEffect
  <2>4. \A p \in Options : /\ p # o => job'[p] = job[p]
                           /\ job'[o].pc \notin {"selected", "looked"}
    BY <1>6 DEF Charge, Goto, Return
  <2>5. UNCHANGED <<today, rowVars>>
    BY <1>6 DEF Charge
  <2>6. ASSUME NEW p \in Options
        PROVE  /\ \A d \in charged'[p] : d <= today'
               /\ job'[p].pc \in {"selected", "looked"} =>
                    expDate'[p] = today' /\ expDate'[p] \notin charged'[p]
    <3>1. CASE p = o
      BY <2>3, <2>4, <2>5, <3>1
    <3>2. CASE p # o
      BY <2>3, <2>4, <2>5, <3>2
    <3> QED
      BY <3>1, <3>2
  <2> QED
    BY <2>3, <2>6
<1>7. ASSUME NEW o \in Options, Extend(o) PROVE ChargeInv'
  BY <1>7 DEF Extend, Goto
<1>8. ASSUME NEW o \in Options, Book(o) PROVE ChargeInv'
  BY <1>8 DEF Book, Return
<1>9. ASSUME NEW o \in Options, Cancel(o) PROVE ChargeInv'
  BY <1>9 DEF Cancel, Return
<1>10. ASSUME NEW o \in Options, UpdateOptions(o) PROVE ChargeInv'
  BY <1>10 DEF UpdateOptions
<1>11. ASSUME NEW o \in Options, DeleteUserAccount(o) PROVE ChargeInv'
  BY <1>11 DEF DeleteUserAccount
<1>12. CASE UNCHANGED vars
  BY <1>12
<1> QED
  BY <1>1, <1>2, <1>3, <1>4, <1>5, <1>6, <1>7, <1>8, <1>9, <1>10, <1>11, <1>12
     DEF Next, JobNext

(***************************************************************************)
(* Overdue rows                                                            *)
(***************************************************************************)
LEMMA NextOverdue == TypeOK /\ OverdueInv /\ [Next]_vars => OverdueInv'
<1> SUFFICES ASSUME TypeOK, OverdueInv, [Next]_vars PROVE OverdueInv'
  OBVIOUS
<1> USE DEF TypeOK, OverdueInv, Present, Idle, Pcs, Days
<1>1. CASE Midnight
  <2> SUFFICES ASSUME NEW o \in Options, Present(o), expDate[o] <= today + 1
               PROVE  o \in missed \/ job'[o].pc = "selected"
    BY <1>1 DEF Midnight, NextDay
  <2>1. job[o].pc = "idle"
    BY <1>1 DEF Midnight, NextDay
  <2>2. CASE expDate[o] <= today
    BY <2>1, <2>2
  <2>3. CASE expDate[o] = today + 1
    BY <1>1, <2>3 DEF Midnight, Expiring
  <2>4. expDate[o] \in Int /\ today \in Int
    OBVIOUS
  <2> QED
    BY <2>2, <2>3, <2>4
<1>2. CASE MidnightMissed
  BY <1>2 DEF MidnightMissed, NextDay, Expiring
<1>3. CASE Crash
  BY <1>3 DEF Crash
<1>4. ASSUME NEW o \in Options, Drop(o) PROVE OverdueInv'
  BY <1>4 DEF Drop, Return, DeleteRow
<1>5. ASSUME NEW o \in Options, Look(o) PROVE OverdueInv'
  BY <1>5 DEF Look, Goto
<1>6. ASSUME NEW o \in Options, Charge(o) PROVE OverdueInv'
  BY <1>6 DEF Charge, Goto, Return
<1>7. ASSUME NEW o \in Options, Extend(o) PROVE OverdueInv'
  BY <1>7 DEF Extend, Goto
<1>8. ASSUME NEW o \in Options, Book(o) PROVE OverdueInv'
  BY <1>8 DEF Book, Return
<1>9. ASSUME NEW o \in Options, Cancel(o) PROVE OverdueInv'
  BY <1>9 DEF Cancel, Return, DeleteRow
<1>10. ASSUME NEW o \in Options, UpdateOptions(o) PROVE OverdueInv'
  BY <1>10 DEF UpdateOptions
<1>11. ASSUME NEW o \in Options, DeleteUserAccount(o) PROVE OverdueInv'
  BY <1>11 DEF DeleteUserAccount
<1>12. CASE UNCHANGED vars
  BY <1>12
<1> QED
  BY <1>1, <1>2, <1>3, <1>4, <1>5, <1>6, <1>7, <1>8, <1>9, <1>10, <1>11, <1>12
     DEF Next, JobNext

(***************************************************************************)
(* Extensions and Payments                                                 *)
(***************************************************************************)
LEMMA NextBooks == TypeOK /\ ChargeInv /\ BooksInv /\ [Next]_vars => BooksInv'
<1> SUFFICES ASSUME TypeOK, ChargeInv, BooksInv, [Next]_vars PROVE BooksInv'
  OBVIOUS
<1>0. \A o \in Options : Cardinality(charged[o]) \in Nat
  BY DaysFinite DEF TypeOK
<1> USE <1>0 DEF TypeOK, BooksInv, Ahead, Idle, Pcs
<1>1. CASE Midnight
  BY <1>1 DEF Midnight, NextDay
<1>2. CASE MidnightMissed
  BY <1>2 DEF MidnightMissed
<1>3. CASE Crash
  BY <1>3 DEF Crash
<1>4. ASSUME NEW o \in Options, Drop(o) PROVE BooksInv'
  BY <1>4 DEF Drop, Return
<1>5. ASSUME NEW o \in Options, Look(o) PROVE BooksInv'
  BY <1>5 DEF Look, Goto
<1>6. ASSUME NEW o \in Options, Charge(o) PROVE BooksInv'
  <2>1. job[o].pc = "looked" /\ expDate[o] \notin charged[o] /\ expDate[o] \in Days
    BY <1>6 DEF Charge, Goto, Return, ChargeInv
  <2>2. Cardinality(charged[o] \cup {expDate[o]}) = Cardinality(charged[o]) + 1
    BY <2>1, OneMore
  <2>3. \A p \in Options : p # o => job'[p] = job[p]
    BY <1>6 DEF Charge, Goto, Return
  <2>4. CASE ChargeEffect(o)
    <3>1. /\ extended' = extended /\ booked' = booked
          /\ \A p \in Options : p # o => charged'[p] = charged[p]
          /\ charged'[o] = charged[o] \cup {expDate[o]}
      BY <2>4 DEF ChargeEffect
    <3>2. /\ Cardinality(charged'[o]) = Cardinality(charged[o]) + 1
          /\ extended'[o] <= Cardinality(charged[o]) /\ booked'[o] <= Cardinality(charged[o])
      BY <2>1, <2>2, <3>1
    <3>3. ASSUME NEW p \in Options
          PROVE  /\ extended'[p] + Ahead({"paid"}, p)' <= Cardinality(charged'[p])
                 /\ booked'[p] + Ahead({"paid", "extended"}, p)' <= Cardinality(charged'[p])
      <4>1. CASE p = o
        <5>1. Ahead({"paid"}, o)' \in {0, 1} /\ Ahead({"paid", "extended"}, o)' \in {0, 1}
          OBVIOUS
        <5>2. extended'[o] \in Nat /\ booked'[o] \in Nat
          BY <3>1
        <5> HIDE DEF Ahead
        <5> QED
          BY <1>0, <3>2, <4>1, <5>1, <5>2
      <4>2. CASE p # o
        BY <2>3, <3>1, <4>2
      <4> QED
        BY <4>1, <4>2
    <3> QED
      BY <3>3
  <2>5. CASE UNCHANGED bookVars /\ job'[o].pc \notin {"paid", "extended"}
    BY <2>1, <2>3, <2>5
  <2> QED
    BY <1>6, <2>4, <2>5 DEF Charge, Goto, Return
<1>7. ASSUME NEW o \in Options, Extend(o) PROVE BooksInv'
  BY <1>7 DEF Extend, Goto
<1>8. ASSUME NEW o \in Options, Book(o) PROVE BooksInv'
  BY <1>8 DEF Book, Return
<1>9. ASSUME NEW o \in Options, Cancel(o) PROVE BooksInv'
  BY <1>9 DEF Cancel, Return
<1>10. ASSUME NEW o \in Options, UpdateOptions(o) PROVE BooksInv'
  BY <1>10 DEF UpdateOptions
<1>11. ASSUME NEW o \in Options, DeleteUserAccount(o) PROVE BooksInv'
  BY <1>11 DEF DeleteUserAccount
<1>12. CASE UNCHANGED vars
  BY <1>12
<1> QED
  BY <1>1, <1>2, <1>3, <1>4, <1>5, <1>6, <1>7, <1>8, <1>9, <1>10, <1>11, <1>12
     DEF Next, JobNext

(***************************************************************************)
(* The theorems                                                            *)
(***************************************************************************)
LEMMA InitInv == Init => IInv
<1> SUFFICES ASSUME Init PROVE IInv
  OBVIOUS
<1>1. TypeOK
  BY InitType
<1>2. ChargeInv /\ OverdueInv
  BY DEF Init, ChargeInv, OverdueInv, Idle
<1>3. BooksInv
  BY FS_EmptySet DEF Init, BooksInv, Ahead, Idle
<1> QED
  BY <1>1, <1>2, <1>3 DEF IInv

LEMMA Inductive == Spec => []IInv
<1>1. IInv /\ [Next]_vars => IInv'
  BY NextType, NextCharge, NextOverdue, NextBooks DEF IInv
<1> QED
  BY InitInv, <1>1, PTL DEF Spec

\* The variables of the renewal job keep their types, whatever the calendar.
THEOREM RenewalsTypeCorrect == Spec => []TypeOK
<1>1. IInv => TypeOK
  BY DEF IInv
<1> QED
  BY <1>1, Inductive, PTL

\* However runs of checkSubscriptionExp fail, are cut short and come again, no
\* period is charged for twice.
THEOREM NoPeriodChargedTwice == Spec => []OneChargePerPeriod
<1>1. IInv => OneChargePerPeriod
  BY DEF IInv, ChargeInv, OneChargePerPeriod
<1> QED
  BY <1>1, Inductive, PTL

\* No subscription is extended and no Payment stored without a charge of its own.
THEOREM EveryRenewalIsPaid == Spec => []RenewalIsPaid
<1>1. IInv => RenewalIsPaid
  <2> SUFFICES ASSUME IInv, NEW o \in Options
               PROVE  extended[o] <= Cardinality(charged[o]) /\ booked[o] <= Cardinality(charged[o])
    BY DEF RenewalIsPaid
  <2>1. Cardinality(charged[o]) \in Nat /\ extended[o] \in Nat /\ booked[o] \in Nat
    BY DaysFinite DEF IInv, TypeOK
  <2> QED
    BY <2>1 DEF IInv, BooksInv, Ahead
<1> QED
  BY <1>1, Inductive, PTL

\* A subscription that nobody works on and that is past its date is one on which
\* a run failed: the job forgets none.
THEOREM OverdueIsExplained == Spec => []OverdueHasCause
<1>1. IInv => OverdueHasCause
  BY DEF IInv, OverdueInv, OverdueHasCause, Idle
<1> QED
  BY <1>1, Inductive, PTL

(***************************************************************************)
(* Receipts.                                                               *)
(***************************************************************************)
\* A call that has charged has its trip for good.
EndInv(e) == IF end[e].pc = "new" THEN end[e].trip = None ELSE end[e].trip \in Trips

\* The id in a row is that of a charge of the trip.
StoredInv(t) == stored[t] # None => stored[t] \in Receipt!EndsOf(t)

\* What a webhook found in a row is in it, unless the row is gone or another
\* call ended the trip too.
HookInv(k) ==
  hook[k] # Receipt!NoHook =>
    /\ hook[k].trip \in Trips /\ hook[k].tx \in Receipt!EndsOf(hook[k].trip)
    /\ \/ stored[hook[k].trip] = hook[k].tx
       \/ hook[k].trip \in gone
       \/ Receipt!EndedTwice(hook[k].trip)

ReceiptInv ==
  /\ Receipt!TypeOK
  /\ \A e \in Ends : EndInv(e)
  /\ \A t \in Trips : StoredInv(t)
  /\ \A k \in Handlers : HookInv(k)
  /\ Receipt!ReceiptOfOwnCharge

LEMMA ReceiptInit == Receipt!Init => ReceiptInv
<1> SUFFICES ASSUME Receipt!Init PROVE ReceiptInv
  OBVIOUS
<1>1. Receipt!TypeOK
  BY DEF Receipt!Init, Receipt!TypeOK, Receipt!EndPcs, Receipt!NoHook
<1>2. \A e \in Ends : end[e].pc = "new" /\ end[e].trip = None
  BY DEF Receipt!Init
<1> QED
  BY <1>1, <1>2 DEF Receipt!Init, ReceiptInv, EndInv, StoredInv, HookInv,
                    Receipt!ReceiptOfOwnCharge

\* The trips that were ended keep their charges, and who ended them twice.
LEMMA EndsStay ==
  ASSUME NEW t, \A e \in Ends : end[e].trip = t => end'[e].trip = t
  PROVE  /\ Receipt!EndsOf(t) \subseteq Receipt!EndsOf(t)'
         /\ Receipt!EndedTwice(t) => Receipt!EndedTwice(t)'
BY DEF Receipt!EndsOf, Receipt!EndedTwice

\* A step of tripEnd that only moves on changes nothing a receipt depends on.
LEMMA EndGoes ==
  ASSUME ReceiptInv, NEW e \in Ends, NEW from, NEW to, from # "new", to # "new",
         to \in Receipt!EndPcs, Receipt!EndGoto(e, from, to)
  PROVE  /\ end' \in [Ends -> [pc : Receipt!EndPcs, trip : Trips \cup {None}]]
         /\ \A f \in Ends : EndInv(f)' /\ end'[f].trip = end[f].trip
         /\ \A t \in Trips : /\ Receipt!EndsOf(t)' = Receipt!EndsOf(t)
                             /\ Receipt!EndedTwice(t)' <=> Receipt!EndedTwice(t)
<1>1. /\ end' \in [Ends -> [pc : Receipt!EndPcs, trip : Trips \cup {None}]]
      /\ \A f \in Ends : EndInv(f)' /\ end'[f].trip = end[f].trip
  BY DEF ReceiptInv, Receipt!TypeOK, Receipt!EndGoto, EndInv
<1> QED
  BY <1>1 DEF Receipt!EndsOf, Receipt!EndedTwice

\* The charge, and with it the trip of the call.
LEMMA ChargeTripStep ==
  ASSUME ReceiptInv, NEW e \in Ends, NEW t \in Trips, Receipt!Charge(e, t)
  PROVE  ReceiptInv'
<1>1. /\ end[e].pc = "new" /\ end[e].trip = None
      /\ end' = [end EXCEPT ![e] = [pc |-> "charged", trip |-> t]]
      /\ UNCHANGED <<cached, riding, stored, url, gone, hook, acked>>
  BY DEF Receipt!Charge, Receipt!tripVars, ReceiptInv, EndInv
<1>2. /\ end'[e].pc = "charged" /\ end'[e].trip = t
      /\ \A f \in Ends \ {e} : end'[f] = end[f]
  BY <1>1 DEF ReceiptInv, Receipt!TypeOK
<1>3. Receipt!TypeOK'
  BY <1>1 DEF ReceiptInv, Receipt!TypeOK, Receipt!EndPcs
<1>4. \A f \in Ends : EndInv(f)'
  BY <1>2 DEF ReceiptInv, EndInv
<1>5. \A u \in Trips : /\ Receipt!EndsOf(u) \subseteq Receipt!EndsOf(u)'
                       /\ Receipt!EndedTwice(u) => Receipt!EndedTwice(u)'
  BY <1>1, <1>2, EndsStay, MCPaymentsAssumption DEF Receipt!ReceiptsAssumption
<1>6. \A u \in Trips : StoredInv(u)'
  BY <1>1, <1>5 DEF ReceiptInv, StoredInv
<1>7. \A k \in Handlers : HookInv(k)'
  BY <1>1, <1>5 DEF ReceiptInv, HookInv, Receipt!NoHook
<1>8. Receipt!ReceiptOfOwnCharge'
  BY <1>1, <1>5 DEF ReceiptInv, Receipt!ReceiptOfOwnCharge
<1> QED
  BY <1>3, <1>4, <1>6, <1>7, <1>8 DEF ReceiptInv

\* The id is stored: another that was there is one of a second end.
LEMMA StoreStep ==
  ASSUME ReceiptInv, NEW e \in Ends, Receipt!StoreTransaction(e)
  PROVE  ReceiptInv'
<1>0. PICK t \in Trips : t = end[e].trip
  BY DEF Receipt!StoreTransaction, Receipt!EndGoto, ReceiptInv, EndInv
<1>1. /\ Receipt!EndGoto(e, "fetched", "closing")
      /\ UNCHANGED <<cached, riding, url, gone, hook, acked>>
      /\ \/ stored' = stored
         \/ t \notin gone /\ stored' = [stored EXCEPT ![t] = e]
  BY <1>0 DEF Receipt!StoreTransaction, ReceiptInv, Receipt!TypeOK
<1>2. /\ end' \in [Ends -> [pc : Receipt!EndPcs, trip : Trips \cup {None}]]
      /\ \A f \in Ends : EndInv(f)'
      /\ \A u \in Trips : /\ Receipt!EndsOf(u)' = Receipt!EndsOf(u)
                          /\ Receipt!EndedTwice(u)' <=> Receipt!EndedTwice(u)
  BY <1>1, EndGoes DEF Receipt!EndPcs
<1>3. Receipt!TypeOK'
  BY <1>1, <1>2 DEF ReceiptInv, Receipt!TypeOK
<1>4. /\ e \in Receipt!EndsOf(t)
      /\ \A u \in Trips : stored'[u] # stored[u] => u = t /\ stored'[u] = e
      /\ \A x \in Receipt!EndsOf(t) : x = e \/ Receipt!EndedTwice(t)
  BY <1>0, <1>1 DEF ReceiptInv, Receipt!TypeOK, Receipt!EndsOf, Receipt!EndedTwice
<1>5. \A u \in Trips : StoredInv(u)'
  BY <1>2, <1>4 DEF ReceiptInv, StoredInv
<1>6. \A k \in Handlers : HookInv(k)'
  BY <1>1, <1>2, <1>4 DEF ReceiptInv, HookInv, Receipt!NoHook
<1>7. Receipt!ReceiptOfOwnCharge'
  BY <1>1, <1>2, <1>4 DEF ReceiptInv, Receipt!ReceiptOfOwnCharge
<1> QED
  BY <1>2, <1>3, <1>5, <1>6, <1>7 DEF ReceiptInv

\* The other steps of tripEnd.
LEMMA EndMovesStep ==
  ASSUME ReceiptInv, NEW e \in Ends,
         Receipt!DropTrip(e) \/ Receipt!FetchPackets(e) \/ Receipt!DeleteActiveTrip(e)
  PROVE  ReceiptInv'
<1>1. /\ UNCHANGED <<stored, url, gone, hook, acked>>
      /\ cached' \subseteq Trips /\ riding' \subseteq Trips
  BY DEF Receipt!DropTrip, Receipt!FetchPackets, Receipt!DeleteActiveTrip, Receipt!tripVars,
         ReceiptInv, Receipt!TypeOK
<1>2. \E from, to \in Receipt!EndPcs :
        from # "new" /\ to # "new" /\ Receipt!EndGoto(e, from, to)
  BY DEF Receipt!DropTrip, Receipt!FetchPackets, Receipt!DeleteActiveTrip, Receipt!EndPcs
<1>3. /\ end' \in [Ends -> [pc : Receipt!EndPcs, trip : Trips \cup {None}]]
      /\ \A f \in Ends : EndInv(f)'
      /\ \A u \in Trips : /\ Receipt!EndsOf(u)' = Receipt!EndsOf(u)
                          /\ Receipt!EndedTwice(u)' <=> Receipt!EndedTwice(u)
  BY <1>2, EndGoes
<1>4. Receipt!TypeOK'
  BY <1>1, <1>3 DEF ReceiptInv, Receipt!TypeOK
<1>5. (\A u \in Trips : StoredInv(u)') /\ \A k \in Handlers : HookInv(k)'
  BY <1>1, <1>3 DEF ReceiptInv, StoredInv, HookInv, Receipt!NoHook
<1>6. Receipt!ReceiptOfOwnCharge'
  BY <1>1, <1>3 DEF ReceiptInv, Receipt!ReceiptOfOwnCharge
<1> QED
  BY <1>3, <1>4, <1>5, <1>6 DEF ReceiptInv

\* The webhook: what it finds, and what it writes or fails to write.
LEMMA HookStep ==
  ASSUME ReceiptInv, NEW k \in Handlers,
         \/ \E x \in Ends : Receipt!LookUp(k, x)
         \/ Receipt!Attach(k) \/ Receipt!AttachFail(k)
  PROVE  ReceiptInv'
<1>1. UNCHANGED <<end, cached, riding, stored, gone>>
  BY DEF Receipt!LookUp, Receipt!Attach, Receipt!AttachFail, Receipt!tripVars
<1>2. \A u \in Trips : /\ Receipt!EndsOf(u)' = Receipt!EndsOf(u)
                       /\ Receipt!EndedTwice(u)' <=> Receipt!EndedTwice(u)
  BY <1>1 DEF Receipt!EndsOf, Receipt!EndedTwice
<1>3. (\A e \in Ends : EndInv(e)') /\ \A u \in Trips : StoredInv(u)'
  BY <1>1, <1>2 DEF ReceiptInv, EndInv, StoredInv
<1>4. ASSUME NEW x \in Ends, Receipt!LookUp(k, x) PROVE ReceiptInv'
  <2>1. PICK t \in Trips : stored[t] = x /\ hook' = [hook EXCEPT ![k] = [tx |-> x, trip |-> t]]
    BY <1>4 DEF Receipt!LookUp
  <2>2. /\ hook'[k].tx = x /\ hook'[k].trip = t
        /\ \A l \in Handlers \ {k} : hook'[l] = hook[l]
    BY <2>1 DEF ReceiptInv, Receipt!TypeOK
  <2>3. UNCHANGED <<url, acked>>
    BY <1>4 DEF Receipt!LookUp, Receipt!tripVars
  <2>4. Receipt!TypeOK'
    BY <1>1, <2>1, <2>3 DEF ReceiptInv, Receipt!TypeOK
  <2>5. x # None
    BY MCPaymentsAssumption DEF Receipt!ReceiptsAssumption
  <2>6. \A l \in Handlers : HookInv(l)'
    BY <1>1, <1>2, <2>1, <2>2, <2>5 DEF ReceiptInv, HookInv, StoredInv, Receipt!NoHook
  <2>7. Receipt!ReceiptOfOwnCharge'
    BY <1>1, <1>2, <2>3 DEF ReceiptInv, Receipt!ReceiptOfOwnCharge
  <2> QED
    BY <1>3, <2>4, <2>6, <2>7 DEF ReceiptInv
<1>5. CASE Receipt!Attach(k) \/ Receipt!AttachFail(k)
  <2>1. /\ hook[k] # Receipt!NoHook /\ hook' = [hook EXCEPT ![k] = Receipt!NoHook]
        /\ \/ /\ hook[k].trip \notin gone /\ url' = [url EXCEPT ![hook[k].trip] = hook[k].tx]
              /\ acked' = acked \cup {hook[k].tx}
           \/ UNCHANGED <<url, acked>>
    BY <1>5 DEF Receipt!Attach, Receipt!AttachFail, Receipt!tripVars
  <2>2. hook'[k] = Receipt!NoHook /\ \A l \in Handlers \ {k} : hook'[l] = hook[l]
    BY <2>1 DEF ReceiptInv, Receipt!TypeOK
  <2>3. hook[k].trip \in Trips /\ hook[k].tx \in Receipt!EndsOf(hook[k].trip)
    BY <2>1 DEF ReceiptInv, HookInv
  <2>4. Receipt!TypeOK'
    BY <1>1, <2>1, <2>3 DEF ReceiptInv, Receipt!TypeOK, Receipt!EndsOf, Receipt!NoHook
  <2>5. \A l \in Handlers : HookInv(l)'
    BY <1>1, <1>2, <2>2 DEF ReceiptInv, HookInv, Receipt!NoHook
  <2>6. Receipt!ReceiptOfOwnCharge'
    BY <1>1, <1>2, <2>1, <2>3
       DEF ReceiptInv, HookInv, Receipt!ReceiptOfOwnCharge, Receipt!TypeOK
  <2> QED
    BY <1>3, <2>4, <2>5, <2>6 DEF ReceiptInv
<1> QED
  BY <1>4, <1>5

\* The row goes, and its id and its receipt with it.
LEMMA RemoveTripStep ==
  ASSUME ReceiptInv, NEW t \in Trips, Receipt!RemoveTrip(t)
  PROVE  ReceiptInv'
<1>1. /\ UNCHANGED <<end, cached, riding, hook, acked>> /\ gone' = gone \cup {t}
      /\ stored' = [stored EXCEPT ![t] = None] /\ url' = [url EXCEPT ![t] = None]
  BY DEF Receipt!RemoveTrip
<1>2. /\ stored'[t] = None /\ url'[t] = None
      /\ \A u \in Trips \ {t} : stored'[u] = stored[u] /\ url'[u] = url[u]
  BY <1>1 DEF ReceiptInv, Receipt!TypeOK
<1>3. Receipt!TypeOK'
  BY <1>1 DEF ReceiptInv, Receipt!TypeOK
<1>4. \A u \in Trips : /\ Receipt!EndsOf(u)' = Receipt!EndsOf(u)
                       /\ Receipt!EndedTwice(u)' <=> Receipt!EndedTwice(u)
  BY <1>1 DEF Receipt!EndsOf, Receipt!EndedTwice
<1>5. (\A e \in Ends : EndInv(e)') /\ \A u \in Trips : StoredInv(u)'
  BY <1>1, <1>2, <1>4 DEF ReceiptInv, EndInv, StoredInv
<1>6. \A k \in Handlers : HookInv(k)'
  BY <1>1, <1>2, <1>4 DEF ReceiptInv, HookInv, Receipt!NoHook
<1>7. Receipt!ReceiptOfOwnCharge'
  BY <1>1, <1>2, <1>4 DEF ReceiptInv, Receipt!ReceiptOfOwnCharge
<1> QED
  BY <1>3, <1>5, <1>6, <1>7 DEF ReceiptInv

\* The process ends: the calls and the handlers under way do too.
LEMMA ReceiptCrashStep ==
  ASSUME ReceiptInv, Receipt!Crash
  PROVE  ReceiptInv'
<1>1. /\ UNCHANGED <<cached, riding, stored, url, gone, acked>>
      /\ hook' = [k \in Handlers |-> Receipt!NoHook]
      /\ end' = [e \in Ends |-> IF end[e].pc = "new" THEN end[e]
                                ELSE [end[e] EXCEPT !.pc = "over"]]
  BY DEF Receipt!Crash, Receipt!tripVars
<1>2. \A e \in Ends : /\ end'[e].trip = end[e].trip
                      /\ end'[e].pc = "new" <=> end[e].pc = "new"
                      /\ end'[e] \in [pc : Receipt!EndPcs, trip : Trips \cup {None}]
  BY <1>1 DEF ReceiptInv, Receipt!TypeOK, Receipt!EndPcs
<1>3. end' \in [Ends -> [pc : Receipt!EndPcs, trip : Trips \cup {None}]]
  BY <1>1, <1>2
<1>4. Receipt!TypeOK'
  BY <1>1, <1>3 DEF ReceiptInv, Receipt!TypeOK, Receipt!NoHook
<1>5. \A u \in Trips : /\ Receipt!EndsOf(u)' = Receipt!EndsOf(u)
                       /\ Receipt!EndedTwice(u)' <=> Receipt!EndedTwice(u)
  BY <1>2 DEF Receipt!EndsOf, Receipt!EndedTwice
<1>6. (\A e \in Ends : EndInv(e)') /\ \A u \in Trips : StoredInv(u)'
  BY <1>1, <1>2, <1>5 DEF ReceiptInv, EndInv, StoredInv
<1>7. \A k \in Handlers : HookInv(k)'
  BY <1>1 DEF HookInv, Receipt!NoHook
<1>8. Receipt!ReceiptOfOwnCharge'
  BY <1>1, <1>5 DEF ReceiptInv, Receipt!ReceiptOfOwnCharge
<1> QED
  BY <1>4, <1>6, <1>7, <1>8 DEF ReceiptInv

LEMMA ReceiptStep == ReceiptInv /\ [Receipt!Next]_(Receipt!vars) => ReceiptInv'
<1> SUFFICES ASSUME ReceiptInv, [Receipt!Next]_(Receipt!vars) PROVE ReceiptInv'
  OBVIOUS
<1>1. CASE UNCHANGED Receipt!vars
  BY <1>1 DEF Receipt!vars, Receipt!tripVars, ReceiptInv, EndInv, StoredInv, HookInv,
       Receipt!TypeOK, Receipt!NoHook, Receipt!EndsOf, Receipt!EndedTwice,
       Receipt!ReceiptOfOwnCharge
<1>2. CASE Receipt!Next
  BY <1>2, ChargeTripStep, StoreStep, EndMovesStep, HookStep, RemoveTripStep, ReceiptCrashStep
     DEF Receipt!Next, Receipt!EndNext
<1> QED
  BY <1>1, <1>2

(***************************************************************************)
(* Reports.                                                                *)
(***************************************************************************)
\* What a trip's calls booked and owe is what they left to the card; and what its
\* row says, unless it was edited, is what the last of them left.
TripInv(t) ==
  /\ trip[t].booked + SumOf(trip[t].owed) = trip[t].share + trip[t].again
  /\ \A k \in Handlers \ trip[t].ended : trip[t].owed[k] = 0
  /\ trip[t].pc \in {"none", "riding"} => trip[t].share = 0 /\ trip[t].bonuses = 0
  /\ trip[t].pc = "none" => trip[t].price = 0 /\ trip[t].ended = {}
  /\ trip[t].pc # "none" => trip[t].board \in Boardings
  /\ trip[t].pc # "none" /\ Stats!Genuine(t) => trip[t].board = boarding[trip[t].tariff]
  /\ trip[t].pc = "riding" /\ ~trip[t].patched => trip[t].price = 0
  /\ trip[t].pc = "over" /\ ~trip[t].patched =>
       trip[t].price + trip[t].board = trip[t].share + trip[t].bonuses

\* The trip is, or was, of a scooter of f.
Owns(f, t) ==
  /\ trip[t].pc # "none"
  /\ trip[t].patched \/ trip[t].scooter \in moved \/ home[trip[t].scooter] = f

\* What handler k read of one kind of dues counts those that were paid at first.
Counts(k, read, kind) ==
  LET paid == Stats!Ids(Stats!Paid(read))
  IN  /\ (report[k].first \cap kind) \ report[k].gone \subseteq paid
      /\ paid \ report[k].gone \subseteq Stats!PaidNow(report[k].franchise)

\* What a report has read, and that it is still so while nothing has changed.
ReadInv(k) ==
  /\ report[k].pc = "idle" => report[k] = Stats!Idle
  /\ \A r, q \in report[k].trips : r.id = q.id => r = q
  /\ \A r \in report[k].trips : Owns(report[k].franchise, r.id)
  /\ report[k].calm =>
       /\ \A r \in report[k].trips : r = Stats!Read(r.id) /\ trip[r.id].pc \in {"riding", "over"}
       /\ report[k].pc \in {"fines", "answered", "failed"} =>
            report[k].fines = Stats!DuesOf(report[k].franchise, Fines)
       /\ report[k].pc \in {"answered", "failed"} =>
            report[k].debts = Stats!DuesOf(report[k].franchise, Debts)
  /\ report[k].first \ report[k].gone \subseteq Stats!PaidNow(report[k].franchise)
  /\ report[k].pc \in {"fines", "answered", "failed"} => Counts(k, report[k].fines, Fines)
  /\ report[k].pc \in {"answered", "failed"} => Counts(k, report[k].debts, Debts)

\* Only what is paid was waived.
WaivedInv == \A d \in waived : due[d].status = "PAID"

StatsInv ==
  /\ Stats!TypeOK
  /\ \A t \in Trips : TripInv(t)
  /\ \A k \in Handlers : ReadInv(k)
  /\ WaivedInv

\* What a report counts, row by row: a trip once, as what was booked for it, what
\* its calls owe or the boarding of a ride under way, less what an end left before
\* another wrote over it; and of the fines and debts those that are paid.
Accounted(k) ==
  /\ \A r, q \in report[k].trips : r.id = q.id => r = q
  /\ \A r \in report[k].trips :
       /\ Stats!MoneyOf(r) \in Nat
       /\ Stats!MoneyOf(r) + trip[r.id].again
            = Stats!Booked(r.id) + Stats!Owing(r.id) + Stats!Boarded(r.id)
  /\ Stats!Counted(k) = Stats!PaidNow(report[k].franchise)

ChargesByRow ==
  \A k \in Handlers :
    Stats!Answered(k) /\ report[k].calm
      /\ (\A t \in Stats!Ids(report[k].trips) : Stats!Genuine(t)) => Accounted(k)

\* The instance counts and sums as the module itself does.
LEMMA SameSum == \A f : Stats!SumOf(f) = SumOf(f)
  BY DEF Stats!SumOf, SumOf, Stats!Units, Units, Stats!Cardinality, Cardinality

\* What the calls of a trip owe is a number of kopecks.
LEMMA OwedIsNatural ==
  ASSUME NEW f \in [Handlers -> Nat]
  PROVE  Natural(f) /\ IsFiniteSet(Units(f)) /\ SumOf(f) \in Nat
<1>1. IsFiniteSet(Handlers)
  BY MCPaymentsAssumption DEF Stats!ReportsAssumption, Stats!IsFiniteSet, IsFiniteSet
<1>2. DOMAIN f = Handlers /\ Natural(f)
  BY DEF Natural
<1>3. IsFiniteSet(Units(f))
  BY <1>1, <1>2, FiniteSum
<1> QED
  BY <1>2, <1>3, NaturalSum

\* What one call owes changes the sum by as much.
LEMMA OwedAt ==
  ASSUME NEW f \in [Handlers -> Nat], NEW g \in [Handlers -> Nat], NEW k \in Handlers,
         \A x \in Handlers \ {k} : g[x] = f[x]
  PROVE  SumOf(f) \in Nat /\ SumOf(g) = SumOf(f) - f[k] + g[k]
<1>1. DOMAIN f = Handlers /\ DOMAIN g = Handlers
  OBVIOUS
<1>2. Natural(f) /\ Natural(g) /\ IsFiniteSet(Units(f)) /\ SumOf(f) \in Nat
  BY OwedIsNatural
<1>3. \A y : y # k => At(f, y) = At(g, y)
  BY <1>1 DEF At
<1>4. At(f, k) = f[k] /\ At(g, k) = g[k]
  BY <1>1 DEF At
<1>5. SumOf(g) = SumOf(f) - At(f, k) + At(g, k)
  BY <1>2, <1>3, SumChangesAt, Zenon
<1> QED
  BY <1>2, <1>4, <1>5

LEMMA OwedChanges ==
  ASSUME NEW f \in [Handlers -> Nat], NEW k \in Handlers, NEW n \in Nat,
         NEW g, g = [f EXCEPT ![k] = n]
  PROVE  g \in [Handlers -> Nat] /\ SumOf(f) \in Nat /\ SumOf(g) = SumOf(f) - f[k] + n
<1>1. g \in [Handlers -> Nat] /\ g[k] = n /\ \A x \in Handlers \ {k} : g[x] = f[x]
  OBVIOUS
<1> QED
  BY <1>1, OwedAt

LEMMA NothingOwed == SumOf([k \in Handlers |-> 0]) = 0
<1> DEFINE f == [k \in Handlers |-> 0]
<1>1. Natural(f) /\ \A x : At(f, x) = 0
  BY DEF Natural, At
<1> HIDE DEF f
<1>2. SumOf(f) = 0
  BY <1>1, ZeroSum
<1> QED
  BY <1>2 DEF f

LEMMA StatsInit == Stats!Init => StatsInv
<1> SUFFICES ASSUME Stats!Init PROVE StatsInv
  OBVIOUS
<1> USE MCPaymentsAssumption DEF Stats!ReportsAssumption
<1>1. \A t \in Trips : trip[t] = Stats!NoTrip
  BY DEF Stats!Init
<1>2. Stats!NoTrip \in Stats!TripType
  BY DEF Stats!NoTrip, Stats!TripType
<1>3. Stats!Idle \in Stats!ReportType
  BY DEF Stats!Idle, Stats!ReportType, Stats!Pcs
<1>4. Stats!TypeOK
  <2>1. trip \in [Trips -> Stats!TripType] /\ report \in [Handlers -> Stats!ReportType]
    BY <1>2, <1>3 DEF Stats!Init
  <2>2. \A t \in Trips : trip[t].pc = "none"
    BY <1>1 DEF Stats!NoTrip
  <2> QED
    BY <2>1, <2>2 DEF Stats!Init, Stats!TypeOK, Stats!NoDue
<1>5. \A t \in Trips : TripInv(t)
  BY <1>1, NothingOwed DEF TripInv, Stats!NoTrip
<1>6. \A k \in Handlers : ReadInv(k)
  BY DEF Stats!Init, ReadInv, Stats!Idle
<1>7. WaivedInv
  BY DEF Stats!Init, WaivedInv
<1> QED
  BY <1>4, <1>5, <1>6, <1>7 DEF StatsInv

\* Something that the reports are about changes: none is calm any more, what a
\* report has read stays what it was, and what is deleted is noted.
LEMMA StirKeepsReads ==
  ASSUME StatsInv, NEW D \in SUBSET Stats!Dues, Stats!Stir(D),
         \A t \in Trips : trip[t].pc # "none" =>
            /\ trip'[t].pc # "none"
            /\ trip[t].patched => trip'[t].patched
            /\ trip'[t].patched \/ trip'[t].scooter = trip[t].scooter,
         moved \subseteq moved', \A s \in Scooters \ moved' : home'[s] = home[s],
         \A d \in Stats!Dues \ D : due[d].status = "PAID" =>
            due'[d].status = "PAID" /\ due'[d].initiator = due[d].initiator
  PROVE  report' \in [Handlers -> Stats!ReportType] /\ \A k \in Handlers : ReadInv(k)'
<1>1. report \in [Handlers -> Stats!ReportType]
  BY DEF StatsInv, Stats!TypeOK
<1>2. report' = [k \in Handlers |->
                   IF report[k].pc = "idle" THEN report[k]
                   ELSE [report[k] EXCEPT !.calm = FALSE, !.gone = @ \cup D]]
  BY DEF Stats!Stir
<1>3. ASSUME NEW f PROVE Stats!PaidNow(f) \ D \subseteq Stats!PaidNow(f)'
  BY DEF Stats!PaidNow
<1>4. ASSUME NEW f, NEW t \in Trips, Owns(f, t) PROVE Owns(f, t)'
  BY <1>4 DEF Owns, StatsInv, Stats!TypeOK
<1>5. ASSUME NEW k \in Handlers, report[k].pc = "idle"
      PROVE  report'[k] \in Stats!ReportType /\ ReadInv(k)'
  <2>1. report'[k] = report[k] /\ report[k] = Stats!Idle
    BY <1>2, <1>5 DEF StatsInv, ReadInv
  <2>2. ReadInv(k)'
    BY <2>1 DEF ReadInv, Stats!Idle
  <2> QED
    BY <1>1, <2>1, <2>2
<1>6. ASSUME NEW k \in Handlers, report[k].pc # "idle"
      PROVE  report'[k] \in Stats!ReportType /\ ReadInv(k)'
  <2>1. report'[k] = [report[k] EXCEPT !.calm = FALSE, !.gone = @ \cup D]
        /\ report[k] \in Stats!ReportType
    BY <1>1, <1>2, <1>6
  <2>2. /\ report'[k] \in Stats!ReportType /\ ~report'[k].calm
        /\ report'[k].pc = report[k].pc /\ report'[k].trips = report[k].trips
        /\ report'[k].franchise = report[k].franchise
        /\ report'[k].fines = report[k].fines /\ report'[k].debts = report[k].debts
        /\ report'[k].first = report[k].first /\ report'[k].gone = report[k].gone \cup D
    BY <2>1 DEF Stats!ReportType
  <2>3. ReadInv(k) /\ \A r \in report[k].trips : r.id \in Trips
    BY <2>1 DEF StatsInv, Stats!ReportType, Stats!TripRows
  <2>4. PICK f, trips, fines, debts :
          /\ f = report[k].franchise /\ trips = report[k].trips
          /\ fines = report[k].fines /\ debts = report[k].debts
    OBVIOUS
  <2>5. \A r \in trips : Owns(f, r.id)'
    BY <1>4, <2>3, <2>4 DEF ReadInv
  <2>6. Stats!PaidNow(f) \ D \subseteq Stats!PaidNow(f)'
    BY <1>3
  <2>7. ASSUME NEW read, NEW kind, Counts(k, read, kind) PROVE Counts(k, read, kind)'
    <3>1. report[k].franchise = f /\ report'[k].franchise = f
      BY <2>2, <2>4
    <3>2. /\ (report[k].first \cap kind) \ report[k].gone \subseteq Stats!Ids(Stats!Paid(read))
          /\ Stats!Ids(Stats!Paid(read)) \ report[k].gone \subseteq Stats!PaidNow(f)
      BY <2>7, <3>1 DEF Counts
    <3>3. /\ (report'[k].first \cap kind) \ report'[k].gone \subseteq Stats!Ids(Stats!Paid(read))
          /\ Stats!Ids(Stats!Paid(read)) \ report'[k].gone \subseteq Stats!PaidNow(f)'
      BY <2>2, <2>6, <3>2
    <3> QED
      BY <3>1, <3>3 DEF Counts, Stats!PaidNow, Stats!Ids, Stats!Paid
  <2>8. report'[k].first \ report'[k].gone \subseteq Stats!PaidNow(f)'
    BY <2>2, <2>3, <2>4, <2>6 DEF ReadInv
  <2>9. /\ report'[k].pc \in {"fines", "answered", "failed"} => Counts(k, fines, Fines)'
        /\ report'[k].pc \in {"answered", "failed"} => Counts(k, debts, Debts)'
    <3>1. /\ report[k].pc \in {"fines", "answered", "failed"} => Counts(k, fines, Fines)
          /\ report[k].pc \in {"answered", "failed"} => Counts(k, debts, Debts)
      BY <2>3, <2>4 DEF ReadInv
    <3> QED
      BY <2>2, <2>7, <3>1
  <2>10. /\ f = report'[k].franchise /\ trips = report'[k].trips
         /\ fines = report'[k].fines /\ debts = report'[k].debts /\ report'[k].pc # "idle"
    BY <1>6, <2>2, <2>4
  <2>11. ReadInv(k)'
    <3>1. \A r, q \in report'[k].trips : r.id = q.id => r = q
      BY <2>2, <2>3 DEF ReadInv
    <3> QED
      BY <2>2, <2>5, <2>8, <2>9, <2>10, <3>1 DEF ReadInv
  <2> QED
    BY <2>2, <2>11
<1> QED
  BY <1>2, <1>5, <1>6

\* One trip changes: it stays a trip, of its scooter unless its row is edited.
LEMMA TripMoves ==
  ASSUME StatsInv, NEW t \in Trips, Stats!ChangeTrip,
         trip' = [trip EXCEPT ![t] = trip'[t]], trip'[t] \in Stats!TripType,
         trip'[t].pc # "none", trip'[t].scooter \in Scooters, trip'[t].tariff \in Tariffs,
         trip[t].pc # "none" =>
            /\ trip[t].patched => trip'[t].patched
            /\ trip'[t].patched \/ trip'[t].scooter = trip[t].scooter,
         TripInv(t)'
  PROVE  StatsInv'
<1>1. /\ UNCHANGED <<home, boarding, due, waived, moved, edited>> /\ Stats!Stir({})
  BY DEF Stats!ChangeTrip
<1>2. /\ trip' \in [Trips -> Stats!TripType] /\ \A u \in Trips \ {t} : trip'[u] = trip[u]
  BY DEF StatsInv, Stats!TypeOK
<1>3. \A u \in Trips : trip[u].pc # "none" =>
            /\ trip'[u].pc # "none"
            /\ trip[u].patched => trip'[u].patched
            /\ trip'[u].patched \/ trip'[u].scooter = trip[u].scooter
  BY <1>2
<1>4. \A u \in Trips : TripInv(u)'
  <2>1. ASSUME NEW u \in Trips, u # t PROVE TripInv(u)'
    BY <1>1, <1>2, <2>1 DEF StatsInv, TripInv, Stats!Genuine
  <2> QED
    BY <2>1
<1>5. report' \in [Handlers -> Stats!ReportType] /\ \A k \in Handlers : ReadInv(k)'
  <2>1. {} \in SUBSET Stats!Dues
    OBVIOUS
  <2> QED
    BY <1>1, <1>3, <2>1, StirKeepsReads
<1>6. Stats!TypeOK'
  BY <1>1, <1>2, <1>5 DEF StatsInv, Stats!TypeOK
<1>7. WaivedInv'
  BY <1>1 DEF StatsInv, WaivedInv
<1> QED
  BY <1>4, <1>5, <1>6, <1>7 DEF StatsInv

LEMMA StartTripStep ==
  ASSUME StatsInv, NEW t \in Trips, NEW s \in Scooters, NEW f \in Tariffs,
         Stats!StartTrip(t, s, f)
  PROVE  StatsInv'
<1> USE MCPaymentsAssumption DEF Stats!ReportsAssumption
<1>1. trip[t] \in Stats!TripType /\ TripInv(t) /\ trip[t].pc = "none" /\ boarding[f] \in Boardings
  BY DEF StatsInv, Stats!TypeOK, Stats!StartTrip
<1>2. trip'[t] = [trip[t] EXCEPT !.pc = "riding", !.scooter = s, !.tariff = f,
                                 !.board = boarding[f]]
      /\ trip' = [trip EXCEPT ![t] = trip'[t]] /\ Stats!ChangeTrip
  BY DEF StatsInv, Stats!TypeOK, Stats!StartTrip
<1>3. /\ trip'[t] \in Stats!TripType /\ trip'[t].pc = "riding"
      /\ trip'[t].scooter = s /\ trip'[t].tariff = f /\ trip'[t].board = boarding[f]
      /\ trip'[t].price = trip[t].price /\ trip'[t].bonuses = trip[t].bonuses
      /\ trip'[t].ended = trip[t].ended /\ trip'[t].owed = trip[t].owed
      /\ trip'[t].booked = trip[t].booked /\ trip'[t].share = trip[t].share
      /\ trip'[t].again = trip[t].again /\ trip'[t].patched = trip[t].patched
  <2>1. trip'[t] = [trip[t] EXCEPT !.pc = "riding", !.scooter = s, !.tariff = f,
                                   !.board = boarding[f]]
    BY <1>2
  <2>2. boarding[f] \in Boardings
    BY <1>1
  <2> HIDE MCPaymentsAssumption
  <2>3. trip'[t] \in Stats!TripType
    BY <1>1, <2>1, <2>2 DEF Stats!TripType
  <2> QED
    BY <1>1, <2>1, <2>3 DEF Stats!TripType
<1>4. boarding' = boarding
  BY <1>2 DEF Stats!ChangeTrip
<1>5. TripInv(t)'
  BY <1>1, <1>3, <1>4 DEF TripInv
<1> QED
  BY <1>1, <1>2, <1>3, <1>5, TripMoves

LEMMA EndTripStep ==
  ASSUME StatsInv, NEW t \in Trips, NEW k \in Handlers, NEW p \in Prices, NEW b \in Bonuses,
         Stats!EndTrip(k, t, p, b)
  PROVE  StatsInv'
<1> USE MCPaymentsAssumption DEF Stats!ReportsAssumption
<1> DEFINE share == p + trip[t].board - b
<1>1. /\ trip[t] \in Stats!TripType /\ TripInv(t) /\ trip[t].pc \in {"riding", "over"}
      /\ k \notin trip[t].ended /\ b <= p + trip[t].board
      /\ trip[t].scooter \in Scooters /\ trip[t].tariff \in Tariffs
  BY DEF StatsInv, Stats!TypeOK, Stats!EndTrip
<1>2. share \in Nat /\ p \in Nat /\ b \in Nat /\ trip[t].board \in Nat
  <2>1. trip[t].board \in Boardings
    BY <1>1 DEF TripInv
  <2>2. p \in Nat /\ b \in Nat /\ trip[t].board \in Nat
    BY <2>1
  <2> QED
    BY <1>1, <2>2
<1>3. trip'[t] = [trip[t] EXCEPT !.pc = "over", !.price = p, !.bonuses = b,
                      !.ended = trip[t].ended \cup {k},
                      !.owed = [trip[t].owed EXCEPT ![k] = share],
                      !.share = share, !.again = trip[t].again + trip[t].share]
      /\ trip' = [trip EXCEPT ![t] = trip'[t]] /\ Stats!ChangeTrip
  <2>1. PICK now : now = [trip[t] EXCEPT !.pc = "over", !.price = p, !.bonuses = b,
                              !.ended = trip[t].ended \cup {k},
                      !.owed = [trip[t].owed EXCEPT ![k] = share],
                              !.share = share, !.again = trip[t].again + trip[t].share]
    OBVIOUS
  <2>2. trip' = [trip EXCEPT ![t] = now] /\ Stats!ChangeTrip
    BY <2>1 DEF Stats!EndTrip
  <2>3. trip \in [Trips -> Stats!TripType]
    BY DEF StatsInv, Stats!TypeOK
  <2>4. trip'[t] = now /\ trip' = [trip EXCEPT ![t] = trip'[t]]
    BY <2>2, <2>3
  <2> QED
    BY <2>1, <2>2, <2>4
<1>4. PICK owed : owed = [trip[t].owed EXCEPT ![k] = share]
  OBVIOUS
<1>5. /\ owed \in [Handlers -> Nat] /\ SumOf(trip[t].owed) \in Nat
      /\ SumOf(owed) = SumOf(trip[t].owed) - trip[t].owed[k] + share
  <2> HIDE DEF share
  <2>1. trip[t].owed \in [Handlers -> Nat]
    BY <1>1 DEF Stats!TripType
  <2>2. PICK old : old = trip[t].owed
    OBVIOUS
  <2>3. old \in [Handlers -> Nat] /\ owed = [old EXCEPT ![k] = share] /\ share \in Nat
    BY <1>2, <1>4, <2>1, <2>2
  <2> HIDE MCPaymentsAssumption
  <2>4. owed \in [Handlers -> Nat] /\ owed[k] = share /\ \A x \in Handlers \ {k} : owed[x] = old[x]
    BY <2>3
  <2>5. SumOf(old) \in Nat /\ SumOf(owed) = SumOf(old) - old[k] + owed[k]
    BY <2>3, <2>4, OwedAt, Zenon
  <2> QED
    BY <2>2, <2>4, <2>5
<1>6. trip[t].owed[k] = 0 /\ trip[t].share \in Nat /\ trip[t].again \in Nat /\ trip[t].booked \in Nat
  BY <1>1 DEF TripInv, Stats!TripType
<1>7. /\ trip'[t] \in Stats!TripType /\ trip'[t].pc = "over" /\ trip'[t].price = p
      /\ trip'[t].bonuses = b /\ trip'[t].ended = trip[t].ended \cup {k} /\ trip'[t].owed = owed
      /\ trip'[t].share = share /\ trip'[t].again = trip[t].again + trip[t].share
      /\ trip'[t].scooter = trip[t].scooter /\ trip'[t].tariff = trip[t].tariff
      /\ trip'[t].board = trip[t].board /\ trip'[t].booked = trip[t].booked
      /\ trip'[t].patched = trip[t].patched
  <2>1. trip[t].share \in Nat /\ trip[t].again + trip[t].share \in Nat
    BY <1>6
  <2> HIDE DEF share
  <2>2. trip'[t] = [trip[t] EXCEPT !.pc = "over", !.price = p, !.bonuses = b,
                        !.ended = @ \cup {k}, !.owed = owed,
                        !.share = share, !.again = trip[t].again + trip[t].share]
    BY <1>1, <1>3, <1>4 DEF Stats!TripType
  <2>3. /\ trip'[t].pc = "over" /\ trip'[t].price = p
        /\ trip'[t].bonuses = b /\ trip'[t].ended = trip[t].ended \cup {k} /\ trip'[t].owed = owed
        /\ trip'[t].share = share /\ trip'[t].again = trip[t].again + trip[t].share
        /\ trip'[t].scooter = trip[t].scooter /\ trip'[t].tariff = trip[t].tariff
        /\ trip'[t].board = trip[t].board /\ trip'[t].booked = trip[t].booked
        /\ trip'[t].patched = trip[t].patched
    BY <1>1, <2>2 DEF Stats!TripType
  <2>4. trip[t].ended \cup {k} \in SUBSET Handlers
    BY <1>1 DEF Stats!TripType
  <2>5. PICK ended, total : ended = trip[t].ended \cup {k} /\ total = trip[t].again + trip[t].share
    OBVIOUS
  <2>6. trip'[t] = [trip[t] EXCEPT !.pc = "over", !.price = p, !.bonuses = b, !.ended = ended,
                                   !.owed = owed, !.share = share, !.again = total]
    BY <1>1, <2>2, <2>5 DEF Stats!TripType
  <2>7. trip'[t] \in Stats!TripType
    <3>1. /\ p \in Prices \cup {0} /\ b \in Bonuses \cup {0} /\ ended \in SUBSET Handlers
          /\ share \in Nat /\ total \in Nat /\ owed \in [Handlers -> Nat]
      BY <1>2, <1>5, <2>1, <2>4, <2>5
    <3> HIDE MCPaymentsAssumption
    <3>2. PICK half : half = [trip[t] EXCEPT !.pc = "over", !.price = p, !.bonuses = b]
      OBVIOUS
    <3>3. half \in Stats!TripType
      BY <1>1, <3>1, <3>2 DEF Stats!TripType
    <3>4. trip'[t] = [half EXCEPT !.ended = ended, !.owed = owed, !.share = share, !.again = total]
      BY <1>1, <2>6, <3>2 DEF Stats!TripType
    <3> QED
      BY <3>1, <3>3, <3>4 DEF Stats!TripType
  <2> QED
    BY <2>3, <2>7
<1>8. boarding' = boarding /\ edited' = edited
  BY <1>3 DEF Stats!ChangeTrip
<1>9. \A l \in Handlers \ trip'[t].ended : trip'[t].owed[l] = 0
  <2>1. \A l \in Handlers \ {k} : owed[l] = trip[t].owed[l]
    BY <1>1, <1>4 DEF Stats!TripType
  <2> QED
    BY <1>1, <1>7, <2>1 DEF TripInv
<1>10. trip'[t].booked + SumOf(owed) = trip'[t].share + trip'[t].again
  <2>1. trip[t].booked + SumOf(trip[t].owed) = trip[t].share + trip[t].again
    BY <1>1 DEF TripInv
  <2> HIDE DEF share
  <2> QED
    BY <1>2, <1>5, <1>6, <1>7, <2>1
<1>11. trip'[t].price + trip'[t].board = trip'[t].share + trip'[t].bonuses
  BY <1>2, <1>7
<1>12. TripInv(t)'
  <2> HIDE DEF share
  <2> QED
    BY <1>1, <1>7, <1>8, <1>9, <1>10, <1>11 DEF TripInv, Stats!Genuine
<1> QED
  BY <1>1, <1>3, <1>7, <1>12, TripMoves

LEMMA BookTripStep ==
  ASSUME StatsInv, NEW t \in Trips, NEW k \in Handlers, Stats!BookTrip(k, t)
  PROVE  StatsInv'
<1>1. /\ trip[t] \in Stats!TripType /\ TripInv(t) /\ trip[t].owed[k] > 0
  BY DEF StatsInv, Stats!TypeOK, Stats!BookTrip
<1>2. trip'[t] = [trip[t] EXCEPT !.booked = @ + trip[t].owed[k],
                                 !.owed[k] = 0]
      /\ trip' = [trip EXCEPT ![t] = trip'[t]] /\ Stats!ChangeTrip
  <2>1. trip \in [Trips -> Stats!TripType]
    BY DEF StatsInv, Stats!TypeOK
  <2>2. /\ trip' = [trip EXCEPT ![t].booked = @ + trip[t].owed[k], ![t].owed[k] = 0]
        /\ Stats!ChangeTrip
    BY DEF Stats!BookTrip
  <2>3. trip'[t] = [trip[t] EXCEPT !.booked = @ + trip[t].owed[k], !.owed[k] = 0]
    BY <2>1, <2>2
  <2> QED
    BY <2>1, <2>2, <2>3
<1>3. PICK owed : owed = [trip[t].owed EXCEPT ![k] = 0]
  OBVIOUS
<1>4. /\ owed \in [Handlers -> Nat] /\ SumOf(trip[t].owed) \in Nat
      /\ SumOf(owed) = SumOf(trip[t].owed) - trip[t].owed[k] + 0
  <2>1. trip[t].owed \in [Handlers -> Nat] /\ 0 \in Nat
    BY <1>1 DEF Stats!TripType
  <2> QED
    BY <1>3, <2>1, OwedChanges
<1>5. trip[t].owed \in [Handlers -> Nat] /\ trip[t].owed[k] \in Nat /\ trip[t].booked \in Nat
      /\ trip[t].share \in Nat /\ trip[t].again \in Nat
  BY <1>1 DEF Stats!TripType
<1>6. /\ trip'[t] \in Stats!TripType /\ trip'[t].owed = owed
      /\ trip'[t].booked = trip[t].booked + trip[t].owed[k]
      /\ trip'[t].pc = trip[t].pc /\ trip'[t].price = trip[t].price
      /\ trip'[t].bonuses = trip[t].bonuses /\ trip'[t].ended = trip[t].ended
      /\ trip'[t].share = trip[t].share /\ trip'[t].again = trip[t].again
      /\ trip'[t].scooter = trip[t].scooter /\ trip'[t].tariff = trip[t].tariff
      /\ trip'[t].board = trip[t].board /\ trip'[t].patched = trip[t].patched
  <2>1. trip[t].booked + trip[t].owed[k] \in Nat
    BY <1>5
  <2>2. trip'[t] = [trip[t] EXCEPT !.booked = @ + trip[t].owed[k], !.owed = owed]
    BY <1>1, <1>2, <1>3 DEF Stats!TripType
  <2> QED
    BY <1>1, <1>4, <2>1, <2>2 DEF Stats!TripType
<1>7. boarding' = boarding /\ edited' = edited
  BY <1>2 DEF Stats!ChangeTrip
<1>8. \A l \in Handlers \ trip'[t].ended : trip'[t].owed[l] = 0
  BY <1>1, <1>3, <1>5, <1>6 DEF TripInv
<1>9. trip'[t].booked + SumOf(owed) = trip'[t].share + trip'[t].again
  <2>1. trip[t].booked + SumOf(trip[t].owed) = trip[t].share + trip[t].again
    BY <1>1 DEF TripInv
  <2> QED
    BY <1>4, <1>5, <1>6, <2>1
<1>10. TripInv(t)'
  BY <1>1, <1>6, <1>7, <1>8, <1>9 DEF TripInv, Stats!Genuine
<1>11. trip[t].pc # "none" /\ trip[t].scooter \in Scooters /\ trip[t].tariff \in Tariffs
  <2>1. k \in trip[t].ended
    BY <1>1 DEF TripInv
  <2>2. trip[t].pc # "none"
    BY <1>1, <2>1 DEF TripInv
  <2> QED
    BY <2>2 DEF StatsInv, Stats!TypeOK
<1> QED
  BY <1>2, <1>6, <1>10, <1>11, TripMoves

LEMMA EditTripStep ==
  ASSUME StatsInv, NEW t \in Trips, NEW s \in Scooters, NEW f \in Tariffs,
         NEW p \in Prices \cup {trip[t].price}, Stats!EditTrip(t, p, s, f)
  PROVE  StatsInv'
<1>1. /\ trip[t] \in Stats!TripType /\ TripInv(t) /\ trip[t].pc \in {"riding", "over"}
  BY DEF StatsInv, Stats!TypeOK, Stats!EditTrip
<1>2. trip'[t] = [trip[t] EXCEPT !.price = p, !.scooter = s, !.tariff = f, !.patched = TRUE]
      /\ trip' = [trip EXCEPT ![t] = trip'[t]] /\ Stats!ChangeTrip
  BY DEF StatsInv, Stats!TypeOK, Stats!EditTrip
<1>3. /\ trip'[t] \in Stats!TripType /\ trip'[t].pc = trip[t].pc /\ trip'[t].patched
      /\ trip'[t].scooter = s /\ trip'[t].tariff = f /\ trip'[t].board = trip[t].board
      /\ trip'[t].bonuses = trip[t].bonuses
      /\ trip'[t].ended = trip[t].ended /\ trip'[t].owed = trip[t].owed
      /\ trip'[t].booked = trip[t].booked /\ trip'[t].share = trip[t].share
      /\ trip'[t].again = trip[t].again
  <2>1. trip'[t] = [trip[t] EXCEPT !.price = p, !.scooter = s, !.tariff = f, !.patched = TRUE]
    BY <1>2
  <2>2. p \in Prices \cup {0}
    BY <1>1 DEF Stats!TripType
  <2> HIDE MCPaymentsAssumption
  <2>3. PICK half : half = [trip[t] EXCEPT !.scooter = s, !.tariff = f]
    OBVIOUS
  <2>4. half \in Stats!TripType
    BY <1>1, <2>3 DEF Stats!TripType
  <2>5. trip'[t] = [half EXCEPT !.price = p, !.patched = TRUE]
    BY <1>1, <2>1, <2>3 DEF Stats!TripType
  <2>6. trip'[t] \in Stats!TripType
    BY <2>2, <2>4, <2>5 DEF Stats!TripType
  <2> QED
    BY <1>1, <2>1, <2>6 DEF Stats!TripType
<1>4. TripInv(t)'
  BY <1>1, <1>3 DEF TripInv, Stats!Genuine
<1> QED
  BY <1>1, <1>2, <1>3, <1>4, TripMoves

LEMMA RemoveRowStep ==
  ASSUME StatsInv, NEW t \in Trips, Stats!RemoveTrip(t)
  PROVE  StatsInv'
<1>1. /\ trip[t] \in Stats!TripType /\ TripInv(t) /\ trip[t].pc \in {"riding", "over"}
      /\ trip[t].scooter \in Scooters /\ trip[t].tariff \in Tariffs
  BY DEF StatsInv, Stats!TypeOK, Stats!RemoveTrip
<1>2. trip'[t] = [trip[t] EXCEPT !.pc = "removed"]
      /\ trip' = [trip EXCEPT ![t] = trip'[t]] /\ Stats!ChangeTrip
  BY DEF StatsInv, Stats!TypeOK, Stats!RemoveTrip
<1>3. /\ trip'[t] \in Stats!TripType /\ trip'[t].pc = "removed"
      /\ trip'[t].price = trip[t].price
      /\ trip'[t].bonuses = trip[t].bonuses /\ trip'[t].ended = trip[t].ended
      /\ trip'[t].owed = trip[t].owed /\ trip'[t].booked = trip[t].booked
      /\ trip'[t].share = trip[t].share /\ trip'[t].again = trip[t].again
      /\ trip'[t].scooter = trip[t].scooter /\ trip'[t].tariff = trip[t].tariff
      /\ trip'[t].board = trip[t].board /\ trip'[t].patched = trip[t].patched
  BY <1>1, <1>2 DEF Stats!TripType
<1>4. boarding' = boarding /\ edited' = edited
  BY <1>2 DEF Stats!ChangeTrip
<1>5. TripInv(t)'
  BY <1>1, <1>3, <1>4 DEF TripInv, Stats!Genuine
<1> QED
  BY <1>1, <1>2, <1>3, <1>5, TripMoves

\* A fine or a debt is filed, closed or deleted.
LEMMA DueMovesStep ==
  ASSUME StatsInv, NEW d \in Stats!Dues,
         \/ \E t \in Trips : Stats!File(d, t)
         \/ \E byCrm \in BOOLEAN : Stats!Close(d, byCrm)
         \/ Stats!Delete(d)
  PROVE  StatsInv'
<1> USE MCPaymentsAssumption DEF Stats!ReportsAssumption
<1> DEFINE Due == [status : {"none", "NOTPAID", "PAID"}, initiator : Options \cup {None},
                   trip : Trips \cup {None}]
<1>1. due \in [Stats!Dues -> Due]
  BY DEF StatsInv, Stats!TypeOK
<1>2. PICK D \in SUBSET Stats!Dues :
        /\ UNCHANGED <<home, boarding, trip, moved, edited>> /\ Stats!Stir(D)
        /\ due' \in [Stats!Dues -> Due] /\ waived' \subseteq Fines /\ WaivedInv'
        /\ \A e \in Stats!Dues \ D : due[e].status = "PAID" =>
              due'[e].status = "PAID" /\ due'[e].initiator = due[e].initiator
  <2>1. ASSUME NEW t \in Trips, Stats!File(d, t)
        PROVE  /\ due'[d] \in Due /\ due[d].status # "PAID" /\ waived' = waived
               /\ due' = [due EXCEPT ![d] = due'[d]] /\ Stats!Stir({})
    <3>1. home[trip[t].scooter] \in Options
      BY <2>1 DEF Stats!File, StatsInv, Stats!TypeOK
    <3> QED
      BY <1>1, <2>1, <3>1 DEF Stats!File
  <2>2. ASSUME NEW byCrm \in BOOLEAN, Stats!Close(d, byCrm)
        PROVE  /\ due'[d] \in Due /\ due'[d].status = "PAID" /\ waived' \subseteq waived \cup {d}
               /\ waived' \subseteq Fines /\ due'[d].initiator = due[d].initiator
               /\ due' = [due EXCEPT ![d] = due'[d]] /\ Stats!Stir({})
    BY <1>1, <2>2 DEF Stats!Close, StatsInv, Stats!TypeOK
  <2>3. ASSUME Stats!Delete(d)
        PROVE  /\ due'[d] \in Due /\ waived' = waived \ {d}
               /\ due' = [due EXCEPT ![d] = due'[d]] /\ Stats!Stir({d})
    BY <1>1, <2>3 DEF Stats!Delete, Stats!NoDue
  <2>4. UNCHANGED <<home, boarding, trip, moved, edited>>
    BY DEF Stats!File, Stats!Close, Stats!Delete
  <2>5. due'[d] \in Due /\ due' = [due EXCEPT ![d] = due'[d]] /\ waived' \subseteq Fines
    BY <2>1, <2>2, <2>3 DEF StatsInv, Stats!TypeOK
  <2> HIDE DEF Due
  <2>6. (\A e \in Stats!Dues \ {d} : due'[e] = due[e]) /\ due' \in [Stats!Dues -> Due]
    BY <1>1, <2>5
  <2>7. WaivedInv'
    BY <2>1, <2>2, <2>3, <2>6 DEF StatsInv, WaivedInv, Stats!TypeOK, Stats!Dues
  <2>8. CASE Stats!Delete(d)
    <3>1. {d} \in SUBSET Stats!Dues
      OBVIOUS
    <3> QED
      BY <2>3, <2>4, <2>5, <2>6, <2>7, <2>8, <3>1
  <2>9. CASE ~Stats!Delete(d)
    <3>1. Stats!Stir({})
      BY <2>1, <2>2, <2>9
    <3>2. \A e \in Stats!Dues : due[e].status = "PAID" =>
             due'[e].status = "PAID" /\ due'[e].initiator = due[e].initiator
      BY <2>1, <2>2, <2>6, <2>9
    <3>3. {} \in SUBSET Stats!Dues
      OBVIOUS
    <3> QED
      BY <2>4, <2>5, <2>6, <2>7, <3>1, <3>2, <3>3
  <2> QED
    BY <2>8, <2>9
<1>3. \A t \in Trips : TripInv(t)'
  BY <1>2 DEF StatsInv, TripInv, Stats!Genuine
<1>4. report' \in [Handlers -> Stats!ReportType] /\ \A k \in Handlers : ReadInv(k)'
  BY <1>2, StirKeepsReads
<1>5. Stats!TypeOK'
  BY <1>2, <1>4 DEF StatsInv, Stats!TypeOK
<1> QED
  BY <1>2, <1>3, <1>4, <1>5 DEF StatsInv

\* A scooter changes hands, or a tariff its price.
LEMMA OwnerOrTariffStep ==
  ASSUME StatsInv,
         \/ \E s \in Scooters, f \in Options \cup {None} : Stats!MoveScooter(s, f)
         \/ \E f \in Tariffs, b \in Boardings \cup {None} : Stats!EditTariff(f, b)
  PROVE  StatsInv'
<1>1. /\ UNCHANGED <<trip, due, waived>> /\ Stats!Stir({})
      /\ home' \in [Scooters -> Options \cup {None}]
      /\ boarding' \in [Tariffs -> Boardings \cup {None}]
      /\ moved' \subseteq Scooters /\ edited' \subseteq Tariffs
      /\ moved \subseteq moved' /\ edited \subseteq edited'
      /\ \A s \in Scooters \ moved' : home'[s] = home[s]
      /\ \A f \in Tariffs \ edited' : boarding'[f] = boarding[f]
  BY DEF StatsInv, Stats!TypeOK, Stats!MoveScooter, Stats!EditTariff
<1>2. \A t \in Trips : TripInv(t)'
  <2>1. ASSUME NEW t \in Trips PROVE TripInv(t)'
    <3>1. TripInv(t) /\ trip[t].pc # "none" => trip[t].tariff \in Tariffs
      BY DEF StatsInv, Stats!TypeOK
    <3>2. TripInv(t)
      BY DEF StatsInv
    <3> QED
      BY <1>1, <3>1, <3>2 DEF TripInv, Stats!Genuine
  <2> QED
    BY <2>1
<1>3. report' \in [Handlers -> Stats!ReportType] /\ \A k \in Handlers : ReadInv(k)'
  <2>1. {} \in SUBSET Stats!Dues
    OBVIOUS
  <2> QED
    BY <1>1, <2>1, StirKeepsReads
<1>4. Stats!TypeOK'
  BY <1>1, <1>3 DEF StatsInv, Stats!TypeOK
<1>5. WaivedInv'
  BY <1>1 DEF StatsInv, WaivedInv
<1> QED
  BY <1>2, <1>3, <1>4, <1>5 DEF StatsInv

\* The rows stay as they are while a report reads them: what the one that
\* reads holds is what it read, and the others hold what they held.
LEMMA ReadsOfOne ==
  ASSUME StatsInv, NEW k \in Handlers, UNCHANGED Stats!rows,
         report' = [report EXCEPT ![k] = report'[k]],
         report'[k] \in Stats!ReportType, ReadInv(k)'
  PROVE  StatsInv'
<1>1. /\ UNCHANGED <<home, boarding, trip, due, waived, moved, edited>>
      /\ \A l \in Handlers \ {k} : report'[l] = report[l]
  BY DEF Stats!rows, StatsInv, Stats!TypeOK
<1>2. Stats!TypeOK'
  BY <1>1 DEF StatsInv, Stats!TypeOK
<1>3. (\A t \in Trips : TripInv(t)') /\ WaivedInv'
  BY <1>1 DEF StatsInv, TripInv, Stats!Genuine, WaivedInv
<1>4. \A l \in Handlers \ {k} : ReadInv(l)'
  BY <1>1 DEF StatsInv, ReadInv, Owns, Counts, Stats!Read, Stats!DuesOf, Stats!PaidNow
<1> QED
  BY <1>2, <1>3, <1>4 DEF StatsInv

\* What a query reads of one kind of dues counts those that are paid.
LEMMA ReadsPaid ==
  ASSUME StatsInv, NEW kind \in {Fines, Debts}, NEW f
  PROVE  Stats!Ids(Stats!Paid(Stats!DuesOf(f, kind))) = Stats!PaidNow(f) \cap kind
<1> DEFINE read == Stats!DuesOf(f, kind)
<1>1. \A q \in read : /\ q.id \in kind /\ q.status = due[q.id].status
                       /\ due[q.id].initiator = f
  BY DEF Stats!DuesOf
<1>2. \A d \in kind : due[d].initiator = f => \E q \in read : q.id = d /\ q.status = due[d].status
  <2>1. ASSUME NEW d \in kind, due[d].initiator = f
        PROVE  [id |-> d, status |-> due[d].status] \in read
    BY <2>1 DEF Stats!DuesOf
  <2> QED
    BY <2>1
<1>3. kind \subseteq Stats!Dues
  BY DEF Stats!Dues
<1> HIDE DEF read
<1>4. Stats!Ids(Stats!Paid(read)) = {d \in kind : due[d].status = "PAID" /\ due[d].initiator = f}
  BY <1>1, <1>2 DEF Stats!Ids, Stats!Paid
<1>5. Stats!PaidNow(f) \cap kind = {d \in kind : due[d].status = "PAID" /\ due[d].initiator = f}
  BY <1>3 DEF Stats!PaidNow
<1> QED
  BY <1>4, <1>5 DEF read

LEMMA ReadTripsStep ==
  ASSUME StatsInv, NEW k \in Handlers, NEW f \in Options, Stats!ReadTrips(k, f)
  PROVE  StatsInv'
<1> DEFINE rows == {Stats!Read(t) : t \in Stats!TripsOf(f)}
<1>1. /\ UNCHANGED Stats!rows
      /\ report' = [report EXCEPT ![k] = [Stats!Idle EXCEPT !.pc = "trips", !.franchise = f,
                                            !.calm = TRUE, !.trips = rows,
                                            !.first = Stats!PaidNow(f)]]
  BY DEF Stats!ReadTrips
<1>2. report'[k] = [Stats!Idle EXCEPT !.pc = "trips", !.franchise = f, !.calm = TRUE,
                                       !.trips = rows, !.first = Stats!PaidNow(f)]
  BY <1>1 DEF StatsInv, Stats!TypeOK
<1>3. report'[k] = [pc |-> "trips", franchise |-> f, trips |-> rows, fines |-> {}, debts |-> {},
                    calm |-> TRUE, first |-> Stats!PaidNow(f), gone |-> {}]
  BY <1>2 DEF Stats!Idle
<1>4. \A t \in Stats!TripsOf(f) : /\ t \in Trips /\ trip[t].pc \in {"riding", "over"}
                                  /\ home[trip[t].scooter] = f
                                  /\ Stats!Read(t) \in Stats!TripRows /\ Stats!Read(t).id = t
  <2>1. ASSUME NEW t \in Stats!TripsOf(f)
        PROVE  /\ t \in Trips /\ trip[t].pc \in {"riding", "over"} /\ home[trip[t].scooter] = f
               /\ Stats!Read(t) \in Stats!TripRows /\ Stats!Read(t).id = t
    <3>1. t \in Trips /\ trip[t].pc \in {"riding", "over"} /\ home[trip[t].scooter] = f
      BY DEF Stats!TripsOf, Stats!Standing
    <3>2. /\ trip[t].price \in Prices \cup {0} /\ trip[t].bonuses \in Bonuses \cup {0}
          /\ trip[t].tariff \in Tariffs
      BY <3>1 DEF StatsInv, Stats!TypeOK, Stats!TripType
    <3>3. boarding[trip[t].tariff] \in Boardings \cup {None}
      BY <3>2 DEF StatsInv, Stats!TypeOK
    <3> QED
      BY <3>1, <3>2, <3>3 DEF Stats!Read, Stats!TripRows
  <2> QED
    BY <2>1
<1>5. UNCHANGED <<home, boarding, trip, due, moved>>
  BY <1>1 DEF Stats!rows
<1>6. \A r \in rows : r.id \in Stats!TripsOf(f) /\ r = Stats!Read(r.id)
  BY <1>4
<1>7. \A r \in rows : Owns(f, r.id)' /\ r = Stats!Read(r.id)' /\ trip'[r.id].pc \in {"riding", "over"}
  BY <1>4, <1>5, <1>6 DEF Owns, Stats!Read
<1>8. Stats!PaidNow(f)' = Stats!PaidNow(f) /\ Stats!PaidNow(f) \subseteq Stats!Dues
  BY <1>5 DEF Stats!PaidNow
<1> HIDE DEF rows
<1>9. ReadInv(k)'
  <2>1. /\ report'[k].pc = "trips" /\ report'[k].trips = rows /\ report'[k].franchise = f
        /\ report'[k].first = Stats!PaidNow(f) /\ report'[k].gone = {}
    BY <1>3
  <2>2. \A r, q \in rows : r.id = q.id => r = q
    BY <1>6
  <2>3. report'[k].first \ report'[k].gone \subseteq Stats!PaidNow(f)'
    BY <1>8, <2>1
  <2>4. \A r \in report'[k].trips : Owns(f, r.id)' /\ r = Stats!Read(r.id)'
                                    /\ trip'[r.id].pc \in {"riding", "over"}
    BY <1>7, <2>1
  <2> QED
    BY <2>1, <2>2, <2>3, <2>4 DEF ReadInv
<1>10. rows \subseteq Stats!TripRows
  BY <1>4 DEF rows
<1>11. report'[k] \in Stats!ReportType
  BY <1>3, <1>8, <1>10 DEF Stats!Pcs, Stats!ReportType
<1>12. report' = [report EXCEPT ![k] = report'[k]]
  BY <1>1, <1>2 DEF rows
<1> QED
  BY <1>1, <1>9, <1>11, <1>12, ReadsOfOne

LEMMA ReadDuesStep ==
  ASSUME StatsInv, NEW k \in Handlers, Stats!ReadFines(k) \/ Stats!ReadDebts(k)
  PROVE  StatsInv'
<1>1. report[k] \in Stats!ReportType /\ ReadInv(k)
  BY DEF StatsInv, Stats!TypeOK
<1>2. UNCHANGED Stats!rows
  BY DEF Stats!ReadFines, Stats!ReadDebts
<1>3. UNCHANGED <<home, boarding, trip, due, moved>>
  BY <1>2 DEF Stats!rows
<1>4. PICK f, trips, fines, debts, readFines, readDebts :
        /\ f = report[k].franchise /\ trips = report[k].trips
        /\ fines = report[k].fines /\ debts = report[k].debts
        /\ readFines = Stats!DuesOf(f, Fines) /\ readDebts = Stats!DuesOf(f, Debts)
  OBVIOUS
<1>5. /\ readFines \subseteq Stats!DueRows(Fines) /\ readDebts \subseteq Stats!DueRows(Debts)
      /\ readFines = Stats!DuesOf(f, Fines)' /\ readDebts = Stats!DuesOf(f, Debts)'
  BY <1>3, <1>4 DEF StatsInv, Stats!TypeOK, Stats!DuesOf, Stats!DueRows, Stats!Dues
<1>6. Stats!PaidNow(f)' = Stats!PaidNow(f)
  BY <1>3 DEF Stats!PaidNow
<1>7. Counts(k, readFines, Fines) /\ Counts(k, readDebts, Debts)
  <2>1. /\ Stats!Ids(Stats!Paid(readFines)) = Stats!PaidNow(f) \cap Fines
        /\ Stats!Ids(Stats!Paid(readDebts)) = Stats!PaidNow(f) \cap Debts
    BY <1>4, ReadsPaid
  <2>2. report[k].first \ report[k].gone \subseteq Stats!PaidNow(f)
    BY <1>1, <1>4 DEF ReadInv
  <2> QED
    BY <1>4, <2>1, <2>2 DEF Counts
<1>8. ASSUME NEW read, NEW kind, Counts(k, read, kind), report'[k].first = report[k].first,
             report'[k].gone = report[k].gone, report'[k].franchise = f
      PROVE  Counts(k, read, kind)'
  <2>1. /\ (report'[k].first \cap kind) \ report'[k].gone \subseteq Stats!Ids(Stats!Paid(read))
        /\ Stats!Ids(Stats!Paid(read)) \ report'[k].gone \subseteq Stats!PaidNow(f)'
    BY <1>4, <1>6, <1>8 DEF Counts
  <2> QED
    BY <1>8, <2>1 DEF Counts, Stats!PaidNow, Stats!Ids, Stats!Paid
<1>9. \A r \in trips : /\ Owns(f, r.id)'
                       /\ report[k].calm => r = Stats!Read(r.id)' /\ trip'[r.id].pc \in {"riding", "over"}
  BY <1>1, <1>3, <1>4 DEF ReadInv, Owns, Stats!Read
<1>10. /\ \A r, q \in trips : r.id = q.id => r = q
       /\ report[k].first \ report[k].gone \subseteq Stats!PaidNow(f)'
  BY <1>1, <1>4, <1>6 DEF ReadInv
<1>11. CASE Stats!ReadFines(k)
  <2>1. report'[k] = [report[k] EXCEPT !.pc = "fines", !.fines = readFines]
        /\ report' = [report EXCEPT ![k] = report'[k]]
    BY <1>4, <1>11 DEF Stats!ReadFines, StatsInv, Stats!TypeOK
  <2>2. /\ report'[k] \in Stats!ReportType /\ report'[k].pc = "fines"
        /\ report'[k].fines = readFines /\ report'[k].trips = trips /\ report'[k].franchise = f
        /\ report'[k].calm = report[k].calm /\ report'[k].first = report[k].first
        /\ report'[k].gone = report[k].gone
    BY <1>1, <1>4, <1>5, <2>1 DEF Stats!Pcs, Stats!ReportType
  <2>3. Counts(k, readFines, Fines)'
    BY <1>7, <1>8, <2>2
  <2>4. ReadInv(k)'
    BY <1>5, <1>9, <1>10, <2>2, <2>3 DEF ReadInv
  <2> QED
    BY <1>2, <2>1, <2>2, <2>4, ReadsOfOne
<1>12. CASE Stats!ReadDebts(k)
  <2>1. PICK p \in {"failed", "answered"} :
          /\ report'[k] = [report[k] EXCEPT !.debts = readDebts, !.pc = p]
          /\ report' = [report EXCEPT ![k] = report'[k]]
    BY <1>4, <1>12 DEF Stats!ReadDebts, StatsInv, Stats!TypeOK
  <2>2. /\ report'[k] \in Stats!ReportType /\ report'[k].pc = p
        /\ report'[k].debts = readDebts /\ report'[k].fines = fines
        /\ report'[k].trips = trips /\ report'[k].franchise = f
        /\ report'[k].calm = report[k].calm /\ report'[k].first = report[k].first
        /\ report'[k].gone = report[k].gone
    BY <1>1, <1>4, <1>5, <2>1 DEF Stats!Pcs, Stats!ReportType
  <2>3. report[k].pc = "fines"
    BY <1>12 DEF Stats!ReadDebts
  <2>4. Counts(k, readDebts, Debts)'
    BY <1>7, <1>8, <2>2
  <2>5. Counts(k, fines, Fines) /\ (report[k].calm => fines = readFines)
    BY <1>1, <1>4, <2>3 DEF ReadInv
  <2>6. Counts(k, fines, Fines)'
    BY <1>8, <2>2, <2>5
  <2>7. ReadInv(k)'
    BY <1>5, <1>9, <1>10, <2>2, <2>4, <2>5, <2>6 DEF ReadInv
  <2> QED
    BY <1>2, <2>1, <2>2, <2>7, ReadsOfOne
<1> QED
  BY <1>11, <1>12

\* A query fails, or the answer is sent: the report is over.
LEMMA ReportEndsStep ==
  ASSUME StatsInv, NEW k \in Handlers, Stats!QueryFails(k) \/ Stats!Discard(k)
  PROVE  StatsInv'
<1>1. /\ UNCHANGED Stats!rows /\ report' = [report EXCEPT ![k] = Stats!Idle]
      /\ report'[k] = Stats!Idle
  BY DEF Stats!QueryFails, Stats!Discard, StatsInv, Stats!TypeOK
<1>2. report'[k] \in Stats!ReportType
  <2>1. report'[k] = [pc |-> "idle", franchise |-> None, trips |-> {}, fines |-> {},
                      debts |-> {}, calm |-> FALSE, first |-> {}, gone |-> {}]
    BY <1>1 DEF Stats!Idle
  <2> QED
    BY <2>1 DEF Stats!Pcs, Stats!ReportType
<1>3. ReadInv(k)'
  BY <1>1 DEF ReadInv, Stats!Idle
<1>4. report' = [report EXCEPT ![k] = report'[k]]
  BY <1>1
<1> QED
  BY <1>1, <1>2, <1>3, <1>4, ReadsOfOne

LEMMA StatsStep == StatsInv /\ [Stats!Next]_(Stats!vars) => StatsInv'
<1> SUFFICES ASSUME StatsInv, [Stats!Next]_(Stats!vars) PROVE StatsInv'
  OBVIOUS
<1>1. CASE UNCHANGED Stats!vars
  BY <1>1 DEF Stats!vars, Stats!rows, StatsInv, Stats!TypeOK, TripInv, ReadInv, WaivedInv,
       Owns, Counts, Stats!Genuine, Stats!Read, Stats!DuesOf, Stats!PaidNow
<1>2. CASE Stats!Next
  BY <1>2, StartTripStep, EndTripStep, BookTripStep, EditTripStep, RemoveRowStep, DueMovesStep,
     OwnerOrTariffStep, ReadTripsStep, ReadDuesStep, ReportEndsStep DEF Stats!Next
<1> QED
  BY <1>1, <1>2

\* A report that nothing disturbs counts every row it should, once, as it is.
LEMMA ChargesAreByRow == StatsInv => ChargesByRow
<1> SUFFICES ASSUME StatsInv, NEW k \in Handlers,
                    Stats!Answered(k), report[k].calm,
                    \A t \in Stats!Ids(report[k].trips) : Stats!Genuine(t)
             PROVE  Accounted(k)
  BY DEF ChargesByRow
<1> USE MCPaymentsAssumption DEF Stats!ReportsAssumption
<1>1. ReadInv(k) /\ report[k].trips \subseteq Stats!TripRows
      /\ report[k].pc = "answered"
  BY DEF StatsInv, Stats!TypeOK, Stats!Answered, Stats!ReportType
<1>2. \A r, q \in report[k].trips : r.id = q.id => r = q
  BY <1>1 DEF ReadInv
<1>3. ASSUME NEW r \in report[k].trips
      PROVE  /\ Stats!MoneyOf(r) \in Nat
             /\ Stats!MoneyOf(r) + trip[r.id].again
                  = Stats!Booked(r.id) + Stats!Owing(r.id) + Stats!Boarded(r.id)
  <2>1. /\ r = Stats!Read(r.id) /\ trip[r.id].pc \in {"riding", "over"} /\ r.id \in Trips
        /\ Stats!Genuine(r.id)
    BY <1>1 DEF ReadInv, Stats!TripRows, Stats!Ids
  <2>2. PICK t \in Trips : t = r.id
    BY <2>1
  <2>3. r.price = trip[t].price /\ r.bonuses = trip[t].bonuses
        /\ r.boarding = boarding[trip[t].tariff]
    BY <2>1, <2>2 DEF Stats!Read
  <2>4. trip[t].board = boarding[trip[t].tariff] /\ trip[t].board \in Boardings
        /\ TripInv(t) /\ trip[t] \in Stats!TripType
    BY <2>1, <2>2 DEF StatsInv, Stats!TypeOK, TripInv
  <2>5. /\ trip[t].price \in Nat /\ trip[t].bonuses \in Nat /\ trip[t].board \in Nat
        /\ trip[t].share \in Nat /\ trip[t].again \in Nat /\ trip[t].booked \in Nat
    <3>1. /\ trip[t].price \in Prices \cup {0} /\ trip[t].bonuses \in Bonuses \cup {0}
          /\ trip[t].share \in Nat /\ trip[t].again \in Nat /\ trip[t].booked \in Nat
      BY <2>4 DEF Stats!TripType
    <3>2. trip[t].board \in Nat
      BY <2>4
    <3>3. (\A p \in Prices \cup {0} : p \in Nat) /\ \A b \in Bonuses \cup {0} : b \in Nat
      <4>1. Prices \subseteq Nat /\ Bonuses \subseteq Nat
        OBVIOUS
      <4> HIDE MCPaymentsAssumption
      <4>2. \A p \in Prices \cup {0} : p \in Nat
        BY <4>1
      <4>3. \A b \in Bonuses \cup {0} : b \in Nat
        BY <4>1
      <4> QED
        BY <4>2, <4>3
    <3> HIDE MCPaymentsAssumption
    <3> QED
      BY <3>1, <3>2, <3>3
  <2>6. Stats!MoneyOf(r) = trip[t].price - trip[t].bonuses + trip[t].board
    BY <2>3, <2>4 DEF Stats!MoneyOf
  <2>7. trip[t].booked + SumOf(trip[t].owed) = trip[t].share + trip[t].again
    BY <2>4 DEF TripInv
  <2>8. PICK owing \in Nat : owing = SumOf(trip[t].owed)
    <3>1. trip[t].owed \in [Handlers -> Nat]
      BY <2>4 DEF Stats!TripType
    <3> QED
      BY <3>1, OwedIsNatural
  <2>9. Stats!Booked(r.id) = trip[t].booked /\ Stats!Owing(r.id) = owing
        /\ trip[r.id].again = trip[t].again
    BY <2>2, <2>8, SameSum DEF Stats!Booked, Stats!Owing
  <2>10. CASE trip[t].pc = "riding"
    <3>1. Stats!Boarded(r.id) = trip[t].board
      BY <2>2, <2>10 DEF Stats!Boarded
    <3>2. trip[t].price = 0 /\ trip[t].bonuses = 0 /\ trip[t].share = 0
      BY <2>1, <2>2, <2>4, <2>10 DEF TripInv, Stats!Genuine
    <3> QED
      BY <2>5, <2>6, <2>7, <2>8, <2>9, <3>1, <3>2
  <2>11. CASE trip[t].pc = "over"
    <3>1. Stats!Boarded(r.id) = 0
      BY <2>2, <2>11 DEF Stats!Boarded
    <3>2. trip[t].price + trip[t].board = trip[t].share + trip[t].bonuses
      BY <2>1, <2>2, <2>4, <2>11 DEF TripInv, Stats!Genuine
    <3> QED
      BY <2>5, <2>6, <2>7, <2>8, <2>9, <3>1, <3>2
  <2> QED
    BY <2>1, <2>2, <2>10, <2>11
<1>4. Stats!Counted(k) = Stats!PaidNow(report[k].franchise)
  <2>1. /\ report[k].fines = Stats!DuesOf(report[k].franchise, Fines)
        /\ report[k].debts = Stats!DuesOf(report[k].franchise, Debts)
    BY <1>1 DEF ReadInv
  <2>2. Stats!PaidNow(report[k].franchise) \subseteq Fines \cup Debts
    BY DEF Stats!PaidNow, Stats!Dues
  <2> QED
    BY <2>1, <2>2, ReadsPaid DEF Stats!Counted
<1> QED
  BY <1>2, <1>3, <1>4 DEF Accounted

PaidRows(kind, f) == {d \in kind : due[d].status = "PAID" /\ due[d].initiator = f}

\* A report reads a fine or a debt once.
LEMMA DuesCounted ==
  ASSUME NEW kind, IsFiniteSet(kind), NEW f
  PROVE  /\ IsFiniteSet(PaidRows(kind, f))
         /\ Cardinality(Stats!Paid(Stats!DuesOf(f, kind))) = Cardinality(PaidRows(kind, f))
<1> DEFINE S == PaidRows(kind, f)
           T == Stats!Paid(Stats!DuesOf(f, kind))
           b == [d \in S |-> [id |-> d, status |-> due[d].status]]
<1>1. IsFiniteSet(S)
  BY FS_Subset DEF PaidRows
<1>2. ASSUME NEW d \in S PROVE b[d] \in T /\ b[d].id = d
  <2>1. b[d] = [id |-> d, status |-> due[d].status] /\ b[d].status = "PAID"
    BY DEF PaidRows
  <2>2. [id |-> d, status |-> due[d].status] \in Stats!DuesOf(f, kind)
    BY DEF PaidRows, Stats!DuesOf
  <2> QED
    BY <2>1, <2>2 DEF Stats!Paid
<1>3. ASSUME NEW r \in T PROVE \E d \in S : b[d] = r
  <2>1. r \in Stats!DuesOf(f, kind) /\ r.status = "PAID"
    BY DEF Stats!Paid
  <2>2. PICK d \in {e \in kind : due[e].initiator = f} : r = [id |-> d, status |-> due[d].status]
    BY <2>1 DEF Stats!DuesOf
  <2>3. d \in S
    BY <2>1, <2>2 DEF PaidRows
  <2> QED
    BY <2>2, <2>3
<1>4. b \in Bijection(S, T)
  <2>1. b \in [S -> T]
    BY <1>2
  <2> HIDE DEF b, S, T
  <2> QED
    BY <1>2, <1>3, <2>1 DEF Bijection, Injection, Surjection, IsInjective
<1> HIDE DEF b, S, T
<1>5. Cardinality(T) = Cardinality(S)
  BY <1>1, <1>4, FS_Bijection DEF ExistsBijection
<1> QED
  BY <1>1, <1>5 DEF S, T

\* What is paid is what was paid with money and what the CRM closed.
LEMMA DuesExplained ==
  ASSUME StatsInv, NEW f
  PROVE  LET fines  == Stats!Sum(Stats!Paid(Stats!DuesOf(f, Fines)))
             debts  == Stats!Sum(Stats!Paid(Stats!DuesOf(f, Debts)))
             money  == Stats!Sum(PaidRows(Stats!Dues \ waived, f))
             closed == Stats!Sum({d \in waived : due[d].initiator = f})
         IN  /\ fines + debts = money + closed
             /\ fines \in Nat /\ debts \in Nat /\ money \in Nat /\ closed \in Nat
<1>1. /\ IsFiniteSet(Fines) /\ IsFiniteSet(Debts) /\ Fines \cap Debts = {} /\ DuePrice \in Nat
  <2>1. IsFiniteSet(Trips \cup Stats!Dues)
    BY MCPaymentsAssumption DEF Stats!ReportsAssumption, Stats!IsFiniteSet, IsFiniteSet
  <2> QED
    BY <2>1, FS_Subset, MCPaymentsAssumption DEF Stats!ReportsAssumption, Stats!Dues
<1> DEFINE F == PaidRows(Fines, f)
           D == PaidRows(Debts, f)
           M == PaidRows(Stats!Dues \ waived, f)
           W == {d \in waived : due[d].initiator = f}
<1>2. waived \subseteq Fines /\ \A d \in waived : due[d].status = "PAID"
  BY DEF StatsInv, WaivedInv, Stats!TypeOK
<1>3. /\ F \cup D = M \cup W /\ F \cap D = {} /\ M \cap W = {}
  BY <1>1, <1>2 DEF PaidRows, Stats!Dues
<1>4. /\ IsFiniteSet(F) /\ Cardinality(Stats!Paid(Stats!DuesOf(f, Fines))) = Cardinality(F)
      /\ IsFiniteSet(D) /\ Cardinality(Stats!Paid(Stats!DuesOf(f, Debts))) = Cardinality(D)
  BY <1>1, DuesCounted
<1>5. \A S : Stats!Sum(S) = DuePrice * Cardinality(S)
  BY DEF Stats!Sum, Stats!Cardinality, Cardinality
<1> HIDE DEF F, D, M, W
<1>6. IsFiniteSet(F \cup D) /\ Cardinality(F \cup D) = Cardinality(F) + Cardinality(D) - Cardinality(F \cap D)
  BY <1>4, FS_Union
<1>7. IsFiniteSet(M) /\ IsFiniteSet(W)
  <2>1. IsFiniteSet(M \cup W) /\ M \in SUBSET (M \cup W) /\ W \in SUBSET (M \cup W)
    BY <1>3, <1>6
  <2> QED
    BY <2>1, FS_Subset
<1>8. Cardinality(M \cup W) = Cardinality(M) + Cardinality(W) - Cardinality(M \cap W)
  BY <1>7, FS_Union
<1>9. /\ Cardinality(F) \in Nat /\ Cardinality(D) \in Nat
      /\ Cardinality(M) \in Nat /\ Cardinality(W) \in Nat
      /\ Cardinality(F \cap D) = 0 /\ Cardinality(M \cap W) = 0
  <2>1. /\ Cardinality(F) \in Nat /\ Cardinality(D) \in Nat
        /\ Cardinality(M) \in Nat /\ Cardinality(W) \in Nat
    BY <1>4, <1>7, FS_CardinalityType
  <2>2. Cardinality(F \cap D) = 0 /\ Cardinality(M \cap W) = 0
    BY <1>3, FS_EmptySet
  <2> QED
    BY <2>1, <2>2
<1>10. Cardinality(F) + Cardinality(D) = Cardinality(M) + Cardinality(W)
  <2>1. Cardinality(F \cup D) = Cardinality(M \cup W)
    BY <1>3
  <2>2. Cardinality(F \cup D) = Cardinality(F) + Cardinality(D)
    BY <1>6, <1>9
  <2>3. Cardinality(M \cup W) = Cardinality(M) + Cardinality(W)
    BY <1>8, <1>9
  <2> QED
    BY <2>1, <2>2, <2>3
<1>11. ASSUME NEW a \in Nat, NEW b \in Nat, NEW c \in Nat, NEW d \in Nat, a + b = c + d
       PROVE  DuePrice * a + DuePrice * b = DuePrice * c + DuePrice * d
  <2>1. DuePrice * (a + b) = DuePrice * (c + d)
    BY <1>11
  <2>2. DuePrice * (a + b) = DuePrice * a + DuePrice * b
    BY <1>1
  <2>3. DuePrice * (c + d) = DuePrice * c + DuePrice * d
    BY <1>1
  <2> QED
    BY <2>1, <2>2, <2>3
<1>12. DuePrice * Cardinality(F) + DuePrice * Cardinality(D)
         = DuePrice * Cardinality(M) + DuePrice * Cardinality(W)
  BY <1>9, <1>10, <1>11
<1>13. \A n \in Nat : DuePrice * n \in Nat
  BY <1>1
<1>14. /\ DuePrice * Cardinality(F) \in Nat /\ DuePrice * Cardinality(D) \in Nat
       /\ DuePrice * Cardinality(M) \in Nat /\ DuePrice * Cardinality(W) \in Nat
  BY <1>9, <1>13
<1> QED
  BY <1>4, <1>5, <1>12, <1>14 DEF M, W

\* The trips of a report, each counted once.
LEMMA TripsExplained ==
  ASSUME StatsInv, NEW k \in Handlers, Accounted(k)
  PROVE  LET ids   == Stats!Ids(report[k].trips)
             all   == SumOf([r \in report[k].trips |-> Stats!MoneyOf(r)])
             former == SumOf([t \in ids |-> trip[t].again])
             entered == SumOf([t \in ids |-> Stats!Booked(t)])
             other == SumOf([t \in ids |-> Stats!Owing(t) + Stats!Boarded(t)])
         IN  /\ all + former = entered + other
             /\ all \in Nat /\ former \in Nat /\ entered \in Nat /\ other \in Nat
<1> DEFINE R == report[k].trips
           I == Stats!Ids(R)
           f == [r \in R |-> Stats!MoneyOf(r)]
           a == [t \in I |-> trip[t].again]
           c == [t \in I |-> Stats!Booked(t)]
           o == [t \in I |-> Stats!Owing(t) + Stats!Boarded(t)]
           m == [t \in I |-> Stats!Booked(t) + (Stats!Owing(t) + Stats!Boarded(t)) - trip[t].again]
           g == [t \in I |-> Stats!Booked(t) + (Stats!Owing(t) + Stats!Boarded(t))]
           h == [r \in R |-> r.id]
<1>1. /\ R \subseteq Stats!TripRows /\ I \subseteq Trips
      /\ \A r \in R : r.id \in I
      /\ \A t \in I : \E r \in R : r.id = t
  BY DEF StatsInv, Stats!TypeOK, Stats!ReportType, Stats!TripRows, Stats!Ids
<1>2. IsFiniteSet(I)
  <2>1. IsFiniteSet(Trips \cup Stats!Dues)
    BY MCPaymentsAssumption DEF Stats!ReportsAssumption, Stats!IsFiniteSet, IsFiniteSet
  <2> QED
    BY <1>1, <2>1, FS_Subset
<1>3. \A r, q \in R : r.id = q.id => r = q
  BY DEF Accounted
<1>4. h \in Bijection(R, I)
  <2>1. h \in [R -> I] /\ \A r \in R : h[r] = r.id
    BY <1>1
  <2> HIDE DEF h, I, R
  <2> QED
    BY <1>1, <1>3, <2>1 DEF Bijection, Injection, Surjection, IsInjective
<1>5. ASSUME NEW t \in Trips
      PROVE  /\ Stats!Booked(t) \in Nat /\ Stats!Owing(t) \in Nat /\ Stats!Boarded(t) \in Nat
             /\ trip[t].again \in Nat
  <2>1. trip[t] \in Stats!TripType
    BY DEF StatsInv, Stats!TypeOK
  <2>2. /\ trip[t].owed \in [Handlers -> Nat] /\ trip[t].booked \in Nat /\ trip[t].again \in Nat
        /\ trip[t].board \in Boardings \cup {0}
    BY <2>1 DEF Stats!TripType
  <2>3. trip[t].board \in Nat
    BY <2>2, MCPaymentsAssumption DEF Stats!ReportsAssumption
  <2>4. Stats!Owing(t) \in Nat
    BY <2>2, OwedIsNatural, SameSum DEF Stats!Owing
  <2> QED
    BY <2>2, <2>3, <2>4 DEF Stats!Booked, Stats!Boarded
<1>6. \A r \in R : Stats!MoneyOf(r) \in Nat
  BY DEF Accounted
<1>7. \A r \in R : Stats!MoneyOf(r) = m[r.id] /\ m[r.id] \in Nat
  <2>1. ASSUME NEW r \in R PROVE Stats!MoneyOf(r) = m[r.id] /\ m[r.id] \in Nat
    <3>1. r.id \in I /\ r.id \in Trips
      BY <1>1
    <3>2. Stats!MoneyOf(r) + trip[r.id].again
            = Stats!Booked(r.id) + Stats!Owing(r.id) + Stats!Boarded(r.id)
      BY DEF Accounted
    <3>3. /\ Stats!Booked(r.id) \in Nat /\ Stats!Owing(r.id) \in Nat /\ Stats!Boarded(r.id) \in Nat
          /\ trip[r.id].again \in Nat /\ Stats!MoneyOf(r) \in Nat
      BY <1>5, <1>6, <3>1
    <3>4. m[r.id] = Stats!Booked(r.id) + (Stats!Owing(r.id) + Stats!Boarded(r.id)) - trip[r.id].again
      BY <3>1
    <3> QED
      BY <3>2, <3>3, <3>4
  <2> QED
    BY <2>1
<1>8. Natural(a) /\ Natural(c) /\ Natural(o) /\ Natural(g) /\ Natural(m)
  <2>1. Natural(a) /\ Natural(c) /\ Natural(o) /\ Natural(g)
    BY <1>1, <1>5 DEF Natural
  <2>2. \A t \in I : m[t] \in Nat
    BY <1>1, <1>7
  <2> QED
    BY <2>1, <2>2 DEF Natural
<1>9. \A x : At(g, x) = At(c, x) + At(o, x)
  BY DEF At
<1>10. \A x : At(g, x) = At(m, x) + At(a, x)
  <2>1. ASSUME NEW t \in I PROVE g[t] = m[t] + a[t]
    <3>1. /\ Stats!Booked(t) \in Nat /\ Stats!Owing(t) \in Nat /\ Stats!Boarded(t) \in Nat
          /\ trip[t].again \in Nat
      BY <1>1, <1>5
    <3> QED
      BY <3>1
  <2> QED
    BY <2>1 DEF At
<1>11. \A r \in R : m[h[r]] = f[r]
  BY <1>7
<1>12. DOMAIN f = R /\ DOMAIN g = I /\ DOMAIN c = I /\ DOMAIN o = I /\ DOMAIN m = I /\ DOMAIN a = I
  OBVIOUS
<1>13. Natural(f)
  BY <1>6 DEF Natural
<1> HIDE DEF f, a, c, o, m, g, h, I
<1>14. IsFiniteSet(R)
  <2>1. h \in Injection(R, I)
    BY <1>4 DEF Bijection
  <2> QED
    BY <1>2, <2>1, FS_Injection
<1>15. IsFiniteSet(Units(f)) /\ IsFiniteSet(Units(c)) /\ IsFiniteSet(Units(o)) /\ IsFiniteSet(Units(a))
  BY <1>2, <1>8, <1>12, <1>13, <1>14, FiniteSum
<1>16. IsFiniteSet(Units(m)) /\ SumOf(m) = SumOf(f)
  BY <1>4, <1>8, <1>11, <1>12, <1>13, <1>15, SumReindexed
<1>17. SumOf(g) = SumOf(c) + SumOf(o)
  BY <1>8, <1>9, <1>15, SumAdded
<1>18. SumOf(g) = SumOf(m) + SumOf(a)
  BY <1>8, <1>10, <1>15, <1>16, SumAdded
<1>19. SumOf(c) \in Nat /\ SumOf(o) \in Nat /\ SumOf(f) \in Nat /\ SumOf(a) \in Nat
  BY <1>8, <1>13, <1>15, NaturalSum
<1>20. SumOf(f) + SumOf(a) = SumOf(c) + SumOf(o)
  BY <1>16, <1>17, <1>18
<1> QED
  BY <1>19, <1>20 DEF f, a, c, o, I

LEMMA ChargesAddUp == StatsInv => Stats!ChargesExplained
<1> SUFFICES ASSUME StatsInv, NEW k \in Handlers,
                    Stats!Answered(k), report[k].calm,
                    \A t \in Stats!Ids(report[k].trips) : Stats!Genuine(t)
             PROVE  Stats!AmountOfCharges(k)
                      + Stats!SumOf([t \in Stats!Ids(report[k].trips) |-> trip[t].again]) =
                      Stats!SumOf([t \in Stats!Ids(report[k].trips) |-> Stats!Booked(t)])
                        + Stats!SumOf([t \in Stats!Ids(report[k].trips) |->
                                         Stats!Owing(t) + Stats!Boarded(t)])
                        + Stats!Sum(Stats!PaidNow(report[k].franchise) \ waived)
                        + Stats!Sum({d \in waived : due[d].initiator = report[k].franchise})
  BY DEF Stats!ChargesExplained
<1> DEFINE fr     == report[k].franchise
           ids    == Stats!Ids(report[k].trips)
           fines  == Stats!Sum(Stats!Paid(Stats!DuesOf(fr, Fines)))
           debts  == Stats!Sum(Stats!Paid(Stats!DuesOf(fr, Debts)))
           money  == Stats!Sum(PaidRows(Stats!Dues \ waived, fr))
           closed == Stats!Sum({d \in waived : due[d].initiator = fr})
           all    == SumOf([r \in report[k].trips |-> Stats!MoneyOf(r)])
           former  == SumOf([t \in ids |-> trip[t].again])
           entered == SumOf([t \in ids |-> Stats!Booked(t)])
           other  == SumOf([t \in ids |-> Stats!Owing(t) + Stats!Boarded(t)])
<1>1. report[k].fines = Stats!DuesOf(fr, Fines) /\ report[k].debts = Stats!DuesOf(fr, Debts)
  BY DEF StatsInv, ReadInv, Stats!Answered
<1>2. Accounted(k)
  BY ChargesAreByRow DEF ChargesByRow
<1>3. /\ fines + debts = money + closed
      /\ fines \in Nat /\ debts \in Nat /\ money \in Nat /\ closed \in Nat
  BY DuesExplained
<1>4. all + former = entered + other /\ all \in Nat /\ former \in Nat /\ entered \in Nat /\ other \in Nat
  BY <1>2, TripsExplained
<1>5. Stats!AmountOfCharges(k) = all + fines + debts
  BY <1>1, SameSum DEF Stats!AmountOfCharges
<1>6. Stats!Sum(Stats!PaidNow(fr) \ waived) = money
  <2>1. Stats!PaidNow(fr) \ waived = PaidRows(Stats!Dues \ waived, fr)
    BY DEF Stats!PaidNow, PaidRows
  <2> QED
    BY <2>1
<1>7. /\ Stats!SumOf([t \in ids |-> trip[t].again]) = former
      /\ Stats!SumOf([t \in ids |-> Stats!Booked(t)]) = entered
      /\ Stats!SumOf([t \in ids |-> Stats!Owing(t) + Stats!Boarded(t)]) = other
  BY SameSum
<1> HIDE DEF fines, debts, money, all, former, entered, other, closed
<1>8. (all + fines + debts) + former = entered + other + money + closed
  BY <1>3, <1>4
<1> QED
  BY <1>5, <1>6, <1>7, <1>8 DEF closed

LEMMA CountsWhatIsPaidHolds == StatsInv => Stats!CountsWhatIsPaid
<1> SUFFICES ASSUME StatsInv, NEW k \in Handlers, Stats!Answered(k)
             PROVE  /\ report[k].first \ report[k].gone \subseteq Stats!Counted(k)
                    /\ Stats!Counted(k) \ report[k].gone \subseteq Stats!PaidNow(report[k].franchise)
  BY DEF Stats!CountsWhatIsPaid
<1>1. /\ Counts(k, report[k].fines, Fines) /\ Counts(k, report[k].debts, Debts)
      /\ report[k].first \ report[k].gone \subseteq Stats!PaidNow(report[k].franchise)
  BY DEF StatsInv, ReadInv, Stats!Answered
<1>2. Stats!PaidNow(report[k].franchise) \subseteq Fines \cup Debts
  BY DEF Stats!PaidNow, Stats!Dues
<1> QED
  BY <1>1, <1>2 DEF Counts, Stats!Counted

LEMMA CreditedOnceHolds == StatsInv => Stats!CreditedOnce
<1> SUFFICES ASSUME StatsInv, NEW k \in Handlers, NEW l \in Handlers,
                    report[k].franchise # report[l].franchise,
                    NEW t \in Stats!Ids(report[k].trips) \cap Stats!Ids(report[l].trips)
             PROVE  trip[t].patched \/ trip[t].scooter \in moved
  BY DEF Stats!CreditedOnce
<1>1. ReadInv(k) /\ ReadInv(l)
  BY DEF StatsInv
<1>2. Owns(report[k].franchise, t) /\ Owns(report[l].franchise, t)
  BY <1>1 DEF ReadInv, Stats!Ids
<1> QED
  BY <1>2 DEF Owns

\* A behaviour of the composition is one of each of its parts.
LEMMA RunsReceipts == RunSpec => Receipt!Spec
<1>1. RunInit => Receipt!Init
  BY DEF RunInit
<1>2. [RunNext]_<<part, vars, otherVars>> => [Receipt!Next]_(Receipt!vars)
  BY DEF RunNext, otherVars, receiptVars, Receipt!vars, Receipt!tripVars
<1> QED
  BY <1>1, <1>2, PTL DEF RunSpec, Receipt!Spec

LEMMA RunsStats == RunSpec => Stats!Spec
<1>1. RunInit => Stats!Init
  BY DEF RunInit
<1>2. [RunNext]_<<part, vars, otherVars>> => [Stats!Next]_(Stats!vars)
  BY DEF RunNext, ReportsNext, otherVars, reportVars, Stats!vars, Stats!rows
<1> QED
  BY <1>1, <1>2, PTL DEF RunSpec, Stats!Spec

LEMMA RunsRenewals == RunSpec => Spec
<1>1. RunInit => Init
  BY DEF RunInit
<1>2. [RunNext]_<<part, vars, otherVars>> => [Next]_vars
  BY DEF RunNext, ReportsNext
<1> QED
  BY <1>1, <1>2, PTL DEF RunSpec, Spec

\* What the ends of a trip and the webhooks keep between them.
THEOREM ReceiptInductive == Receipt!Spec => []ReceiptInv
  BY ReceiptInit, ReceiptStep, PTL DEF Receipt!Spec

\* A trip shows the receipt of a charge of that very trip, and the one its row
\* names unless two calls ended it, for any number of trips, calls and webhooks.
THEOREM ReceiptIsOfOwnCharge == RunSpec => []ReceiptOfOwnCharge
<1>1. ReceiptInv => ReceiptOfOwnCharge
  BY DEF ReceiptInv, ReceiptOfOwnCharge
<1> QED
  BY <1>1, RunsReceipts, ReceiptInductive, PTL

\* What the reports have read, and how it relates to the rows.
THEOREM StatsInductive == Stats!Spec => []StatsInv
  BY StatsInit, StatsStep, PTL DEF Stats!Spec

\* The charges of a report that nothing disturbs, row by row, when nobody edited
\* its trips or tariffs: each trip once, as what was booked for it, what its calls
\* owe or its boarding, less what was left by ends that another wrote over; and
\* the fines and debts that are paid.
THEOREM ChargesCountEachRow == RunSpec => []ChargesByRow
  BY RunsStats, StatsInductive, ChargesAreByRow, PTL

\* No trip is credited to two franchises unless its scooter changed hands or its
\* row was given another one.
THEOREM TripIsCreditedOnce == RunSpec => []Stats!CreditedOnce
  BY RunsStats, StatsInductive, CreditedOnceHolds, PTL

\* What a report adds up is accounted for by the Payment rows of its trips and the
\* paid fines and debts, the shares not booked, the boarding of rides under way and
\* the fines closed without money, less the ends written over; and it counts the
\* dues that are paid, whatever happens between its queries; for any number of
\* trips, calls, fines and debts at any prices.
THEOREM ReportsAreExplained == RunSpec => []ReportsAddUp
<1>1. StatsInv => ReportsAddUp
  BY ChargesAddUp, CountsWhatIsPaidHolds, CreditedOnceHolds DEF ReportsAddUp
<1> QED
  BY <1>1, RunsStats, StatsInductive, PTL

\* The types of the three parts, for any sets of their values.
THEOREM PaymentsTypesCorrect == RunSpec => []TypesOK
<1>1. TypeOK /\ ReceiptInv /\ StatsInv => TypesOK
  BY DEF TypesOK, ReceiptInv, StatsInv
<1> QED
  BY <1>1, RunsRenewals, RunsReceipts, RunsStats, RenewalsTypeCorrect, ReceiptInductive,
     StatsInductive, PTL
=============================================================================
