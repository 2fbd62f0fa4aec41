------------------------ MODULE PaymentMethodsProofs ------------------------
(* The safety of PaymentMethods for any cards, rows and handlers.          *)
EXTENDS PaymentMethods, TLAPS

USE PaymentMethodsAssumption
USE DEF rowVars, vars, Methods

(***************************************************************************)
(* The inductive invariant.                                                *)
(***************************************************************************)
\* A row shows the card it was paid with or none; before that it is not there.
RowInv ==
  \A m \in Methods :
    /\ paidWith[m] = NoCard => state[m] = "absent"
    /\ card[m] \in {NoCard, paidWith[m]}
    /\ state[m] \in {"active", "deleted"} => card[m] \in Cards
    /\ m \in Cloud => (hold[m] = "none" <=> paidWith[m] = NoCard)

\* Where a handler stands, and what it knows of its rows.
CallInv ==
  \A k \in Calls :
    LET c == call[k] IN
    /\ c.pc \in {"found", "updated", "duplicate", "deleted"} =>
         c.m \in Yoo /\ paidWith[c.m] # NoCard
    /\ c.pc \in {"sought", "created", "agreed"} => c.m \in Cloud /\ paidWith[c.m] # NoCard
    /\ c.pc = "duplicate" =>
         c.other \in Methods \ {c.m} /\ card[c.other] = paidWith[c.m]
    /\ c.pc = "paying" => c.m \in Methods /\ state[c.m] \in {"active", "deleted"}

Confirming(k) == call[k].pc \in {"updated", "duplicate"}

\* Two rows of one card between their updates and deletions are an overlap, and
\* the row of whoever overlapped nobody is still active.
PairInv ==
  \A k \in Calls : Confirming(k) /\ paidWith[call[k].m] \notin overlapped =>
    /\ state[call[k].m] = "active" /\ card[call[k].m] = paidWith[call[k].m]
    /\ \A l \in Calls : Confirming(l) /\ paidWith[call[l].m] = paidWith[call[k].m] =>
         call[l].m = call[k].m

IInv == TypeOK /\ RowInv /\ CallInv /\ PairInv /\ BoundStaysPayable

(***************************************************************************)
(* What the actions do to a handler                                        *)
(***************************************************************************)
LEMMA GotoIs ==
  ASSUME TypeOK, NEW k \in Calls, NEW from, NEW to \in CallPcs, Goto(k, from, to)
  PROVE  /\ call[k].pc = from
         /\ call'[k] = [pc |-> to, m |-> call[k].m, other |-> call[k].other, any |-> call[k].any]
         /\ \A l \in Calls \ {k} : call'[l] = call[l]
         /\ call' \in [Calls -> [pc : CallPcs, m : Methods \cup Foreign \cup {NoMethod},
                                 other : Methods \cup {NoMethod}, any : BOOLEAN]]
  BY DEF Goto, TypeOK

LEMMA ReturnIs ==
  ASSUME TypeOK, NEW k \in Calls, NEW from, Return(k, from)
  PROVE  /\ call[k].pc = from
         /\ call'[k].pc = "idle"
         /\ \A l \in Calls \ {k} : call'[l] = call[l]
         /\ call' \in [Calls -> [pc : CallPcs, m : Methods \cup Foreign \cup {NoMethod},
                                 other : Methods \cup {NoMethod}, any : BOOLEAN]]
  BY DEF Return, TypeOK, Idle, CallPcs

\* Rows that stay as they are, and handlers of which one at most moves, to a
\* program point that knows nothing, keep the invariant.
LEMMA QuietStep ==
  ASSUME IInv, NEW k \in Calls,
         UNCHANGED <<state, paidWith, card, hold, bound, overlapped>>,
         active' \in Methods \cup Foreign \cup {NoMethod},
         call' \in [Calls -> [pc : CallPcs, m : Methods \cup Foreign \cup {NoMethod},
                              other : Methods \cup {NoMethod}, any : BOOLEAN]],
         \A l \in Calls \ {k} : call'[l] = call[l],
         call'[k].pc \in {"idle", "asked"}
  PROVE  IInv'
<1>1. TypeOK'
  BY DEF IInv, TypeOK
<1>2. RowInv' /\ BoundStaysPayable'
  BY DEF IInv, RowInv, BoundStaysPayable
<1>3. CallInv'
  BY DEF IInv, CallInv
<1>4. PairInv'
  BY DEF IInv, PairInv, Confirming
<1> QED
  BY <1>1, <1>2, <1>3, <1>4 DEF IInv

(***************************************************************************)
(* YooKassa                                                                *)
(***************************************************************************)
LEMMA SaveKeeps ==
  ASSUME IInv, NEW m \in Methods, NEW c \in Cards, SaveMethod(m, c) PROVE IInv'
<1> USE DEF SaveMethod, SavePaymentMethod
<1>1. state[m] = "absent" /\ paidWith[m] = NoCard /\ card[m] = NoCard /\ m \notin Cloud
  BY DEF IInv, RowInv, TypeOK
<1>2. TypeOK'
  BY DEF IInv, TypeOK
<1>3. \A n \in Methods : n # m => state'[n] = state[n] /\ paidWith'[n] = paidWith[n]
  BY DEF IInv, TypeOK
<1>4. state'[m] = "inactive" /\ paidWith'[m] = c
  BY DEF IInv, TypeOK
<1>5. RowInv'
  BY <1>1, <1>3, <1>4 DEF IInv, RowInv
<1>6. \A k \in Calls : call[k].pc \in {"found", "updated", "duplicate", "deleted", "sought",
                                       "created", "agreed", "paying"} =>
                         call[k].m \in Methods /\ call[k].m # m
  BY <1>1 DEF IInv, CallInv
<1>7. CallInv'
  BY <1>3, <1>6 DEF IInv, CallInv
<1>8. PairInv'
  BY <1>3, <1>6 DEF IInv, PairInv, Confirming
<1>9. BoundStaysPayable'
  BY <1>1, <1>3 DEF IInv, BoundStaysPayable
<1> QED
  BY <1>2, <1>5, <1>7, <1>8, <1>9 DEF IInv

LEMMA FindKeeps ==
  ASSUME IInv, NEW k \in Calls, NEW m \in Methods, ConfirmFind(k, m) PROVE IInv'
<1> USE DEF ConfirmFind
<1>1. /\ call'[k] = [pc |-> "found", m |-> m, other |-> NoMethod, any |-> FALSE]
      /\ \A l \in Calls \ {k} : call'[l] = call[l]
  BY DEF IInv, TypeOK, Idle
<1>2. TypeOK'
  BY DEF IInv, TypeOK, Idle, CallPcs
<1>3. RowInv' /\ BoundStaysPayable'
  BY DEF IInv, RowInv, BoundStaysPayable
<1>4. paidWith[m] # NoCard /\ m \in Yoo
  BY DEF IInv, RowInv, Present
<1>5. CallInv'
  BY <1>1, <1>4 DEF IInv, CallInv
<1>6. PairInv'
  BY <1>1 DEF IInv, PairInv, Confirming
<1> QED
  BY <1>2, <1>3, <1>5, <1>6 DEF IInv

LEMMA UpdateKeeps ==
  ASSUME IInv, NEW k \in Calls, ConfirmUpdate(k) PROVE IInv'
<1> DEFINE m == call[k].m
<1> USE DEF ConfirmUpdate
<1>1. TypeOK /\ m \in Yoo /\ paidWith[m] \in Cards /\ call[k].pc = "found"
  BY DEF IInv, CallInv, TypeOK, Goto
<1>2. /\ call'[k] = [pc |-> "updated", m |-> m, other |-> call[k].other, any |-> call[k].any]
      /\ \A l \in Calls \ {k} : call'[l] = call[l]
      /\ call' \in [Calls -> [pc : CallPcs, m : Methods \cup Foreign \cup {NoMethod},
                              other : Methods \cup {NoMethod}, any : BOOLEAN]]
  BY <1>1, GotoIs DEF CallPcs
<1>3. /\ state' = [state EXCEPT ![m] = "active"] /\ card' = [card EXCEPT ![m] = paidWith[m]]
      /\ bound' = bound \cup {paidWith[m]} /\ UNCHANGED <<paidWith, hold, active>>
  OBVIOUS
<1>4. /\ state'[m] = "active" /\ card'[m] = paidWith[m]
      /\ \A n \in Methods : n # m => state'[n] = state[n] /\ card'[n] = card[n]
  BY <1>1, <1>3 DEF TypeOK
<1>5. /\ overlapped \subseteq overlapped' /\ overlapped' \subseteq Cards
      /\ Overlaps(k) => paidWith[m] \in overlapped'
  BY <1>1 DEF TypeOK
<1>6. TypeOK'
  BY <1>1, <1>2, <1>3, <1>5 DEF TypeOK
<1>7. RowInv'
  BY <1>1, <1>3, <1>4 DEF IInv, RowInv
<1>8. CallInv'
  <2>1. \A n \in Methods : card[n] # NoCard => card'[n] = card[n]
    BY <1>1, <1>4 DEF IInv, RowInv
  <2>2. \A n \in Methods : state'[n] = state[n] \/ state'[n] = "active"
    BY <1>4
  <2>3. ASSUME NEW l \in Calls, call'[l].pc = "duplicate"
        PROVE  /\ call'[l].other \in Methods \ {call'[l].m}
               /\ card'[call'[l].other] = paidWith[call'[l].m]
    <3>1. l # k /\ call'[l] = call[l]
      BY <1>2, <2>3
    <3>2. call[l].other \in Methods \ {call[l].m} /\ card[call[l].other] = paidWith[call[l].m]
          /\ paidWith[call[l].m] # NoCard
      BY <2>3, <3>1 DEF IInv, CallInv
    <3> QED
      BY <2>1, <3>1, <3>2
  <2>4. ASSUME NEW l \in Calls, call'[l].pc = "paying"
        PROVE  call'[l].m \in Methods /\ state'[call'[l].m] \in {"active", "deleted"}
    <3>1. l # k /\ call'[l] = call[l]
      BY <1>2, <2>4
    <3> QED
      BY <2>2, <2>4, <3>1 DEF IInv, CallInv
  <2>5. ASSUME NEW l \in Calls
        PROVE  /\ call'[l].pc \in {"found", "updated", "duplicate", "deleted"} =>
                    call'[l].m \in Yoo /\ paidWith[call'[l].m] # NoCard
               /\ call'[l].pc \in {"sought", "created", "agreed"} =>
                    call'[l].m \in Cloud /\ paidWith[call'[l].m] # NoCard
    <3>1. CASE l = k
      BY <1>1, <1>2, <3>1
    <3>2. CASE l # k
      BY <1>2, <3>2 DEF IInv, CallInv
    <3> QED
      BY <3>1, <3>2
  <2> QED
    BY <1>3, <2>3, <2>4, <2>5 DEF CallInv
<1>9. PairInv'
  <2>1. ASSUME NEW l \in Calls, l # k, Confirming(l)', paidWith[call[l].m] = paidWith[m]
        PROVE  call[l].m = m \/ paidWith[m] \in overlapped'
    BY <1>2, <1>5, <2>1 DEF Overlaps, Confirming
  <2>2. \A l \in Calls : Confirming(l) => call[l].m \in Methods
    BY DEF IInv, CallInv, Confirming
  <2> QED
    BY <1>2, <1>3, <1>4, <1>5, <2>1, <2>2 DEF IInv, PairInv, Confirming
<1>10. BoundStaysPayable'
  <2> SUFFICES ASSUME NEW c \in bound' \ overlapped'
               PROVE  \E n \in Methods : state'[n] = "active" /\ card'[n] = c
    BY DEF BoundStaysPayable
  <2>1. CASE c = paidWith[m]
    BY <1>1, <1>4, <2>1
  <2>2. CASE c # paidWith[m]
    <3>1. PICK n \in Methods : state[n] = "active" /\ card[n] = c
      BY <1>3, <1>5, <2>2 DEF IInv, BoundStaysPayable
    <3> QED
      BY <1>1, <1>4, <2>2, <3>1 DEF IInv, RowInv, TypeOK
  <2> QED
    BY <2>1, <2>2
<1> QED
  BY <1>6, <1>7, <1>8, <1>9, <1>10 DEF IInv

LEMMA ListKeeps ==
  ASSUME IInv, NEW k \in Calls, ConfirmList(k) PROVE IInv'
<1> DEFINE m == call[k].m
<1>0. /\ call[k].pc = "updated" /\ UNCHANGED <<state, paidWith, card, hold, active, bound, overlapped>>
      /\ call[k] \in [pc : CallPcs, m : Methods \cup Foreign \cup {NoMethod},
                      other : Methods \cup {NoMethod}, any : BOOLEAN]
  BY DEF ConfirmList, IInv, TypeOK
<1>1. CASE call' = [call EXCEPT ![k] = Idle]
  <2>1. Return(k, "updated")
    BY <1>0, <1>1 DEF Return
  <2> QED
    BY <1>0, <2>1, ReturnIs, QuietStep DEF IInv, TypeOK
<1>2. ASSUME NEW n \in SameCard(m) \ {m},
             call' = [call EXCEPT ![k].pc = "duplicate", ![k].other = n]
      PROVE  IInv'
  <2>1. n \in Methods \ {m} /\ card[n] = paidWith[m]
    BY DEF SameCard
  <2>4. /\ call'[k].pc = "duplicate" /\ call'[k].m = m /\ call'[k].other = n
        /\ \A l \in Calls \ {k} : call'[l] = call[l]
    BY <1>0, <1>2 DEF IInv, TypeOK
  <2>5. TypeOK'
    BY <1>0, <1>2, <2>1 DEF IInv, TypeOK, CallPcs
  <2>6. RowInv' /\ BoundStaysPayable'
    BY <1>0 DEF IInv, RowInv, BoundStaysPayable
  <2>7. CallInv'
    <3>1. m \in Yoo /\ paidWith[m] # NoCard
      BY <1>0 DEF IInv, CallInv
    <3>2. \A l \in Calls : l # k => call'[l] = call[l]
      BY <2>4
    <3>3. UNCHANGED <<paidWith, card, state>>
      BY <1>0
    <3> QED
      BY <2>1, <2>4, <3>1, <3>2, <3>3 DEF IInv, CallInv
  <2>8. PairInv'
    BY <1>0, <2>4 DEF IInv, PairInv, Confirming
  <2> QED
    BY <2>5, <2>6, <2>7, <2>8 DEF IInv
<1> QED
  BY <1>1, <1>2 DEF ConfirmList

LEMMA DeleteKeeps ==
  ASSUME IInv, NEW k \in Calls, ConfirmDelete(k) PROVE IInv'
<1> DEFINE m == call[k].m
           o == call[k].other
<1> USE DEF ConfirmDelete
<1>1. /\ TypeOK /\ call[k].pc = "duplicate" /\ m \in Yoo
      /\ o \in Methods \ {m} /\ card[o] = paidWith[m] /\ paidWith[m] \in Cards
  BY DEF IInv, CallInv, TypeOK, Goto
<1>2. /\ call'[k] = [pc |-> "deleted", m |-> m, other |-> o, any |-> call[k].any]
      /\ \A l \in Calls \ {k} : call'[l] = call[l]
      /\ call' \in [Calls -> [pc : CallPcs, m : Methods \cup Foreign \cup {NoMethod},
                              other : Methods \cup {NoMethod}, any : BOOLEAN]]
  BY <1>1, GotoIs DEF CallPcs
<1>3. /\ \A n \in Methods \ {o} : state'[n] = state[n]
      /\ state'[o] = state[o] \/ (state'[o] = "deleted" /\ Present(o))
      /\ state' \in [Methods -> {"absent", "inactive", "active", "deleted"}]
  BY <1>1 DEF TypeOK
<1>4. TypeOK'
  BY <1>1, <1>2, <1>3 DEF TypeOK
<1>5. RowInv'
  BY <1>1, <1>3 DEF IInv, RowInv, Present
<1>6. \A n \in Methods : state[n] \in {"active", "deleted"} => state'[n] \in {"active", "deleted"}
  BY <1>1, <1>3
<1>7. CallInv'
  <2>1. (\A l \in Calls \ {k} : call'[l] = call[l]) /\ UNCHANGED <<paidWith, card>>
    BY <1>2
  <2>2. /\ call'[k].pc = "deleted" /\ call'[k].m = m /\ m \in Yoo /\ paidWith[m] # NoCard
    BY <1>1, <1>2
  <2>3. ASSUME NEW l \in Calls \ {k}, call[l].pc = "paying"
        PROVE  call[l].m \in Methods /\ state'[call[l].m] \in {"active", "deleted"}
    BY <1>6, <2>3 DEF IInv, CallInv
  <2> HIDE DEF ConfirmDelete
  <2> QED
    BY <2>1, <2>2, <2>3 DEF IInv, CallInv
<1>8. paidWith[m] \notin overlapped =>
        /\ state[m] = "active" /\ card[m] = paidWith[m]
        /\ \A l \in Calls : Confirming(l) /\ paidWith[call[l].m] = paidWith[m] => call[l].m = m
  BY <1>1 DEF IInv, PairInv, Confirming
<1>9. PairInv'
  <2> SUFFICES ASSUME NEW l \in Calls, Confirming(l)', paidWith[call'[l].m] \notin overlapped
               PROVE  /\ state'[call'[l].m] = "active" /\ card[call'[l].m] = paidWith[call'[l].m]
                      /\ \A j \in Calls :
                           Confirming(j)' /\ paidWith[call'[j].m] = paidWith[call'[l].m] =>
                             call'[j].m = call'[l].m
    BY DEF PairInv, Confirming
  <2>1. l # k /\ call'[l] = call[l] /\ Confirming(l)
    BY <1>2 DEF Confirming
  <2>2. /\ state[call[l].m] = "active" /\ card[call[l].m] = paidWith[call[l].m]
        /\ \A j \in Calls : Confirming(j) /\ paidWith[call[j].m] = paidWith[call[l].m] =>
             call[j].m = call[l].m
    BY <2>1 DEF IInv, PairInv
  <2>3. call[l].m # o
    <3> SUFFICES ASSUME call[l].m = o PROVE FALSE
      OBVIOUS
    <3>1. paidWith[m] = paidWith[call[l].m]
      BY <1>1, <2>2
    <3>2. m = call[l].m
      BY <1>1, <2>2, <3>1 DEF Confirming
    <3> QED
      BY <1>1, <3>2
  <2>4. call[l].m \in Methods
    BY <2>1 DEF IInv, CallInv, Confirming
  <2>5. \A j \in Calls : Confirming(j)' => Confirming(j) /\ call'[j] = call[j]
    BY <1>2 DEF Confirming
  <2> QED
    BY <1>3, <2>1, <2>2, <2>3, <2>4, <2>5
<1>10. BoundStaysPayable'
  <2> SUFFICES ASSUME NEW c \in bound \ overlapped
               PROVE  \E n \in Methods : state'[n] = "active" /\ card[n] = c
    BY DEF BoundStaysPayable
  <2>1. CASE c = paidWith[m]
    BY <1>1, <1>3, <1>8, <2>1
  <2>2. CASE c # paidWith[m]
    <3>1. PICK n \in Methods : state[n] = "active" /\ card[n] = c
      BY DEF IInv, BoundStaysPayable
    <3> QED
      BY <1>1, <1>3, <2>2, <3>1
  <2> QED
    BY <2>1, <2>2
<1> QED
  BY <1>4, <1>5, <1>7, <1>9, <1>10 DEF IInv

(***************************************************************************)
(* CloudPayments                                                           *)
(***************************************************************************)
LEMMA OrderKeeps ==
  ASSUME IInv, NEW m \in Methods, NEW c \in Cards, Order(m, c) PROVE IInv'
<1> USE DEF Order, Reserve
<1>1. state[m] = "absent" /\ paidWith[m] = NoCard /\ card[m] = NoCard /\ m \in Cloud
  BY DEF IInv, RowInv, TypeOK
<1>2. TypeOK'
  BY DEF IInv, TypeOK
<1>3. \A n \in Methods : n # m => paidWith'[n] = paidWith[n]
  BY DEF IInv, TypeOK
<1>4. paidWith'[m] = c /\ hold'[m] = "held" /\ \A n \in Cloud \ {m} : hold'[n] = hold[n]
  BY DEF IInv, TypeOK
<1>5. RowInv'
  BY <1>1, <1>3, <1>4 DEF IInv, RowInv
<1>6. \A k \in Calls : call[k].pc \in {"found", "updated", "duplicate", "deleted", "sought",
                                       "created", "agreed", "paying"} =>
                         call[k].m \in Methods /\ call[k].m # m
  BY <1>1 DEF IInv, CallInv
<1>7. CallInv'
  BY <1>3, <1>6 DEF IInv, CallInv
<1>8. PairInv'
  BY <1>3, <1>6 DEF IInv, PairInv, Confirming
<1>9. BoundStaysPayable'
  BY DEF IInv, BoundStaysPayable
<1> QED
  BY <1>2, <1>5, <1>7, <1>8, <1>9 DEF IInv

LEMMA SeekKeeps ==
  ASSUME IInv, NEW k \in Calls, NEW m \in Methods, BindSeek(k, m) PROVE IInv'
<1> USE DEF BindSeek
<1>1. PICK b \in BOOLEAN : call' = [call EXCEPT ![k] = [Idle EXCEPT !.pc = "sought", !.m = m, !.any = b]]
  OBVIOUS
<1>7. call' = [call EXCEPT ![k] = [pc |-> "sought", m |-> m, other |-> NoMethod, any |-> b]]
  BY <1>1 DEF Idle
<1>2. /\ call'[k] = [pc |-> "sought", m |-> m, other |-> NoMethod, any |-> b]
      /\ \A l \in Calls \ {k} : call'[l] = call[l]
  BY <1>7 DEF IInv, TypeOK
<1>3. TypeOK'
  BY <1>7 DEF IInv, TypeOK, CallPcs
<1>4. RowInv' /\ BoundStaysPayable'
  BY DEF IInv, RowInv, BoundStaysPayable
<1>5. CallInv'
  BY <1>2 DEF IInv, CallInv, RowInv
<1>6. PairInv'
  BY <1>2 DEF IInv, PairInv, Confirming
<1> QED
  BY <1>3, <1>4, <1>5, <1>6 DEF IInv

LEMMA CreateKeeps ==
  ASSUME IInv, NEW k \in Calls, BindCreate(k) PROVE IInv'
<1> DEFINE m == call[k].m
<1> USE DEF BindCreate
<1>1. TypeOK /\ m \in Cloud /\ paidWith[m] \in Cards /\ call[k].pc = "sought"
  BY DEF IInv, CallInv, TypeOK, Goto
<1>2. PICK to \in {"created", "agreed"} : Goto(k, "sought", to)
  OBVIOUS
<1>3. /\ call'[k] = [pc |-> to, m |-> m, other |-> call[k].other, any |-> call[k].any]
      /\ \A l \in Calls \ {k} : call'[l] = call[l]
      /\ call' \in [Calls -> [pc : CallPcs, m : Methods \cup Foreign \cup {NoMethod},
                              other : Methods \cup {NoMethod}, any : BOOLEAN]]
  <2>1. to \in CallPcs
    BY DEF CallPcs
  <2> HIDE DEF BindCreate
  <2> QED
    BY <1>1, <1>2, <2>1, GotoIs
<1>4. CASE UNCHANGED <<state, card, bound>>
  <2>1. TypeOK' /\ RowInv' /\ BoundStaysPayable'
    BY <1>1, <1>3, <1>4 DEF IInv, TypeOK, RowInv, BoundStaysPayable
  <2>2. CallInv'
    BY <1>1, <1>3, <1>4 DEF IInv, CallInv
  <2>3. PairInv'
    BY <1>3, <1>4 DEF IInv, PairInv, Confirming
  <2> QED
    BY <2>1, <2>2, <2>3 DEF IInv
<1>5. CASE /\ ~Present(m) /\ state' = [state EXCEPT ![m] = "active"]
           /\ card' = [card EXCEPT ![m] = paidWith[m]] /\ bound' = bound \cup {paidWith[m]}
  <2>1. /\ state'[m] = "active" /\ card'[m] = paidWith[m]
        /\ \A n \in Methods : n # m => state'[n] = state[n] /\ card'[n] = card[n]
    BY <1>1, <1>5 DEF TypeOK
  <2>2. TypeOK'
    BY <1>1, <1>3, <1>5 DEF TypeOK
  <2>3. RowInv'
    BY <1>1, <2>1 DEF IInv, RowInv
  <2>4. \A n \in Methods : card[n] # NoCard => card'[n] = card[n]
    BY <1>1, <2>1 DEF IInv, RowInv
  <2>5. CallInv'
    BY <1>1, <1>3, <2>1, <2>4 DEF IInv, CallInv
  <2>6. PairInv'
    <3>1. \A l \in Calls : Confirming(l)' => Confirming(l) /\ call'[l] = call[l] /\ call[l].m # m
      BY <1>1, <1>3 DEF IInv, CallInv, Confirming
    <3>2. \A l \in Calls : Confirming(l) => call[l].m \in Methods
      BY DEF IInv, CallInv, Confirming
    <3> QED
      BY <2>1, <3>1, <3>2 DEF IInv, PairInv
  <2>7. BoundStaysPayable'
    <3> SUFFICES ASSUME NEW c \in bound' \ overlapped
                 PROVE  \E n \in Methods : state'[n] = "active" /\ card'[n] = c
      BY DEF BoundStaysPayable
    <3>1. CASE c = paidWith[m]
      BY <1>1, <2>1, <3>1
    <3>2. CASE c # paidWith[m]
      <4>1. PICK n \in Methods : state[n] = "active" /\ card[n] = c
        BY <1>5, <3>2 DEF IInv, BoundStaysPayable
      <4> QED
        BY <2>1, <2>4, <4>1, <1>1, <1>5 DEF Present
    <3> QED
      BY <3>1, <3>2
  <2> QED
    BY <2>2, <2>3, <2>5, <2>6, <2>7 DEF IInv
<1> QED
  BY <1>2, <1>4, <1>5

LEMMA ActivateKeeps ==
  ASSUME IInv, NEW k \in Calls, BindActivate(k) PROVE IInv'
<1> USE DEF BindActivate
<1>1. TypeOK /\ call[k].m \in Cloud
  BY DEF IInv, CallInv, Goto
<1>2. /\ call'[k] = [pc |-> "agreed", m |-> call[k].m, other |-> call[k].other, any |-> call[k].any]
      /\ \A l \in Calls \ {k} : call'[l] = call[l]
      /\ call[k].pc = "created"
      /\ call' \in [Calls -> [pc : CallPcs, m : Methods \cup Foreign \cup {NoMethod},
                              other : Methods \cup {NoMethod}, any : BOOLEAN]]
  BY <1>1, GotoIs DEF CallPcs
<1>3. TypeOK' /\ RowInv' /\ BoundStaysPayable'
  BY <1>1, <1>2 DEF IInv, TypeOK, RowInv, BoundStaysPayable
<1>4. CallInv'
  BY <1>2 DEF IInv, CallInv
<1>5. PairInv'
  BY <1>2 DEF IInv, PairInv, Confirming
<1> QED
  BY <1>3, <1>4, <1>5 DEF IInv

LEMMA VoidKeeps ==
  ASSUME IInv, NEW k \in Calls, BindVoid(k) PROVE IInv'
<1> USE DEF BindVoid
<1>1. TypeOK /\ call[k].m \in Cloud /\ paidWith[call[k].m] # NoCard
  BY DEF IInv, CallInv, Return
<1>2. /\ call'[k].pc = "idle" /\ \A l \in Calls \ {k} : call'[l] = call[l]
      /\ call' \in [Calls -> [pc : CallPcs, m : Methods \cup Foreign \cup {NoMethod},
                              other : Methods \cup {NoMethod}, any : BOOLEAN]]
  BY <1>1, ReturnIs
<1>3. TypeOK' /\ BoundStaysPayable'
  BY <1>1, <1>2 DEF IInv, TypeOK, BoundStaysPayable
<1>4. RowInv'
  BY <1>1 DEF IInv, RowInv, TypeOK
<1>5. CallInv'
  BY <1>2 DEF IInv, CallInv
<1>6. PairInv'
  BY <1>2 DEF IInv, PairInv, Confirming
<1> QED
  BY <1>3, <1>4, <1>5, <1>6 DEF IInv

(***************************************************************************)
(* The use of the methods                                                  *)
(***************************************************************************)
LEMMA GetKeeps ==
  ASSUME IInv, NEW k \in Calls, Get(k) PROVE IInv'
<1> USE DEF Get
<1>1. /\ call'[k] = [pc |-> "paying", m |-> call[k].m, other |-> call[k].other, any |-> call[k].any]
      /\ \A l \in Calls \ {k} : call'[l] = call[l]
      /\ call' \in [Calls -> [pc : CallPcs, m : Methods \cup Foreign \cup {NoMethod},
                              other : Methods \cup {NoMethod}, any : BOOLEAN]]
  BY GotoIs DEF CallPcs, IInv
<1>2. TypeOK' /\ RowInv' /\ BoundStaysPayable'
  BY <1>1 DEF IInv, TypeOK, RowInv, BoundStaysPayable
<1>3. CallInv'
  BY <1>1 DEF IInv, CallInv
<1>4. PairInv'
  BY <1>1 DEF IInv, PairInv, Confirming
<1> QED
  BY <1>2, <1>3, <1>4 DEF IInv

LEMMA AskKeeps ==
  ASSUME IInv, NEW k \in Calls, Ask(k) PROVE IInv'
<1>1. /\ call'[k].pc = "asked" /\ \A l \in Calls \ {k} : call'[l] = call[l]
      /\ call' \in [Calls -> [pc : CallPcs, m : Methods \cup Foreign \cup {NoMethod},
                              other : Methods \cup {NoMethod}, any : BOOLEAN]]
  BY DEF Ask, IInv, TypeOK, Idle, CallPcs
<1> QED
  BY <1>1, QuietStep DEF Ask, IInv, TypeOK

LEMMA ReturnsKeep ==
  ASSUME IInv, NEW k \in Calls,
         ConfirmFail(k) \/ ConfirmActivate(k) \/ BindFail(k) \/ GetRefuse(k) \/ Paid(k)
  PROVE  IInv'
<1>1. \E from : Return(k, from)
  BY DEF ConfirmFail, ConfirmActivate, BindFail, GetRefuse, Paid
<1>2. active' \in Methods \cup Foreign \cup {NoMethod}
  BY DEF ConfirmFail, ConfirmActivate, BindFail, GetRefuse, Paid, IInv, TypeOK
<1>3. UNCHANGED <<state, paidWith, card, hold, bound, overlapped>>
  BY DEF ConfirmFail, ConfirmActivate, BindFail, GetRefuse, Paid
<1> QED
  BY <1>1, <1>2, <1>3, ReturnIs, QuietStep DEF IInv

LEMMA RestKeeps ==
  ASSUME IInv, Crash \/ (\E m \in Methods \cup Foreign : Choose(m)) \/ UNCHANGED vars
  PROVE  IInv'
<1>1. CASE Crash
  BY <1>1 DEF Crash, IInv, TypeOK, RowInv, CallInv, PairInv, Confirming, BoundStaysPayable,
              Idle, CallPcs
<1>2. CASE \E m \in Methods \cup Foreign : Choose(m)
  BY <1>2 DEF Choose, IInv, TypeOK, RowInv, CallInv, PairInv, Confirming, BoundStaysPayable
<1>3. CASE UNCHANGED vars
  BY <1>3 DEF IInv, TypeOK, RowInv, CallInv, PairInv, Confirming, BoundStaysPayable
<1> QED
  BY <1>1, <1>2, <1>3

(***************************************************************************)
(* The theorems                                                            *)
(***************************************************************************)
LEMMA InitInv == Init => IInv
  BY DEF Init, IInv, TypeOK, RowInv, CallInv, PairInv, Confirming, BoundStaysPayable, Idle, CallPcs

LEMMA Inductive == Spec => []IInv
<1>1. IInv /\ [Next]_vars => IInv'
  BY SaveKeeps, FindKeeps, UpdateKeeps, ListKeeps, DeleteKeeps, OrderKeeps, SeekKeeps,
     CreateKeeps, ActivateKeeps, VoidKeeps, GetKeeps, AskKeeps, ReturnsKeep, RestKeeps
     DEF Next, CallNext
<1> QED
  BY InitInv, <1>1, PTL DEF Spec

\* The variables of the binding of cards keep their types.
THEOREM MethodsTypeCorrect == Spec => []TypeOK
<1>1. IInv => TypeOK
  BY DEF IInv
<1> QED
  BY <1>1, Inductive, PTL

\* Whatever the profile form and the webhooks do, getActivePaymentMethod hands
\* out rows of this user that a gateway has confirmed, and no others.
THEOREM PaysWithOwnCard == Spec => []PaysWithConfirmedOwn
<1>1. IInv => PaysWithConfirmedOwn
  BY DEF IInv, CallInv, RowInv, PaysWithConfirmedOwn
<1> QED
  BY <1>1, Inductive, PTL

\* A bound card stays payable for any number of rows, repeats and handlers,
\* unless two rows of it were confirmed side by side.
THEOREM BoundCardStays == Spec => []BoundStaysPayable
<1>1. IInv => BoundStaysPayable
  BY DEF IInv
<1> QED
  BY <1>1, Inductive, PTL
=============================================================================
