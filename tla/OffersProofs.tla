--------------------------- MODULE OffersProofs ---------------------------
(***************************************************************************)
(* What Promocodes and TariffOrder promise, for any number of users, rows, *)
(* tariffs, calls and requests: no user is granted a promocode twice but   *)
(* by calls that overlapped, the Payment rows explain what was granted,    *)
(* and the list of the tariffs keeps its order.                            *)
(***************************************************************************)
EXTENDS MCOffers, SumsProofs, FiniteSetTheorems, SequenceTheorems, TLAPS

Underway(k) == call[k].pc \notin {"idle", "refused"}

\* A call that got past the check acts on a row that exists or existed.
CallsInv ==
  \A k \in Calls : Underway(k) =>
    /\ call[k].user \in Users
    /\ call[k].row \in Rows
    /\ status[call[k].row] # "absent"

\* While the row of a grant is there it remembers the user.
ConnectedInv ==
  \A k \in Calls : Granted(k) /\ Present(call[k].row) =>
    call[k].user \in usedBy[call[k].row]

\* A call that may still grant, and another that may or did, overlapped.
OverlapInv ==
  \A k, l \in Calls :
    /\ k # l
    /\ call[k].pc = "checked"
    /\ call[l].pc = "checked" \/ Granted(l)
    /\ call[k].user = call[l].user /\ call[k].row = call[l].row
    => <<call[k].user, call[k].row>> \in overlapped

IInv == TypeOK /\ CallsInv /\ ConnectedInv /\ OverlapInv /\ OnceUnlessOverlapped

LEMMA TypeStep == ASSUME TypeOK, CallsInv, [Next]_vars PROVE TypeOK'
<1> USE PromocodesAssumption DEF TypeOK, CallPcs
<1>1. ASSUME NEW k \in Calls, UseNext(k) PROVE TypeOK'
  <2>1. ASSUME NEW u \in Users, NEW r \in Rows, UseFind(k, u, r) PROVE TypeOK'
    BY <2>1 DEF UseFind, rowVars
  <2>2. ASSUME NEW u \in Users, UseRefuse(k, u) PROVE TypeOK'
    BY <2>2 DEF UseRefuse, Goto, rowVars
  <2>3. CASE UseGrant(k)
    <3>1. call[k].sum \in Nat OBVIOUS
    <3>2. bonuses' = [bonuses EXCEPT ![call[k].user] = @ + call[k].sum]
      BY <2>3 DEF UseGrant
    <3>3. bonuses' \in [Users -> Nat]
      <4>1. ASSUME NEW u \in Users PROVE bonuses[u] \in Nat /\ bonuses[u] + call[k].sum \in Nat
        <5>1. bonuses[u] \in Nat OBVIOUS
        <5>2. QED BY <3>1, <5>1
      <4>2. QED BY <3>2, <4>1
    <3>4. usedBy' = [usedBy EXCEPT ![call[k].row] = @ \cup {call[k].user}]
      BY <2>3 DEF UseGrant
    <3>5. call' \in [Calls -> [pc : CallPcs, user : Users \cup {NoUser},
                              row : Rows \cup {NoRow}, sum : Nat]]
      <4>1. CASE Goto(k, "checked", "granted") BY <4>1 DEF Goto
      <4>2. CASE Goto(k, "checked", "unbooked") BY <4>2 DEF Goto
      <4>3. QED BY <2>3, <4>1, <4>2 DEF UseGrant
    <3>6. UNCHANGED <<status, sum, expired, archiving, booked, overlapped>>
      BY <2>3 DEF UseGrant
    <3>7. usedBy' \in [Rows -> SUBSET Users]
      <4>1. call[k].row \in Rows BY <2>3 DEF UseGrant
      <4>2. call[k].user \in Users BY <2>3 DEF UseGrant, Goto, CallsInv, Underway
      <4>3. QED BY <3>4, <4>1, <4>2
    <3>8. QED BY <3>3, <3>5, <3>6, <3>7
  <2>4. CASE UseBook(k)
    <3>1. call[k].sum \in Nat OBVIOUS
    <3>2. booked' \in [Calls -> Nat] BY <2>4, <3>1 DEF UseBook
    <3>3. call' \in [Calls -> [pc : CallPcs, user : Users \cup {NoUser},
                              row : Rows \cup {NoRow}, sum : Nat]]
      <4>1. CASE Goto(k, "granted", "booked") BY <4>1 DEF Goto
      <4>2. CASE Goto(k, "granted", "unbooked") BY <4>2 DEF Goto
      <4>3. QED BY <2>4, <4>1, <4>2 DEF UseBook
    <3>4. UNCHANGED <<rowVars, archiving, bonuses, overlapped>> BY <2>4 DEF UseBook
    <3>5. QED BY <3>2, <3>3, <3>4 DEF rowVars
  <2>5. CASE UseFail(k)
    BY <2>5 DEF UseFail, Goto, rowVars
  <2>6. QED BY <1>1, <2>1, <2>2, <2>3, <2>4, <2>5 DEF UseNext
<1>2. ASSUME NEW r \in Rows, RowNext(r) PROVE TypeOK'
  <2>1. CASE \E state \in {"ACTIVE", "ARCHIVE"}, amount \in Sums, late \in BOOLEAN :
               Create(r, state, amount, late) \/ Edit(r, state, amount, late)
    <3>1. PICK state \in {"ACTIVE", "ARCHIVE"}, amount \in Sums, late \in BOOLEAN :
            Write(r, state, amount, late) /\ UNCHANGED usedBy
      BY <2>1 DEF Create, Edit
    <3>2. amount \in Nat OBVIOUS
    <3>3. status' \in [Rows -> {"absent", "ACTIVE", "ARCHIVE", "deleted"}] /\ sum' \in [Rows -> Nat]
      BY <3>1, <3>2 DEF Write
    <3>4. expired' \subseteq Rows BY <3>1 DEF Write
    <3>5. QED BY <3>1, <3>3, <3>4 DEF Write, useVars
  <2>2. CASE Remove(r) BY <2>2 DEF Remove, useVars
  <2>3. CASE JobArchive(r) BY <2>3 DEF JobArchive, useVars
  <2>4. CASE Lapse(r) BY <2>4 DEF Lapse, useVars
  <2>5. QED BY <1>2, <2>1, <2>2, <2>3, <2>4 DEF RowNext
<1>3. CASE JobFind BY <1>3 DEF JobFind, rowVars, useVars
<1>4. CASE Crash BY <1>4 DEF Crash, rowVars
<1>5. CASE UNCHANGED vars BY <1>5 DEF vars, rowVars, useVars
<1>6. QED BY <1>1, <1>2, <1>3, <1>4, <1>5 DEF Next

\* The steps of usePromocode.
LEMMA UseStep ==
  ASSUME IInv, NEW k \in Calls, UseNext(k)
  PROVE  (CallsInv /\ ConnectedInv /\ OverlapInv /\ OnceUnlessOverlapped)'
<1> USE PromocodesAssumption DEF IInv, TypeOK, CallPcs, Underway, Granted, Present
<1>1. ASSUME NEW u \in Users, NEW r \in Rows, UseFind(k, u, r)
      PROVE  (CallsInv /\ ConnectedInv /\ OverlapInv /\ OnceUnlessOverlapped)'
  <2> USE <1>1 DEF UseFind, rowVars
  <2>1. /\ call'[k] = [pc |-> "checked", user |-> u, row |-> r, sum |-> sum[r]]
        /\ \A l \in Calls \ {k} : call'[l] = call[l]
        /\ overlapped \subseteq overlapped'
        /\ Granted(k)' = FALSE
    OBVIOUS
  <2>2. CallsInv' BY <2>1 DEF CallsInv
  <2>3. ConnectedInv' BY <2>1 DEF ConnectedInv
  <2>4. ASSUME NEW l \in Calls \ {k}, call[l].user = u, call[l].row = r,
               call[l].pc = "checked" \/ Granted(l)
        PROVE  <<u, r>> \in overlapped'
    BY <2>4 DEF ConnectedInv, Checked
  <2>5. OverlapInv' BY <2>1, <2>4 DEF OverlapInv
  <2>6. OnceUnlessOverlapped' BY <2>1 DEF OnceUnlessOverlapped, GrantedTwice
  <2>7. QED BY <2>2, <2>3, <2>5, <2>6
<1>2. ASSUME NEW u \in Users, UseRefuse(k, u)
      PROVE  (CallsInv /\ ConnectedInv /\ OverlapInv /\ OnceUnlessOverlapped)'
  BY <1>2 DEF UseRefuse, Goto, rowVars, CallsInv, ConnectedInv, OverlapInv,
              OnceUnlessOverlapped, GrantedTwice
<1>3. CASE UseGrant(k)
  <2> USE <1>3 DEF UseGrant, Goto
  <2>1. /\ call[k].pc = "checked" /\ call'[k].pc \in {"granted", "unbooked"}
        /\ call'[k].user = call[k].user /\ call'[k].row = call[k].row
        /\ \A l \in Calls \ {k} : call'[l] = call[l]
        /\ call[k].user \in usedBy'[call[k].row]
        /\ \A r \in Rows : usedBy[r] \subseteq usedBy'[r]
    BY DEF CallsInv
  <2>2. CallsInv' BY <2>1 DEF CallsInv
  <2>3. ConnectedInv' BY <2>1, <2>2 DEF ConnectedInv, CallsInv
  <2>4. OverlapInv' BY <2>1 DEF OverlapInv
  <2>5. OnceUnlessOverlapped'
    BY <2>1 DEF OnceUnlessOverlapped, GrantedTwice, OverlapInv
  <2>6. QED BY <2>2, <2>3, <2>4, <2>5
<1>4. CASE UseBook(k) \/ UseFail(k)
  <2> USE <1>4 DEF UseBook, UseFail, Goto, rowVars
  <2>1. /\ \A l \in Calls : call'[l].user = call[l].user /\ call'[l].row = call[l].row
        /\ \A l \in Calls : call'[l].pc = "checked" => call[l].pc = "checked"
        /\ \A l \in Calls : Granted(l)' = Granted(l)
        /\ \A l \in Calls : Underway(l)' = Underway(l)
        /\ status' = status /\ usedBy' = usedBy /\ overlapped' = overlapped
    OBVIOUS
  <2>2. CallsInv' BY <2>1 DEF CallsInv
  <2>3. ConnectedInv' BY <2>1 DEF ConnectedInv
  <2>4. OverlapInv' BY <2>1 DEF OverlapInv
  <2>5. OnceUnlessOverlapped' BY <2>1 DEF OnceUnlessOverlapped, GrantedTwice
  <2>6. QED BY <2>2, <2>3, <2>4, <2>5
<1>5. QED BY <1>1, <1>2, <1>3, <1>4 DEF UseNext

\* The CRM, the job and the crash.
LEMMA RestStep ==
  ASSUME IInv, \/ \E r \in Rows : RowNext(r)
               \/ JobFind \/ Crash \/ UNCHANGED vars
  PROVE  (CallsInv /\ ConnectedInv /\ OverlapInv /\ OnceUnlessOverlapped)'
<1> USE PromocodesAssumption DEF IInv, TypeOK, CallPcs, Underway, Granted, Present
<1>1. /\ \A l \in Calls : call'[l].user = call[l].user /\ call'[l].row = call[l].row
      /\ \A l \in Calls : call'[l].pc = "checked" => call[l].pc = "checked"
      /\ \A l \in Calls : Granted(l)' = Granted(l)
      /\ \A l \in Calls : Underway(l)' = Underway(l)
      /\ UNCHANGED overlapped
  <2>1. CASE \E r \in Rows : RowNext(r)
    BY <2>1 DEF RowNext, Create, Edit, Write, Remove, JobArchive, Lapse, useVars
  <2>2. CASE JobFind BY <2>2 DEF JobFind, useVars
  <2>3. CASE Crash BY <2>3 DEF Crash
  <2>4. CASE UNCHANGED vars BY <2>4 DEF vars, useVars
  <2>5. QED BY <2>1, <2>2, <2>3, <2>4
\* Rows come out of "absent" once, and lose connections only with themselves.
<1>2. ASSUME NEW q \in Rows, status[q] # "absent"
      PROVE  /\ status'[q] # "absent"
             /\ Present(q)' => Present(q) /\ usedBy'[q] = usedBy[q]
  <2>1. ASSUME NEW r \in Rows, RowNext(r)
        PROVE  /\ status'[q] # "absent"
               /\ Present(q)' => Present(q) /\ usedBy'[q] = usedBy[q]
    BY <1>2, <2>1 DEF RowNext, Create, Edit, Write, Remove, JobArchive, Lapse
  <2>2. CASE JobFind \/ Crash \/ UNCHANGED vars
    BY <1>2, <2>2 DEF JobFind, Crash, vars, rowVars
  <2>3. QED BY <2>1, <2>2
<1>3. CallsInv' BY <1>1, <1>2 DEF CallsInv
<1>4. ConnectedInv'
  <2>1. ASSUME NEW k \in Calls, Granted(k), status'[call[k].row] \in {"ACTIVE", "ARCHIVE"}
        PROVE  call[k].user \in usedBy'[call[k].row]
    <3>1. call[k].row \in Rows /\ status[call[k].row] # "absent"
      BY <2>1 DEF CallsInv
    <3>2. Present(call[k].row) /\ usedBy'[call[k].row] = usedBy[call[k].row]
      BY <1>2, <2>1, <3>1
    <3>3. QED BY <2>1, <3>2 DEF ConnectedInv
  <2>2. QED BY <1>1, <2>1 DEF ConnectedInv
<1>5. OverlapInv' /\ OnceUnlessOverlapped'
  BY <1>1 DEF OverlapInv, OnceUnlessOverlapped, GrantedTwice
<1>6. QED BY <1>3, <1>4, <1>5

THEOREM PromocodesInductive == Spec => []IInv
<1>1. Init => IInv
  BY PromocodesAssumption
     DEF Init, IInv, TypeOK, CallPcs, CallsInv, ConnectedInv, OverlapInv,
         OnceUnlessOverlapped, GrantedTwice, Underway, Granted
<1>2. IInv /\ [Next]_vars => IInv'
  <2>1. SUFFICES ASSUME IInv, [Next]_vars PROVE IInv' OBVIOUS
  <2>2. TypeOK' BY <2>1, TypeStep DEF IInv
  <2>3. (CallsInv /\ ConnectedInv /\ OverlapInv /\ OnceUnlessOverlapped)'
    BY <2>1, UseStep, RestStep DEF Next
  <2>4. QED BY <2>2, <2>3 DEF IInv
<1>3. QED BY <1>1, <1>2, PTL DEF Spec

\* The rows, the calls and the sums keep their types.
THEOREM PromocodesTypeCorrect == Spec => []TypeOK
BY PromocodesInductive, PTL DEF IInv

\* usePromocode gives a user the bonuses of a promocode twice only when two of
\* his calls checked it side by side, whatever fails, ends or is edited.
THEOREM TwiceNeedsOverlap == Spec => []OnceUnlessOverlapped
BY PromocodesInductive, PTL DEF IInv

(***************************************************************************)
(* The books of the promocodes.  Each step changes what one call adds to   *)
(* what its user was granted, or to what the Payment rows say of it.       *)
(***************************************************************************)
BookedOf(u) == [k \in {l \in Calls : call[l].user = u} |-> booked[k]]
OpenOf(u) == [k \in Open(u) |-> call[k].sum]

\* Only a call at its end has a Payment row.
BookedLast == \A k \in Calls : call[k].pc # "booked" => booked[k] = 0

BooksInv ==
  /\ BookedLast
  /\ \A u \in Users :
       /\ IsFiniteSet(Units(BookedOf(u))) /\ IsFiniteSet(Units(OpenOf(u)))
       /\ bonuses[u] = SumOf(BookedOf(u)) + SumOf(OpenOf(u))

\* What k adds to the rows of u, and to his grants without a row.
BookedFor(u, k) == IF k \in Calls /\ call[k].user = u THEN booked[k] ELSE 0
OpenFor(u, k) ==
  IF k \in Calls /\ call[k].user = u /\ call[k].pc \in {"granted", "unbooked"}
  THEN call[k].sum ELSE 0

LEMMA BooksAt ==
  ASSUME TypeOK, NEW u \in Users
  PROVE  /\ Natural(BookedOf(u)) /\ Natural(OpenOf(u))
         /\ \A k : At(BookedOf(u), k) = BookedFor(u, k) /\ At(OpenOf(u), k) = OpenFor(u, k)
<1>1. \A k \in Calls : booked[k] \in Nat /\ call[k].sum \in Nat
  BY DEF TypeOK
<1> QED
  BY <1>1 DEF Natural, At, BookedOf, OpenOf, Open, BookedFor, OpenFor

\* A step that changes what at most one call adds.
LEMMA OneCallStep ==
  ASSUME TypeOK, TypeOK', BooksInv, NEW u \in Users, NEW x,
         \A k : k # x => BookedFor(u, k)' = BookedFor(u, k) /\ OpenFor(u, k)' = OpenFor(u, k),
         bonuses'[u] + BookedFor(u, x) + OpenFor(u, x)
           = bonuses[u] + BookedFor(u, x)' + OpenFor(u, x)'
  PROVE  /\ IsFiniteSet(Units(BookedOf(u)')) /\ IsFiniteSet(Units(OpenOf(u)'))
         /\ bonuses'[u] = SumOf(BookedOf(u)') + SumOf(OpenOf(u)')
<1> DEFINE f == BookedOf(u)
           g == BookedOf(u)'
           p == OpenOf(u)
           q == OpenOf(u)'
<1>1. /\ Natural(f) /\ Natural(p)
      /\ \A k : At(f, k) = BookedFor(u, k) /\ At(p, k) = OpenFor(u, k)
  BY BooksAt
<1>2. /\ Natural(g) /\ Natural(q)
      /\ \A k : At(g, k) = BookedFor(u, k)' /\ At(q, k) = OpenFor(u, k)'
  <2>1. \A k \in Calls : booked'[k] \in Nat /\ call'[k].sum \in Nat
    BY DEF TypeOK
  <2> QED
    BY <2>1 DEF Natural, At, BookedOf, OpenOf, Open, BookedFor, OpenFor
<1>3. /\ IsFiniteSet(Units(f)) /\ IsFiniteSet(Units(p))
      /\ bonuses[u] = SumOf(f) + SumOf(p)
  BY DEF BooksInv
<1>4. bonuses[u] \in Nat /\ bonuses'[u] \in Nat
  BY DEF TypeOK
<1>5. /\ At(f, x) \in Nat /\ At(p, x) \in Nat /\ At(g, x) \in Nat /\ At(q, x) \in Nat
  BY <1>1, <1>2 DEF Natural, At
<1>6. /\ At(f, x) = BookedFor(u, x) /\ At(p, x) = OpenFor(u, x)
      /\ At(g, x) = BookedFor(u, x)' /\ At(q, x) = OpenFor(u, x)'
  BY <1>1, <1>2
<1>7. /\ \A k : k # x => At(f, k) = At(g, k)
      /\ \A k : k # x => At(p, k) = At(q, k)
  BY <1>1, <1>2
<1> HIDE DEF f, g, p, q
<1>8. /\ IsFiniteSet(Units(g)) /\ SumOf(f) \in Nat
      /\ SumOf(g) = SumOf(f) - At(f, x) + At(g, x)
  BY <1>1, <1>2, <1>3, <1>7, SumChangesAt
<1>9. /\ IsFiniteSet(Units(q)) /\ SumOf(p) \in Nat
      /\ SumOf(q) = SumOf(p) - At(p, x) + At(q, x)
  BY <1>1, <1>2, <1>3, <1>7, SumChangesAt
<1>10. bonuses'[u] + At(f, x) + At(p, x) = bonuses[u] + At(g, x) + At(q, x)
  BY <1>6
<1>11. bonuses'[u] = SumOf(g) + SumOf(q)
  BY <1>3, <1>4, <1>5, <1>8, <1>9, <1>10
<1> QED
  BY <1>8, <1>9, <1>11 DEF g, q

\* A step of k, if it keeps the books at k.
LEMMA BooksKept ==
  ASSUME TypeOK, TypeOK', BooksInv, BookedLast', NEW x,
         \A u \in Users :
           /\ \A k : k # x =>
                BookedFor(u, k)' = BookedFor(u, k) /\ OpenFor(u, k)' = OpenFor(u, k)
           /\ bonuses'[u] + BookedFor(u, x) + OpenFor(u, x)
                = bonuses[u] + BookedFor(u, x)' + OpenFor(u, x)'
  PROVE  BooksInv'
<1>1. ASSUME NEW u \in Users
      PROVE  /\ IsFiniteSet(Units(BookedOf(u)')) /\ IsFiniteSet(Units(OpenOf(u)'))
             /\ bonuses'[u] = SumOf(BookedOf(u)') + SumOf(OpenOf(u)')
  BY OneCallStep
<1> QED
  BY <1>1 DEF BooksInv

LEMMA BooksStep == ASSUME TypeOK, TypeOK', CallsInv, BooksInv, [Next]_vars PROVE BooksInv'
<1>1. /\ call \in [Calls -> [pc : CallPcs, user : Users \cup {NoUser},
                             row : Rows \cup {NoRow}, sum : Nat]]
      /\ booked \in [Calls -> Nat] /\ bonuses \in [Users -> Nat] /\ NoUser \notin Users
  BY PromocodesAssumption DEF TypeOK
<1>2. BookedLast
  BY DEF BooksInv
<1>3. CASE UNCHANGED <<call, booked, bonuses>>
  BY <1>1, <1>2, <1>3, BooksKept DEF BookedLast, BookedFor, OpenFor
<1>4. ASSUME NEW k \in Calls, NEW u \in Users, NEW r \in Rows, UseFind(k, u, r) PROVE BooksInv'
  <2>1. /\ call[k].pc = "idle" /\ call'[k].pc = "checked"
        /\ \A l \in Calls \ {k} : call'[l] = call[l]
        /\ UNCHANGED <<booked, bonuses>>
    BY <1>1, <1>4 DEF UseFind
  <2>2. BookedLast'
    BY <1>2, <2>1 DEF BookedLast
  <2>3. booked[k] = 0
    BY <1>2, <2>1 DEF BookedLast
  <2>4. ASSUME NEW v \in Users
        PROVE  /\ \A l : l # k => BookedFor(v, l)' = BookedFor(v, l) /\ OpenFor(v, l)' = OpenFor(v, l)
               /\ BookedFor(v, k) = 0 /\ OpenFor(v, k) = 0
               /\ BookedFor(v, k)' = 0 /\ OpenFor(v, k)' = 0
    BY <2>1, <2>3 DEF BookedFor, OpenFor
  <2> QED
    BY <1>1, <2>1, <2>2, <2>4, BooksKept
<1>5. ASSUME NEW k \in Calls, UseGrant(k) PROVE BooksInv'
  <2>1. /\ call[k].pc = "checked" /\ call'[k].pc \in {"granted", "unbooked"}
        /\ call'[k].user = call[k].user /\ call'[k].sum = call[k].sum
        /\ \A l \in Calls \ {k} : call'[l] = call[l]
        /\ UNCHANGED booked
    BY <1>1, <1>5 DEF UseGrant, Goto
  <2>2. /\ call[k].user \in Users
        /\ bonuses' = [bonuses EXCEPT ![call[k].user] = @ + call[k].sum]
    BY <1>5, <2>1 DEF UseGrant, CallsInv, Underway
  <2>3. BookedLast'
    BY <1>2, <2>1 DEF BookedLast
  <2>4. ASSUME NEW v \in Users
        PROVE  /\ \A l : l # k => BookedFor(v, l)' = BookedFor(v, l) /\ OpenFor(v, l)' = OpenFor(v, l)
               /\ BookedFor(v, k)' = BookedFor(v, k) /\ BookedFor(v, k) \in Nat
               /\ OpenFor(v, k) = 0
               /\ OpenFor(v, k)' = (IF call[k].user = v THEN call[k].sum ELSE 0)
    BY <1>1, <2>1 DEF BookedFor, OpenFor
  <2>5. ASSUME NEW v \in Users
        PROVE  /\ bonuses[v] \in Nat /\ call[k].sum \in Nat
               /\ bonuses'[v] = bonuses[v] + (IF call[k].user = v THEN call[k].sum ELSE 0)
    BY <1>1, <2>2
  <2>6. ASSUME NEW v \in Users
        PROVE  bonuses'[v] + BookedFor(v, k) + OpenFor(v, k)
                 = bonuses[v] + BookedFor(v, k)' + OpenFor(v, k)'
    BY <2>4, <2>5
  <2> QED
    BY <2>3, <2>4, <2>6, BooksKept
<1>6. ASSUME NEW k \in Calls, UseBook(k) PROVE BooksInv'
  <2>1. /\ call[k].pc = "granted" /\ call'[k].user = call[k].user /\ call'[k].sum = call[k].sum
        /\ \A l \in Calls \ {k} : call'[l] = call[l] /\ booked'[l] = booked[l]
        /\ UNCHANGED bonuses
        /\ \/ call'[k].pc = "booked" /\ booked'[k] = call[k].sum
           \/ call'[k].pc = "unbooked" /\ booked'[k] = booked[k]
    BY <1>1, <1>6 DEF UseBook, Goto
  <2>2. booked[k] = 0 /\ call[k].sum \in Nat
    BY <1>1, <1>2, <2>1 DEF BookedLast
  <2>3. BookedLast'
    BY <1>2, <2>1 DEF BookedLast
  <2>4. ASSUME NEW v \in Users
        PROVE  /\ \A l : l # k => BookedFor(v, l)' = BookedFor(v, l) /\ OpenFor(v, l)' = OpenFor(v, l)
               /\ bonuses'[v] + BookedFor(v, k) + OpenFor(v, k)
                    = bonuses[v] + BookedFor(v, k)' + OpenFor(v, k)'
    <3>1. \A l : l # k => BookedFor(v, l)' = BookedFor(v, l) /\ OpenFor(v, l)' = OpenFor(v, l)
      BY <2>1 DEF BookedFor, OpenFor
    <3>2. BookedFor(v, k) + OpenFor(v, k) = BookedFor(v, k)' + OpenFor(v, k)'
      BY <2>1, <2>2 DEF BookedFor, OpenFor
    <3>3. /\ BookedFor(v, k) \in Nat /\ OpenFor(v, k) \in Nat
          /\ BookedFor(v, k)' \in Nat /\ OpenFor(v, k)' \in Nat
      BY <2>1, <2>2 DEF BookedFor, OpenFor
    <3> QED
      BY <1>1, <2>1, <3>1, <3>2, <3>3
  <2> QED
    BY <2>3, <2>4, BooksKept
<1>7. ASSUME UNCHANGED <<booked, bonuses>>,
             \A k \in Calls :
               /\ call'[k].user = call[k].user /\ call'[k].sum = call[k].sum
               /\ call'[k].pc = "booked" <=> call[k].pc = "booked"
               /\ call'[k].pc \in {"granted", "unbooked"} <=> call[k].pc \in {"granted", "unbooked"}
      PROVE  BooksInv'
  <2>1. BookedLast'
    BY <1>2, <1>7 DEF BookedLast
  <2>2. ASSUME NEW v \in Users, NEW k
        PROVE  BookedFor(v, k)' = BookedFor(v, k) /\ OpenFor(v, k)' = OpenFor(v, k)
    BY <1>7 DEF BookedFor, OpenFor
  <2> QED
    BY <1>7, <2>1, <2>2, BooksKept
<1>8. ASSUME NEW k \in Calls, NEW u \in Users, UseRefuse(k, u) PROVE BooksInv'
  BY <1>1, <1>7, <1>8 DEF UseRefuse, Goto
<1>9. ASSUME NEW k \in Calls, UseFail(k) PROVE BooksInv'
  BY <1>1, <1>7, <1>9 DEF UseFail, Goto
<1>10. CASE Crash
  BY <1>1, <1>7, <1>10 DEF Crash
<1>11. ASSUME NEW r \in Rows, RowNext(r) PROVE BooksInv'
  BY <1>3, <1>11 DEF RowNext, Create, Edit, Write, Remove, JobArchive, Lapse, useVars
<1>12. CASE JobFind \/ UNCHANGED vars
  BY <1>3, <1>12 DEF JobFind, vars, useVars
<1> QED
  BY <1>4, <1>5, <1>6, <1>8, <1>9, <1>10, <1>11, <1>12 DEF Next, UseNext

LEMMA BooksInit == Init => BooksInv
<1> SUFFICES ASSUME Init PROVE BooksInv
  OBVIOUS
<1>1. BookedLast
  BY DEF Init, BookedLast
<1>2. ASSUME NEW u \in Users
      PROVE  /\ IsFiniteSet(Units(BookedOf(u))) /\ IsFiniteSet(Units(OpenOf(u)))
             /\ bonuses[u] = SumOf(BookedOf(u)) + SumOf(OpenOf(u))
  <2>1. \A k : ~(k \in Calls /\ call[k].user = u)
    BY PromocodesAssumption DEF Init
  <2>2. /\ Natural(BookedOf(u)) /\ Natural(OpenOf(u))
        /\ \A k : At(BookedOf(u), k) = 0 /\ At(OpenOf(u), k) = 0
    BY <2>1 DEF Natural, At, BookedOf, OpenOf, Open
  <2>4. /\ IsFiniteSet(Units(BookedOf(u))) /\ SumOf(BookedOf(u)) = 0
        /\ IsFiniteSet(Units(OpenOf(u))) /\ SumOf(OpenOf(u)) = 0
    BY <2>2, ZeroSum
  <2>3. bonuses[u] = 0
    BY DEF Init
  <2> QED
    BY <2>3, <2>4
<1> QED
  BY <1>1, <1>2 DEF BooksInv

\* Whatever fails, crashes or is edited between the statements of a call, the
\* bonuses of a user are what his Payment rows say and what was granted to him
\* without one.
THEOREM BooksExplained == Spec => []BooksExplainBonuses
<1>1. TypeOK /\ CallsInv /\ TypeOK' /\ BooksInv /\ [Next]_vars => BooksInv'
  BY BooksStep
<1>2. IInv => TypeOK /\ CallsInv
  BY DEF IInv
<1>3. BooksInv => BooksExplainBonuses
  BY DEF BooksInv, BooksExplainBonuses, Booked, Unbooked, BookedOf, OpenOf
<1> QED
  BY <1>1, <1>2, <1>3, BooksInit, PromocodesInductive, PTL DEF Spec

(***************************************************************************)
(* TariffOrder.                                                            *)
(***************************************************************************)
Made == {t \in Tariffs : tariffStatus[t] # "none"}
Listed(s) == {s[i] : i \in 1 .. Len(s)}

\* What a handler holds: the count it may go by, or a list without repetitions
\* that is placed up to where it is; both are true of the table while it is calm.
HandlerInv(k) ==
  /\ req[k].pc = "counted" =>
       /\ req[k].tariff \in Tariffs /\ req[k].to \in {"ACTIVE", "ARCHIVE"}
       /\ req[k].calm => req[k].count = Cardinality(Order!Active)
  /\ req[k].pc = "placing" =>
       /\ Len(req[k].list) <= serial /\ req[k].from \in 1 .. Len(req[k].list)
       /\ \A i, j \in 1 .. Len(req[k].list) : i # j => req[k].list[i] # req[k].list[j]
       /\ req[k].calm =>
            /\ Order!Active = Listed(req[k].list)
            /\ Cardinality(Order!Active) = Len(req[k].list)
            /\ \A i \in 1 .. req[k].from - 1 :
                 place[req[k].list[i]] = Len(req[k].list) + 1 - i

OrderInv ==
  /\ Order!TypeOK
  /\ serial = Cardinality(Made)
  /\ \A k \in Requests : HandlerInv(k)
  /\ Order!PlacesDense /\ Order!OrderKept

\* The counts of the module are those of the library's theorems.
LEMMA SameCount == \A S : /\ Order!Cardinality(S) = Cardinality(S)
                          /\ Order!IsFiniteSet(S) <=> IsFiniteSet(S)
<1>1. \A S : Order!Cardinality(S) = Cardinality(S)
  BY DEF Order!Cardinality, Cardinality
<1>2. \A S : Order!IsFiniteSet(S) <=> IsFiniteSet(S)
  BY DEF Order!IsFiniteSet, IsFiniteSet
<1> QED
  BY <1>1, <1>2

LEMMA TariffsFinite ==
  /\ IsFiniteSet(Tariffs) /\ MaxPlace \in Nat /\ NoRow \notin Tariffs \cup Requests
  /\ \A S \in SUBSET Tariffs : IsFiniteSet(S) /\ Cardinality(S) \in 0 .. Cardinality(Tariffs)
<1>1. IsFiniteSet(Tariffs) /\ MaxPlace \in Nat /\ NoRow \notin Tariffs \cup Requests
  BY MCOffersAssumption, SameCount DEF Order!TariffOrderAssumption
<1>2. ASSUME NEW S \in SUBSET Tariffs
      PROVE  IsFiniteSet(S) /\ Cardinality(S) \in 0 .. Cardinality(Tariffs)
  <2>1. IsFiniteSet(S) /\ Cardinality(S) <= Cardinality(Tariffs)
    BY <1>1, FS_Subset
  <2>2. Cardinality(S) \in Nat /\ Cardinality(Tariffs) \in Nat
    BY <1>1, <2>1, FS_CardinalityType
  <2> QED
    BY <2>1, <2>2
<1> QED
  BY <1>1, <1>2

ReqRecord ==
  [pc : Order!Pcs, tariff : Tariffs \cup {NoRow}, to : {"none", "ACTIVE", "ARCHIVE"},
   count : 0 .. Cardinality(Tariffs), list : Seq(Tariffs), from : 1 .. Cardinality(Tariffs) + 1,
   calm : BOOLEAN]

OrderType ==
  /\ tariffStatus \in [Tariffs -> {"none", "ACTIVE", "ARCHIVE", "removed"}]
  /\ place \in [Tariffs -> 0 .. MaxPlace] /\ serial \in 0 .. MaxPlace
  /\ req \in [Requests -> ReqRecord]
  /\ rough \in BOOLEAN /\ renumbered \in Seq(Tariffs)

LEMMA OrderTypeIs == Order!TypeOK <=> OrderType
<1>1. Order!Cardinality(Tariffs) = Cardinality(Tariffs)
  BY SameCount
<1> QED
  BY <1>1 DEF Order!TypeOK, OrderType, ReqRecord

LEMMA OrderTypeNext == Order!TypeOK' <=> OrderType'
  BY OrderTypeIs, PTL

\* A list of the active tariffs has each of them once.
LEMMA ListsAreWhole ==
  ASSUME OrderInv, NEW s, s \in Order!Lists
  PROVE  /\ s \in Seq(Tariffs) /\ Len(s) = Cardinality(Order!Active)
         /\ Len(s) <= serial /\ Len(s) <= Cardinality(Tariffs)
         /\ \A i, j \in 1 .. Len(s) : i # j => s[i] # s[j]
         /\ Order!Active = Listed(s)
<1> DEFINE A == Order!Active
           n == Cardinality(A)
<1>1. A \subseteq Made /\ Made \subseteq Tariffs
  BY DEF Order!Active, Made
<1>2. /\ IsFiniteSet(A) /\ n \in Nat /\ n <= Cardinality(Tariffs) /\ n <= serial
      /\ Cardinality(Tariffs) \in Nat
  <2>1. IsFiniteSet(A) /\ n \in Nat /\ n <= Cardinality(Tariffs) /\ IsFiniteSet(Made)
    BY <1>1, TariffsFinite
  <2>2. n <= Cardinality(Made)
    BY <1>1, <2>1, FS_Subset
  <2> QED
    BY <2>1, <2>2, TariffsFinite, FS_CardinalityType DEF OrderInv
<1>3. s \in Order!SetToSeqs(A)
  BY DEF Order!Lists
<1>4. s \in [1 .. n -> A] /\ \A i, j \in 1 .. n : i # j => s[i] # s[j]
  <2>1. Order!Cardinality(A) = n
    BY SameCount
  <2> HIDE DEF n
  <2> QED
    BY <1>3, <2>1 DEF Order!SetToSeqs
<1>5. s \in Surjection(1 .. n, A)
  <2>1. IsFiniteSet(1 .. n) /\ Cardinality(1 .. n) = n
    BY <1>2, FS_Interval
  <2>2. s \in Injection(1 .. n, A)
    BY <1>4 DEF Injection, IsInjective
  <2> QED
    BY <1>2, <2>1, <2>2, FS_Injection
<1> HIDE DEF n
<1>6. s \in Seq(A) /\ Len(s) = n
  BY <1>2, <1>4
<1>7. s \in Seq(Tariffs)
  BY <1>1, <1>6, SeqMonotonic
<1>8. Order!Active = Listed(s)
  BY <1>4, <1>5, <1>6 DEF Surjection, Listed
<1> QED
  BY <1>2, <1>4, <1>6, <1>7, <1>8 DEF n

LEMMA OrderInit == Order!Init => OrderInv
<1> SUFFICES ASSUME Order!Init PROVE OrderInv
  OBVIOUS
<1>1. Order!Idle \in ReqRecord /\ Order!Idle.pc = "idle"
  BY TariffsFinite DEF Order!Idle, Order!Pcs, ReqRecord
<1>2. Order!TypeOK
  <2>1. req \in [Requests -> ReqRecord] /\ renumbered \in Seq(Tariffs)
    BY <1>1 DEF Order!Init
  <2>2. serial \in 0 .. MaxPlace /\ place \in [Tariffs -> 0 .. MaxPlace]
    BY TariffsFinite DEF Order!Init
  <2> QED
    BY <2>1, <2>2, OrderTypeIs DEF Order!Init, OrderType
<1>3. Made = {} /\ Order!Active = {}
  BY DEF Order!Init, Made, Order!Active
<1>4. serial = Cardinality(Made)
  BY <1>3, FS_EmptySet DEF Order!Init
<1>5. \A k \in Requests : HandlerInv(k)
  BY <1>1 DEF Order!Init, HandlerInv
<1>6. Order!PlacesDense
  <2>1. Order!Cardinality(Order!Active) = 0
    BY <1>3, SameCount, FS_EmptySet
  <2>2. {place[t] : t \in Order!Active} = {} /\ 1 .. 0 = {}
    BY <1>3
  <2> QED
    BY <2>1, <2>2 DEF Order!PlacesDense, Order!Dense
<1>7. Order!OrderKept
  BY DEF Order!Init, Order!OrderKept
<1> QED
  BY <1>2, <1>4, <1>5, <1>6, <1>7 DEF OrderInv

\* The table changes: whoever held it in mind has an old one.
LEMMA OthersLoseCalm ==
  ASSUME OrderInv, NEW k, NEW r, Order!Changes(k, r), k \in Requests => r \in ReqRecord,
         serial' \in Nat, serial <= serial'
  PROVE  /\ req' \in [Requests -> ReqRecord]
         /\ \A l \in Requests \ {k} : HandlerInv(l)'
         /\ k \in Requests => req'[k] = r
<1>1. req \in [Requests -> ReqRecord] /\ serial \in Nat
  BY OrderTypeIs DEF OrderType, OrderInv
<1>2. req' = [l \in Requests |-> IF l = k THEN r ELSE [req[l] EXCEPT !.calm = FALSE]]
  BY DEF Order!Changes
<1>3. ASSUME NEW l \in Requests, l # k
      PROVE  /\ req'[l] \in ReqRecord /\ ~req'[l].calm /\ req'[l].pc = req[l].pc
             /\ req'[l].tariff = req[l].tariff /\ req'[l].to = req[l].to
             /\ req'[l].list = req[l].list /\ req'[l].from = req[l].from
  <2>1. req'[l] = [req[l] EXCEPT !.calm = FALSE] /\ req[l] \in ReqRecord
    BY <1>1, <1>2, <1>3
  <2> QED
    BY <2>1 DEF ReqRecord
<1>4. req' \in [Requests -> ReqRecord]
  BY <1>2, <1>3
<1>5. ASSUME NEW l \in Requests, l # k
      PROVE  HandlerInv(l)'
  <2>1. HandlerInv(l) /\ Len(req[l].list) \in Nat
    BY <1>1, LenProperties DEF OrderInv, ReqRecord
  <2> QED
    BY <1>1, <1>3, <1>5, <2>1 DEF HandlerInv
<1> QED
  BY <1>2, <1>4, <1>5

LEMMA IdleIs ==
  /\ Order!Idle \in ReqRecord /\ Order!Idle.pc = "idle"
  /\ [Order!Idle EXCEPT !.pc = "archived"] \in ReqRecord
  /\ [Order!Idle EXCEPT !.pc = "archived"].pc = "archived"
<1>1. Order!Idle = [pc |-> "idle", tariff |-> NoRow, to |-> "none", count |-> 0, list |-> <<>>,
                    from |-> 1, calm |-> FALSE]
  BY DEF Order!Idle
<1>2. Cardinality(Tariffs) \in Nat /\ <<>> \in Seq(Tariffs)
  BY TariffsFinite, FS_CardinalityType
<1>3. 0 \in 0 .. Cardinality(Tariffs) /\ 1 \in 1 .. Cardinality(Tariffs) + 1
  BY <1>2
<1>4. [Order!Idle EXCEPT !.pc = "archived"] =
        [pc |-> "archived", tariff |-> NoRow, to |-> "none", count |-> 0, list |-> <<>>,
         from |-> 1, calm |-> FALSE]
  <2>1. PICK r : r = [Order!Idle EXCEPT !.pc = "archived"]
    OBVIOUS
  <2>2. r = [pc |-> "archived", tariff |-> NoRow, to |-> "none", count |-> 0, list |-> <<>>,
             from |-> 1, calm |-> FALSE]
    BY <2>1 DEF Order!Idle
  <2> QED
    BY <2>1, <2>2
<1> QED
  BY <1>1, <1>2, <1>3, <1>4 DEF ReqRecord, Order!Pcs

LEMMA ActiveFinite ==
  ASSUME OrderInv
  PROVE  /\ IsFiniteSet(Made) /\ serial = Cardinality(Made) /\ MaxPlace \in Nat
         /\ serial <= Cardinality(Tariffs) /\ Cardinality(Tariffs) \in Nat
         /\ Order!Active \subseteq Made /\ Made \subseteq Tariffs
         /\ IsFiniteSet(Order!Active) /\ Cardinality(Order!Active) \in Nat
<1>1. Made \in SUBSET Tariffs /\ Order!Active \in SUBSET Tariffs
  BY DEF Made, Order!Active
<1>2. Order!Active \subseteq Made
  BY DEF Made, Order!Active
<1>3. Cardinality(Tariffs) \in Nat
  BY TariffsFinite, FS_CardinalityType
<1> QED
  BY <1>1, <1>2, <1>3, TariffsFinite DEF OrderInv

\* The places stay dense when the next one goes to a tariff that joins the list.
LEMMA OneMorePlace ==
  ASSUME OrderInv, ~rough, NEW t \in Tariffs, t \notin Order!Active,
         Order!Active' = Order!Active \cup {t},
         place' = [place EXCEPT ![t] = Cardinality(Order!Active) + 1]
  PROVE  {place'[u] : u \in Order!Active'} = 1 .. Cardinality(Order!Active')
<1> DEFINE A == Order!Active
           n == Cardinality(A)
<1>1. IsFiniteSet(A) /\ n \in Nat /\ A \subseteq Tariffs /\ place \in [Tariffs -> 0 .. MaxPlace]
  BY ActiveFinite, OrderTypeIs DEF OrderInv, OrderType
<1>2. {place[u] : u \in A} = 1 .. n
  BY SameCount DEF OrderInv, Order!PlacesDense, Order!Dense
<1>3. Cardinality(Order!Active') = n + 1
  BY <1>1, FS_AddElement
<1> HIDE DEF n
<1>4. place'[t] = n + 1 /\ \A u \in A : place'[u] = place[u]
  BY <1>1 DEF n
<1>5. Order!Active' = A \cup {t}
  OBVIOUS
<1> HIDE DEF A
<1>6. {place'[u] : u \in A \cup {t}} = {place[u] : u \in A} \cup {n + 1}
  BY <1>4
<1>7. 1 .. n + 1 = (1 .. n) \cup {n + 1}
  BY <1>1
<1> QED
  BY <1>2, <1>3, <1>5, <1>6, <1>7

\* A row is created, edited or removed.
LEMMA RowsStep ==
  ASSUME OrderInv, NEW t \in Tariffs,
         \/ Order!Create(t) \/ Order!RemoveTariff(t)
         \/ \E to \in {"ACTIVE", "ARCHIVE"} : Order!EditStatus(t, to)
         \/ \E n \in 0 .. MaxPlace : Order!Reorder(t, n)
  PROVE  OrderInv'
<1>1. Order!Changed
  BY DEF Order!Create, Order!RemoveTariff, Order!EditStatus, Order!Reorder
<1>2. /\ tariffStatus \in [Tariffs -> {"none", "ACTIVE", "ARCHIVE", "removed"}]
      /\ place \in [Tariffs -> 0 .. MaxPlace] /\ serial \in 0 .. MaxPlace
      /\ IsFiniteSet(Made) /\ serial = Cardinality(Made) /\ MaxPlace \in Nat
      /\ IsFiniteSet(Order!Active) /\ Cardinality(Order!Active) \in Nat
  <2>1. Made \in SUBSET Tariffs /\ Order!Active \in SUBSET Tariffs
    BY DEF Made, Order!Active
  <2>2. Cardinality(Tariffs) \in Nat
    BY TariffsFinite, FS_CardinalityType
  <2> QED
    BY <2>1, <2>2, OrderTypeIs, TariffsFinite DEF OrderType, OrderInv
<1>3. /\ tariffStatus' \in [Tariffs -> {"none", "ACTIVE", "ARCHIVE", "removed"}]
      /\ place' \in [Tariffs -> 0 .. MaxPlace] /\ serial' \in 0 .. MaxPlace
      /\ serial <= serial' /\ rough' \in BOOLEAN
  <2>1. CASE Order!Create(t)
    <3>1. PICK as \in {"ACTIVE", "ARCHIVE"} :
            /\ tariffStatus' = [tariffStatus EXCEPT ![t] = as]
            /\ rough' = (rough \/ (as = "ACTIVE" /\ serial # Order!Cardinality(Order!Active)))
      BY <2>1 DEF Order!Create
    <3>2. serial < MaxPlace /\ serial' = serial + 1
          /\ place' = [place EXCEPT ![t] = serial + 1]
      BY <2>1 DEF Order!Create
    <3>3. serial + 1 \in 0 .. MaxPlace /\ rough \in BOOLEAN
      BY <1>2, <3>2, OrderTypeIs DEF OrderType, OrderInv
    <3>4. rough' \in BOOLEAN
      BY <3>1, <3>3
    <3>5. /\ tariffStatus' \in [Tariffs -> {"none", "ACTIVE", "ARCHIVE", "removed"}]
          /\ place' \in [Tariffs -> 0 .. MaxPlace]
      BY <1>2, <3>1, <3>2, <3>3
    <3> QED
      BY <1>2, <3>2, <3>3, <3>4, <3>5
  <2>2. CASE Order!RemoveTariff(t)
    BY <1>2, <2>2 DEF Order!RemoveTariff
  <2>3. CASE \E to \in {"ACTIVE", "ARCHIVE"} : Order!EditStatus(t, to)
    BY <1>2, <2>3 DEF Order!EditStatus
  <2>4. CASE \E n \in 0 .. MaxPlace : Order!Reorder(t, n)
    BY <1>2, <2>4 DEF Order!Reorder
  <2> QED
    BY <2>1, <2>2, <2>3, <2>4
<1>4. serial' = Cardinality(Made')
  <2>1. CASE Order!Create(t)
    <3>1. Made' = Made \cup {t} /\ t \notin Made
      BY <1>2, <2>1 DEF Order!Create, Made
    <3>2. Cardinality(Made') = Cardinality(Made) + 1
      BY <1>2, <3>1, FS_AddElement
    <3> QED
      BY <1>2, <2>1, <3>2 DEF Order!Create
  <2>2. CASE ~Order!Create(t)
    <3>1. Made' = Made /\ serial' = serial
      BY <1>2, <2>2
         DEF Order!RemoveTariff, Order!EditStatus, Order!Reorder, Made, Order!There
    <3> QED
      BY <1>2, <3>1
  <2> QED
    BY <2>1, <2>2
<1>5. req' \in [Requests -> ReqRecord] /\ \A l \in Requests : HandlerInv(l)'
  <2>1. Order!Changes(NoRow, Order!Idle) /\ NoRow \notin Requests
    BY <1>1, TariffsFinite DEF Order!Changed
  <2>2. serial' \in Nat /\ serial <= serial'
    BY <1>3
  <2> QED
    BY <2>1, <2>2, OthersLoseCalm
<1>6. renumbered' = <<>> /\ Order!OrderKept'
  BY <1>1 DEF Order!Changed, Order!OrderKept
<1>7. Order!TypeOK'
  <2>1. renumbered' \in Seq(Tariffs)
    BY <1>6
  <2> QED
    BY <1>3, <1>5, <2>1, OrderTypeNext DEF OrderType
<1>8. Order!PlacesDense'
  <2>1. CASE \E n \in 0 .. MaxPlace : Order!Reorder(t, n)
    BY <2>1 DEF Order!Reorder, Order!PlacesDense
  <2>2. ASSUME ~(\E n \in 0 .. MaxPlace : Order!Reorder(t, n)), ~rough'
        PROVE  {place'[u] : u \in Order!Active'} = 1 .. Cardinality(Order!Active')
    <3> DEFINE A == Order!Active
               n == Cardinality(A)
    <3>1. Order!Create(t) /\ ~rough
      BY <2>2 DEF Order!RemoveTariff, Order!EditStatus, Order!Create
    <3>2. CASE tariffStatus' = [tariffStatus EXCEPT ![t] = "ACTIVE"] /\ serial = n
      <4>1. /\ Order!Active' = A \cup {t} /\ t \notin A
            /\ place' = [place EXCEPT ![t] = n + 1]
        BY <1>2, <3>1, <3>2 DEF Order!Create, Order!Active
      <4> QED
        BY <3>1, <4>1, OneMorePlace
    <3>3. CASE tariffStatus' = [tariffStatus EXCEPT ![t] = "ARCHIVE"]
      <4>1. t \notin A /\ Order!Active' = A /\ A \subseteq Tariffs
        BY <1>2, <3>1, <3>3 DEF Order!Create, Order!Active
      <4>2. \A u \in A : place'[u] = place[u]
        BY <1>2, <3>1, <4>1 DEF Order!Create
      <4>3. {place[u] : u \in A} = 1 .. Cardinality(A)
        BY <3>1, SameCount DEF OrderInv, Order!PlacesDense, Order!Dense
      <4> QED
        BY <4>1, <4>2, <4>3
    <3>4. Order!Cardinality(A) = n
      BY SameCount
    <3> QED
      BY <2>2, <3>1, <3>2, <3>3, <3>4 DEF Order!Create
  <2>3. Order!Cardinality(Order!Active') = Cardinality(Order!Active')
    BY SameCount
  <2> QED
    BY <2>1, <2>2, <2>3 DEF Order!PlacesDense, Order!Dense
<1> QED
  BY <1>4, <1>5, <1>6, <1>7, <1>8 DEF OrderInv

\* A step of handler k alone: the others keep what they hold.
LEMMA OnlyHandler ==
  ASSUME OrderInv, NEW k \in Requests, NEW r \in ReqRecord,
         req' = [req EXCEPT ![k] = r],
         UNCHANGED <<tariffStatus, place, serial, rough, renumbered>>,
         req'[k] = r => HandlerInv(k)'
  PROVE  OrderInv'
<1>1. OrderType
  BY OrderTypeIs DEF OrderInv
<1>2. req' \in [Requests -> ReqRecord] /\ req'[k] = r /\ \A l \in Requests \ {k} : req'[l] = req[l]
  BY <1>1 DEF OrderType
<1>3. Order!TypeOK'
  BY <1>1, <1>2, OrderTypeNext DEF OrderType
<1>4. Made' = Made /\ Order!Active' = Order!Active
  BY DEF Made, Order!Active
<1>5. \A l \in Requests \ {k} : HandlerInv(l)'
  BY <1>2, <1>4 DEF OrderInv, HandlerInv
<1>6. Order!PlacesDense' /\ Order!OrderKept'
  BY <1>4 DEF OrderInv, Order!PlacesDense, Order!Dense, Order!OrderKept
<1> QED
  BY <1>2, <1>3, <1>4, <1>5, <1>6 DEF OrderInv

LEMMA CountStep ==
  ASSUME OrderInv, NEW k \in Requests, NEW t \in Tariffs, NEW to \in {"ACTIVE", "ARCHIVE"},
         Order!Count(k, t, to)
  PROVE  OrderInv'
<1> DEFINE n == Cardinality(Order!Active)
<1>1. n \in 0 .. Cardinality(Tariffs) /\ 1 \in 1 .. Cardinality(Tariffs) + 1
  <2>1. Order!Active \in SUBSET Tariffs
    BY DEF Order!Active
  <2> QED
    BY <2>1, TariffsFinite, FS_CardinalityType
<1>2. UNCHANGED <<tariffStatus, place, serial, rough, renumbered>>
  BY DEF Order!Count
<1>3. PICK r : /\ r = [Order!Idle EXCEPT !.pc = "counted", !.tariff = t, !.to = to, !.count = n,
                                         !.calm = TRUE]
               /\ req' = [req EXCEPT ![k] = r]
  <2>1. Order!Cardinality(Order!Active) = n
    BY SameCount
  <2> QED
    BY <2>1 DEF Order!Count
<1> HIDE DEF n
<1>4. r = [pc |-> "counted", tariff |-> t, to |-> to, count |-> n, list |-> <<>>,
           from |-> 1, calm |-> TRUE]
  BY <1>3 DEF Order!Idle
<1>5. r \in ReqRecord
  BY <1>1, <1>4 DEF ReqRecord, Order!Pcs
<1>6. Order!Active' = Order!Active
  BY <1>2 DEF Order!Active
<1>7. req'[k] = r => HandlerInv(k)'
  BY <1>4, <1>6 DEF HandlerInv, n
<1> QED
  BY <1>2, <1>3, <1>5, <1>7, OnlyHandler

\* A list is read, or sent: it is placed from its head.
LEMMA ListStep ==
  ASSUME OrderInv, NEW k \in Requests, Order!ListActive(k)
  PROVE  OrderInv'
<1>1. PICK s : /\ s \in Order!Lists
               /\ \/ s = <<>> /\ req' = [req EXCEPT ![k] = Order!Idle]
                  \/ s # <<>> /\ req' = [req EXCEPT ![k] = Order!Placing(s)]
  BY DEF Order!ListActive
<1>2. UNCHANGED <<tariffStatus, place, serial, rough, renumbered>>
  BY DEF Order!ListActive
<1>3. CASE req' = [req EXCEPT ![k] = Order!Idle]
  BY <1>2, <1>3, OnlyHandler, IdleIs DEF HandlerInv
<1>4. CASE s # <<>> /\ req' = [req EXCEPT ![k] = Order!Placing(s)]
  <2> PICK r : r = Order!Placing(s) /\ req' = [req EXCEPT ![k] = r]
    BY <1>4
  <2>1. /\ s \in Seq(Tariffs) /\ Len(s) = Cardinality(Order!Active)
        /\ Len(s) <= serial /\ Len(s) <= Cardinality(Tariffs)
        /\ \A i, j \in 1 .. Len(s) : i # j => s[i] # s[j]
        /\ Order!Active = Listed(s)
    BY <1>1, ListsAreWhole
  <2>2. Len(s) \in Nat \ {0}
    BY <1>4, <2>1
  <2>3. r = [pc |-> "placing", tariff |-> NoRow, to |-> "none", count |-> 0, list |-> s,
             from |-> 1, calm |-> TRUE]
    BY DEF Order!Placing, Order!Idle
  <2>4. r \in ReqRecord
    BY <2>1, <2>3, TariffsFinite, FS_CardinalityType DEF ReqRecord, Order!Pcs
  <2>5. Order!Active' = Order!Active
    BY <1>2 DEF Order!Active
  <2>6. req'[k] = r => HandlerInv(k)'
    BY <1>2, <2>1, <2>2, <2>3, <2>5 DEF HandlerInv
  <2> QED
    BY <1>2, <2>4, <2>6, OnlyHandler
<1> QED
  BY <1>1, <1>3, <1>4

\* changeTariffStatus writes what it made of the count.
LEMMA SetStatusStep ==
  ASSUME OrderInv, NEW k \in Requests, Order!SetStatus(k)
  PROVE  OrderInv'
<1> DEFINE t == req[k].tariff
<1>1. /\ t \in Tariffs /\ req[k].to \in {"ACTIVE", "ARCHIVE"} /\ req[k].count \in Nat
      /\ req[k].calm => req[k].count = Cardinality(Order!Active)
      /\ Order!NewPlace(k) \in 0 .. MaxPlace
  <2>1. HandlerInv(k) /\ req[k] \in ReqRecord /\ req[k].pc = "counted"
    BY OrderTypeIs DEF OrderInv, OrderType, Order!SetStatus, Order!At
  <2>2. req[k].count \in Nat
    BY <2>1, TariffsFinite, FS_CardinalityType DEF ReqRecord
  <2>3. Order!NewPlace(k) <= MaxPlace /\ MaxPlace \in Nat
    BY TariffsFinite DEF Order!SetStatus
  <2> QED
    BY <2>1, <2>2, <2>3 DEF HandlerInv, Order!NewPlace
<1>2. CASE ~Order!There(t)
  <2>1. /\ req' = [req EXCEPT ![k] = Order!Idle]
        /\ UNCHANGED <<tariffStatus, place, serial, rough, renumbered>>
    BY <1>2 DEF Order!SetStatus
  <2> QED
    BY <2>1, OnlyHandler, IdleIs DEF HandlerInv
<1>3. CASE Order!There(t)
  <2>1. /\ tariffStatus' = [tariffStatus EXCEPT ![t] = req[k].to]
        /\ place' = [place EXCEPT ![t] = Order!NewPlace(k)]
        /\ rough' = (rough \/ ~req[k].calm \/ tariffStatus[t] = "ACTIVE")
        /\ renumbered' = <<>> /\ serial' = serial
    BY <1>3 DEF Order!SetStatus
  <2>2. PICK r \in ReqRecord : r.pc \in {"idle", "archived"} /\ Order!Changes(k, r)
    BY <1>3, IdleIs DEF Order!SetStatus
  <2>3. OrderType
    BY OrderTypeIs DEF OrderInv
  <2>4. req' \in [Requests -> ReqRecord] /\ req'[k] = r /\ \A l \in Requests \ {k} : HandlerInv(l)'
    BY <2>1, <2>2, <2>3, OthersLoseCalm DEF OrderType
  <2>5. HandlerInv(k)'
    BY <2>2, <2>4 DEF HandlerInv
  <2>6. Order!TypeOK'
    <3>1. tariffStatus' \in [Tariffs -> {"none", "ACTIVE", "ARCHIVE", "removed"}]
      BY <1>1, <2>1, <2>3 DEF OrderType
    <3>2. place' \in [Tariffs -> 0 .. MaxPlace] /\ rough' \in BOOLEAN
      BY <1>1, <2>1, <2>3 DEF OrderType
    <3>3. renumbered' \in Seq(Tariffs)
      BY <2>1
    <3> QED
      BY <2>1, <2>3, <2>4, <3>1, <3>2, <3>3, OrderTypeNext DEF OrderType
  <2>7. serial' = Cardinality(Made')
    <3>1. Made' = Made
      BY <1>1, <1>3, <2>1, <2>3 DEF OrderType, Made, Order!There
    <3> QED
      BY <2>1, <3>1 DEF OrderInv
  <2>8. Order!OrderKept'
    BY <2>1 DEF Order!OrderKept
  <2>9. Order!PlacesDense'
    <3>1. ASSUME ~rough'
          PROVE  {place'[u] : u \in Order!Active'} = 1 .. Cardinality(Order!Active')
      <4>1. ~rough /\ req[k].calm /\ tariffStatus[t] # "ACTIVE"
        BY <2>1, <3>1
      <4>2. CASE req[k].to = "ACTIVE"
        <5>1. t \notin Order!Active /\ Order!Active' = Order!Active \cup {t}
          BY <1>1, <2>1, <2>3, <4>1, <4>2 DEF OrderType, Order!Active
        <5>2. place' = [place EXCEPT ![t] = Cardinality(Order!Active) + 1]
          BY <1>1, <2>1, <4>1, <4>2 DEF Order!NewPlace
        <5> QED
          BY <1>1, <4>1, <5>1, <5>2, OneMorePlace
      <4>3. CASE req[k].to = "ARCHIVE"
        <5>1. Order!Active' = Order!Active
          BY <1>1, <2>1, <2>3, <4>1, <4>3 DEF OrderType, Order!Active
        <5>2. \A u \in Order!Active : place'[u] = place[u]
          BY <2>1, <2>3, <4>1 DEF OrderType, Order!Active
        <5>3. {place[u] : u \in Order!Active} = 1 .. Cardinality(Order!Active)
          BY <4>1, SameCount DEF OrderInv, Order!PlacesDense, Order!Dense
        <5> QED
          BY <5>1, <5>2, <5>3
      <4> QED
        BY <1>1, <4>2, <4>3
    <3>2. Order!Cardinality(Order!Active') = Cardinality(Order!Active')
      BY SameCount
    <3> QED
      BY <3>1, <3>2 DEF Order!PlacesDense, Order!Dense
  <2> QED
    BY <2>4, <2>5, <2>6, <2>7, <2>8, <2>9 DEF OrderInv
<1> QED
  BY <1>2, <1>3

\* One update of a list: undisturbed, it brings the list one place further.
LEMMA PlaceStep ==
  ASSUME OrderInv, NEW k \in Requests, Order!Place(k)
  PROVE  OrderInv'
<1> DEFINE s == req[k].list
           i == req[k].from
           n == Len(s)
<1>1. OrderType /\ req[k] \in ReqRecord /\ req[k].pc = "placing" /\ HandlerInv(k)
  BY OrderTypeIs DEF OrderInv, OrderType, Order!Place, Order!At
<1>2. /\ s \in Seq(Tariffs) /\ n \in Nat /\ i \in 1 .. n /\ n <= serial
      /\ \A j \in 1 .. n : s[j] \in Tariffs
      /\ \A j, l \in 1 .. n : j # l => s[j] # s[l]
  <2>1. s \in Seq(Tariffs)
    BY <1>1 DEF ReqRecord
  <2>2. n \in Nat /\ \A j \in 1 .. n : s[j] \in Tariffs
    BY <2>1
  <2> QED
    BY <1>1, <2>1, <2>2 DEF HandlerInv
<1>3. n <= Cardinality(Tariffs) /\ n <= MaxPlace /\ Cardinality(Tariffs) \in Nat /\ MaxPlace \in Nat
  BY <1>1, <1>2, ActiveFinite DEF OrderType
<1>4. UNCHANGED <<tariffStatus, serial>>
  BY DEF Order!Place
<1>5. Made' = Made /\ Order!Active' = Order!Active
  BY <1>4 DEF Made, Order!Active
<1>6. CASE ~Order!There(s[i])
  <2>1. req' = [req EXCEPT ![k] = Order!Idle] /\ UNCHANGED <<place, rough, renumbered>>
    BY <1>6 DEF Order!Place
  <2> QED
    BY <1>4, <2>1, OnlyHandler, IdleIs DEF HandlerInv
<1>7. CASE Order!There(s[i])
  <2>1. /\ place' = [place EXCEPT ![s[i]] = n + 1 - i]
        /\ Order!Changes(k, IF i = n THEN Order!Idle ELSE [req[k] EXCEPT !.from = i + 1])
        /\ rough' = ~(i = n /\ req[k].calm)
        /\ renumbered' = IF i = n /\ req[k].calm THEN s ELSE <<>>
    BY <1>7 DEF Order!Place, Order!PlaceInList
  <2>2. /\ place' \in [Tariffs -> 0 .. MaxPlace]
        /\ req[k].calm => \A j \in 1 .. i : place'[s[j]] = n + 1 - j
    <3>1. s[i] \in Tariffs /\ n + 1 - i \in 0 .. MaxPlace /\ place \in [Tariffs -> 0 .. MaxPlace]
      <4>1. n + 1 - i \in 0 .. MaxPlace
        BY <1>2, <1>3
      <4> QED
        BY <1>1, <1>2, <4>1 DEF OrderType
    <3>2. place' \in [Tariffs -> 0 .. MaxPlace] /\ place'[s[i]] = n + 1 - i
      BY <2>1, <3>1
    <3>3. ASSUME req[k].calm, NEW j \in 1 .. i, j # i
          PROVE  place'[s[j]] = n + 1 - j
      <4>1. j \in 1 .. i - 1 /\ j \in 1 .. n /\ s[j] # s[i] /\ s[j] \in Tariffs
        BY <1>2, <3>3
      <4>2. place[s[j]] = n + 1 - j
        BY <1>1, <3>3, <4>1 DEF HandlerInv
      <4> QED
        BY <2>1, <3>1, <4>1, <4>2
    <3> QED
      BY <3>2, <3>3
  <2>3. PICK r \in ReqRecord :
          /\ Order!Changes(k, r)
          /\ \/ i = n /\ r.pc = "idle"
             \/ /\ i < n /\ r.pc = "placing" /\ r.list = s /\ r.from = i + 1
                /\ r.calm = req[k].calm
    <3>1. CASE i = n
      BY <2>1, <3>1, IdleIs
    <3>2. CASE i # n
      <4>1. PICK r : r = [req[k] EXCEPT !.from = i + 1] /\ Order!Changes(k, r)
        BY <2>1, <3>2
      <4>2. i + 1 \in 1 .. Cardinality(Tariffs) + 1 /\ i < n
        BY <1>2, <1>3, <3>2
      <4>3. /\ r \in ReqRecord /\ r.pc = "placing" /\ r.list = s /\ r.from = i + 1
            /\ r.calm = req[k].calm
        BY <1>1, <4>1, <4>2 DEF ReqRecord
      <4> QED
        BY <4>1, <4>2, <4>3
    <3> QED
      BY <3>1, <3>2
  <2>4. req' \in [Requests -> ReqRecord] /\ req'[k] = r /\ \A l \in Requests \ {k} : HandlerInv(l)'
    BY <1>1, <1>4, <2>3, OthersLoseCalm DEF OrderType
  <2>5. HandlerInv(k)'
    <3>1. CASE r.pc = "idle"
      BY <2>4, <3>1 DEF HandlerInv
    <3>2. CASE i < n /\ r.pc = "placing" /\ r.list = s /\ r.from = i + 1 /\ r.calm = req[k].calm
      <4>1. i + 1 \in 1 .. n /\ i + 1 - 1 = i
        BY <1>2, <3>2
      <4>2. req[k].calm => Order!Active = Listed(s) /\ Cardinality(Order!Active) = n
        BY <1>1 DEF HandlerInv
      <4> HIDE DEF n
      <4> QED
        BY <1>2, <1>4, <1>5, <2>2, <2>4, <3>2, <4>1, <4>2 DEF HandlerInv, n
    <3> QED
      BY <2>3, <3>1, <3>2
  <2>6. Order!TypeOK'
    <3>1. renumbered' \in Seq(Tariffs)
      BY <1>2, <2>1
    <3>2. rough' \in BOOLEAN
      BY <2>1
    <3> QED
      BY <1>1, <1>4, <2>2, <2>4, <3>1, <3>2, OrderTypeNext DEF OrderType
  <2>7. serial' = Cardinality(Made')
    BY <1>4, <1>5 DEF OrderInv
  <2>8. Order!OrderKept'
    <3>1. CASE i = n /\ req[k].calm
      <4>1. renumbered' = s /\ \A j \in 1 .. n : place'[s[j]] = n + 1 - j
        BY <2>1, <2>2, <3>1
      <4> QED
        BY <1>2, <4>1 DEF Order!OrderKept
    <3>2. CASE ~(i = n /\ req[k].calm)
      BY <2>1, <3>2 DEF Order!OrderKept
    <3> QED
      BY <3>1, <3>2
  <2>9. Order!PlacesDense'
    <3>1. ASSUME ~rough'
          PROVE  {place'[u] : u \in Order!Active'} = 1 .. Cardinality(Order!Active')
      <4>1. /\ \A j \in 1 .. n : place'[s[j]] = n + 1 - j
            /\ Order!Active' = Listed(s) /\ Cardinality(Order!Active') = n
        <5>1. Order!Active' = Listed(s)
          BY <1>1, <1>5, <2>1, <2>2, <3>1 DEF HandlerInv
        <5>2. Cardinality(Order!Active') = n
          BY <1>1, <1>5, <2>1, <2>2, <3>1, <5>1 DEF HandlerInv
        <5>3. \A j \in 1 .. n : place'[s[j]] = n + 1 - j
          BY <1>1, <1>5, <2>1, <2>2, <3>1 DEF HandlerInv
        <5> QED
          BY <5>1, <5>2, <5>3
      <4>2. {place'[u] : u \in Listed(s)} = {n + 1 - j : j \in 1 .. n}
        BY <4>1 DEF Listed
      <4>3. {n + 1 - j : j \in 1 .. n} = 1 .. n
        <5>1. \A m \in 1 .. n : n + 1 - m \in 1 .. n /\ m = n + 1 - (n + 1 - m)
          BY <1>2
        <5> HIDE DEF n
        <5> QED
          BY <5>1
      <4> QED
        BY <4>1, <4>2, <4>3
    <3>2. Order!Cardinality(Order!Active') = Cardinality(Order!Active')
      BY SameCount
    <3> QED
      BY <3>1, <3>2 DEF Order!PlacesDense, Order!Dense
  <2> QED
    BY <2>4, <2>5, <2>6, <2>7, <2>8, <2>9 DEF OrderInv
<1> QED
  BY <1>6, <1>7

LEMMA OrderStep == OrderInv /\ [Order!Next]_(Order!vars) => OrderInv'
<1> SUFFICES ASSUME OrderInv, [Order!Next]_(Order!vars) PROVE OrderInv'
  OBVIOUS
<1>1. CASE UNCHANGED Order!vars
  <2>1. UNCHANGED <<tariffStatus, place, serial, req, rough, renumbered>>
    BY <1>1 DEF Order!vars
  <2>2. Order!Active' = Order!Active /\ Made' = Made
    BY <2>1 DEF Order!Active, Made
  <2>3. Order!TypeOK'
    BY <2>1, OrderTypeIs, OrderTypeNext DEF OrderInv, OrderType
  <2> QED
    BY <2>1, <2>2, <2>3
       DEF OrderInv, HandlerInv, Order!PlacesDense, Order!Dense, Order!OrderKept
<1>2. CASE Order!Next
  BY <1>2, RowsStep, CountStep, SetStatusStep, ListStep, PlaceStep DEF Order!Next
<1> QED
  BY <1>1, <1>2

\* A behaviour of the composition is one of each of its parts.
LEMMA RunsOrder == RunSpec => Order!Spec
<1>1. RunInit => Order!Init
  BY DEF RunInit
<1>2. [RunNext]_<<part, vars, tariffVars>> => [Order!Next]_(Order!vars)
  BY DEF RunNext, tariffVars, Order!vars
<1> QED
  BY <1>1, <1>2, PTL DEF RunSpec, Order!Spec

LEMMA RunsPromocodes == RunSpec => Spec
<1>1. RunInit => Init
  BY DEF RunInit
<1>2. [RunNext]_<<part, vars, tariffVars>> => [Next]_vars
  BY DEF RunNext
<1> QED
  BY <1>1, <1>2, PTL DEF RunSpec, Spec

\* What the table and the handlers of the tariffs keep between them.
THEOREM OrderInductive == Order!Spec => []OrderInv
  BY OrderInit, OrderStep, PTL DEF Order!Spec

\* The active tariffs have the places 1 to n after an undisturbed renumbering and
\* through the activations nobody overlaps, and the list that was renumbered keeps
\* its order, for any number of tariffs and handlers and whatever the CRM sends.
THEOREM ListStaysInOrder == RunSpec => []ListInOrder
<1>1. OrderInv => ListInOrder
  BY DEF OrderInv, ListInOrder
<1> QED
  BY <1>1, RunsOrder, OrderInductive, PTL

\* The types of both parts.
THEOREM OffersTypesCorrect == RunSpec => []TypesOK
<1>1. TypeOK /\ OrderInv => TypesOK
  BY DEF OrderInv, TypesOK
<1> QED
  BY <1>1, RunsOrder, RunsPromocodes, OrderInductive, PromocodesTypeCorrect, PTL
=============================================================================
