-------------------------- MODULE BackOfficeProofs ---------------------------
(***************************************************************************)
(* What Obligations, EmployeeAccess and FranchiseSetup promise, for any    *)
(* number of debts, fines, users and calls, of employees, agents, tokens   *)
(* and letters, and of cities, franchises, types and edits.                *)
(***************************************************************************)
EXTENDS MCBackOffice, SumsProofs, Sequences, TLAPS

CallType == [pc : CallPcs, user : Users \cup {NoUser}, what : Rows \cup {TopUp}, amount : Nat]

\* What a call has done, by the place where it stands.
CallsInv ==
  /\ booked \subseteq taken
  /\ \A k \in Calls :
       /\ call[k].pc = "idle" => k \notin taken
       /\ call[k].pc # "idle" => call[k].user \in Users
       /\ call[k].pc \in {"charged", "booked", "saved", "done"} => k \in taken
       /\ call[k].pc \in {"booked", "saved", "done"} => k \in booked

\* A call is about a row that was filed, at the price of that row.
AboutInv ==
  \A k \in Calls : call[k].pc # "idle" /\ call[k].what \in Rows =>
    /\ row[call[k].what] \in {"NOTPAID", "PAID", "deleted"}
    /\ call[k].amount = price[call[k].what]

\* Photos are there from the filing until the row is deleted, and a folder is
\* removed once, for a row that is deleted.
PhotosInv ==
  \A o \in Fines :
    /\ row[o] = "absent" => o \notin pictured
    /\ o \in pictured /\ row[o] \in {"filing", "NOTPAID", "PAID"} => o \in folder
    /\ o \in clearing => row[o] = "deleted" /\ o \in folder

IInv == TypeOK /\ CallsInv /\ AboutInv /\ PhotosInv /\ PaidIsCovered /\ ToldIsTrue

LEMMA GotoMoves ==
  ASSUME TypeOK, NEW k \in Calls, NEW from, NEW to \in CallPcs, Goto(k, from, to)
  PROVE  /\ call' \in [Calls -> CallType]
         /\ call[k].pc = from /\ call'[k].pc = to
         /\ \A l \in Calls : /\ l # k => call'[l].pc = call[l].pc
                             /\ call'[l].user = call[l].user
                             /\ call'[l].what = call[l].what
                             /\ call'[l].amount = call[l].amount
<1>1. call \in [Calls -> CallType] BY DEF TypeOK, CallType
<1>2. call' = [call EXCEPT ![k].pc = to] /\ call[k].pc = from BY DEF Goto
<1>3. QED BY <1>1, <1>2 DEF CallType

\* A paid row stays covered while calls keep what they are about and rows are
\* paid or waived one by one.
LEMMA CoverStays ==
  ASSUME PaidIsCovered, taken \subseteq taken', booked \subseteq booked',
         waived \subseteq waived', booked \subseteq Calls,
         \A o \in Rows : row'[o] = "PAID" => row[o] = "PAID" /\ price'[o] = price[o],
         \A k \in booked : call'[k].what = call[k].what /\ call'[k].amount = call[k].amount
  PROVE  PaidIsCovered'
BY DEF PaidIsCovered, PaysFor

\* A call begins.
LEMMA FindStep ==
  ASSUME IInv, NEW k \in Calls, NEW u \in Users, NEW what \in Rows \cup {TopUp},
         NEW amount \in Nat, Find(k, u, what, amount),
         what \in Rows => Present(what) /\ amount = price[what]
  PROVE  IInv'
<1> USE ObligationsAssumption DEF IInv
<1>1. /\ call[k].pc = "idle"
      /\ call' = [call EXCEPT ![k] = [pc |-> "found", user |-> u, what |-> what, amount |-> amount]]
      /\ UNCHANGED <<row, price, folder, pictured, clearing, waived, taken, booked, balance>>
  BY DEF Find, rowVars
<1>2. /\ call'[k] = [pc |-> "found", user |-> u, what |-> what, amount |-> amount]
      /\ \A l \in Calls \ {k} : call'[l] = call[l]
  BY <1>1 DEF TypeOK
<1>3. TypeOK' BY <1>1 DEF TypeOK, CallPcs
<1>4. CallsInv' BY <1>1, <1>2 DEF CallsInv
<1>5. AboutInv' BY <1>1, <1>2 DEF AboutInv, Present
<1>6. PhotosInv' BY <1>1 DEF PhotosInv
<1>7. PaidIsCovered'
  <2>1. k \notin booked BY <1>1 DEF CallsInv
  <2>2. \A l \in booked : call'[l] = call[l] BY <1>2, <2>1 DEF TypeOK
  <2>3. booked \subseteq Calls BY DEF TypeOK
  <2>4. QED BY <1>1, <2>2, <2>3, CoverStays
<1>8. ToldIsTrue' BY <1>1, <1>2 DEF ToldIsTrue
<1>9. QED BY <1>3, <1>4, <1>5, <1>6, <1>7, <1>8

\* A call that is charged, booked, credited or refused: no row changes.
LEMMA AdvanceStep ==
  ASSUME IInv, NEW k \in Calls, NEW from \in CallPcs \ {"idle"}, NEW to \in CallPcs \ {"idle"},
         Goto(k, from, to), UNCHANGED rowVars,
         taken' \in {taken, taken \cup {k}}, booked' \in {booked, booked \cup {k}},
         balance' \in [Users -> Nat],
         k \in booked' => k \in taken',
         to \in {"charged", "booked", "saved", "done"} => k \in taken',
         to \in {"booked", "saved", "done"} => k \in booked',
         to = "done" => call[k].what = TopUp
  PROVE  IInv'
<1> USE ObligationsAssumption DEF IInv
<1>1. /\ call' \in [Calls -> CallType]
      /\ call[k].pc = from /\ call'[k].pc = to
      /\ \A l \in Calls : /\ l # k => call'[l].pc = call[l].pc
                          /\ call'[l].user = call[l].user
                          /\ call'[l].what = call[l].what
                          /\ call'[l].amount = call[l].amount
  BY GotoMoves
<1>2. UNCHANGED <<row, price, folder, pictured, clearing, waived>> BY DEF rowVars
<1>3. taken' \subseteq Calls /\ booked' \subseteq Calls BY DEF TypeOK
<1>4. TypeOK' BY <1>1, <1>2, <1>3 DEF TypeOK, CallType
<1>5. CallsInv' BY <1>1 DEF CallsInv
<1>6. AboutInv' BY <1>1, <1>2 DEF AboutInv
<1>7. PhotosInv' BY <1>2 DEF PhotosInv
<1>8. PaidIsCovered'
  <2>1. booked \subseteq Calls BY DEF TypeOK
  <2>2. QED BY <1>1, <1>2, <2>1, CoverStays
<1>9. ToldIsTrue' BY <1>1, <1>2 DEF ToldIsTrue
<1>10. QED BY <1>4, <1>5, <1>6, <1>7, <1>8, <1>9

\* The last statement of a payment.
LEMMA CloseStep == ASSUME IInv, NEW k \in Calls, Close(k) PROVE IInv'
<1> USE ObligationsAssumption DEF IInv
<1> DEFINE o == call[k].what
<1>1. /\ o \in Rows
      /\ UNCHANGED <<price, folder, pictured, clearing, waived, taken, booked, balance>>
  BY DEF Close
<1>2. PICK to \in {"done", "unclosed"} :
        /\ Goto(k, "saved", to)
        /\ row' = row \/ (Present(o) /\ row' = [row EXCEPT ![o] = "PAID"])
        /\ to = "done" => Present(o) /\ row' = [row EXCEPT ![o] = "PAID"]
  BY DEF Close
<1>3. /\ call' \in [Calls -> CallType]
      /\ call[k].pc = "saved" /\ call'[k].pc = to
      /\ \A l \in Calls : /\ l # k => call'[l].pc = call[l].pc
                          /\ call'[l].user = call[l].user
                          /\ call'[l].what = call[l].what
                          /\ call'[l].amount = call[l].amount
  <2>1. to \in CallPcs BY DEF CallPcs
  <2>2. TypeOK /\ Goto(k, "saved", to) BY <1>2
  <2>3. QED BY <2>1, <2>2, GotoMoves
<1>4. /\ \A p \in Rows : row'[p] = row[p] \/ (p = o /\ row'[p] = "PAID" /\ Present(p))
      /\ to = "done" => row'[o] = "PAID"
  BY <1>1, <1>2 DEF TypeOK
<1>5. row' \in [Rows -> {"absent", "filing", "dropped", "NOTPAID", "PAID", "deleted"}]
  BY <1>1, <1>2 DEF TypeOK
<1>6. TypeOK' BY <1>1, <1>3, <1>5 DEF TypeOK, CallType
<1>7. CallsInv' BY <1>1, <1>2, <1>3 DEF CallsInv
<1>8. AboutInv' BY <1>1, <1>2, <1>3, <1>4 DEF AboutInv
<1>9. PhotosInv'
  <2>1. \A p \in Fines : row'[p] = row[p] \/ (row'[p] = "PAID" /\ Present(p))
    BY <1>4 DEF Rows
  <2>2. QED BY <1>1, <2>1 DEF PhotosInv, Present
<1>10. PaidIsCovered'
  <2>1. SUFFICES ASSUME NEW p \in Rows, row'[p] = "PAID", p \notin waived
                 PROVE  \E l \in Calls : PaysFor(l, p)' /\ call'[l].amount = price'[p]
    BY <1>1 DEF PaidIsCovered
  <2>2. CASE row[p] = "PAID"
    BY <1>1, <1>3, <2>1, <2>2 DEF PaidIsCovered, PaysFor
  <2>3. CASE row[p] # "PAID"
    <3>1. p = o BY <1>4, <2>1, <2>3
    <3>2. call[k].amount = price[p] /\ k \in booked /\ k \in taken
      BY <1>1, <1>3, <3>1 DEF AboutInv, CallsInv
    <3>3. PaysFor(k, p)' /\ call'[k].amount = price'[p]
      BY <1>1, <1>3, <3>1, <3>2 DEF PaysFor
    <3>4. QED BY <3>3
  <2>4. QED BY <2>2, <2>3
<1>11. ToldIsTrue'
  <2>1. SUFFICES ASSUME NEW l \in Calls, call'[l].pc = "done"
                 PROVE  /\ l \in taken /\ l \in booked
                        /\ call[l].what \in Rows => row'[call[l].what] \in {"PAID", "deleted"}
    BY <1>1, <1>3 DEF ToldIsTrue
  <2>2. CASE l = k BY <1>3, <1>4, <2>1, <2>2 DEF CallsInv
  <2>3. CASE l # k BY <1>3, <1>4, <2>1, <2>3 DEF ToldIsTrue
  <2>4. QED BY <2>2, <2>3
<1>12. QED BY <1>6, <1>7, <1>8, <1>9, <1>10, <1>11

LEMMA PayStep == ASSUME IInv, NEW k \in Calls, PayNext(k) PROVE IInv'
<1> USE ObligationsAssumption
<1>0. /\ taken \subseteq Calls /\ booked \subseteq Calls /\ balance \in [Users -> Nat]
      /\ price \in [Rows -> Nat] /\ booked \subseteq taken
      /\ call[k].amount \in Nat /\ call[k].pc \in CallPcs
  BY DEF IInv, TypeOK, CallsInv
<1>1. CASE \E u \in Users, p \in Rows : PayFind(k, u, p)
  <2>1. PICK u \in Users, p \in Rows : PayFind(k, u, p) BY <1>1
  <2>2. price[p] \in Nat BY <1>0
  <2>3. QED BY <2>1, <2>2, FindStep DEF PayFind
<1>2. CASE \E u \in Users, amount \in Prices : TopUpFind(k, u, amount)
  <2>1. PICK u \in Users, amount \in Prices : TopUpFind(k, u, amount) BY <1>2
  <2>2. QED BY <2>1, FindStep DEF TopUpFind
<1>3. CASE Refuse(k)
  BY <1>0, <1>3, AdvanceStep DEF Refuse, CallPcs, IInv, CallsInv
<1>4. CASE Charge(k)
  BY <1>0, <1>4, AdvanceStep DEF Charge, CallPcs
<1>5. CASE Book(k)
  <2>1. k \in taken BY <1>5 DEF Book, Goto, IInv, CallsInv
  <2>2. CASE Goto(k, "charged", "booked") /\ booked' = booked \cup {k}
    BY <1>0, <1>5, <2>1, <2>2, AdvanceStep DEF Book, CallPcs
  <2>3. CASE Goto(k, "charged", "unbooked") /\ booked' \in {booked, booked \cup {k}}
    BY <1>0, <1>5, <2>1, <2>3, AdvanceStep DEF Book, CallPcs
  <2>4. QED BY <1>5, <2>2, <2>3 DEF Book
<1>6. CASE Credit(k)
  <2>1. k \in booked /\ k \in taken /\ call[k].user \in Users
    BY <1>6 DEF Credit, Goto, IInv, CallsInv
  <2>2. balance' \in {balance, [balance EXCEPT ![call[k].user] = @ + call[k].amount]}
    BY <1>6 DEF Credit
  <2>3. balance[call[k].user] + call[k].amount \in Nat
    <3>1. balance[call[k].user] \in Nat BY <1>0, <2>1
    <3>2. QED BY <1>0, <3>1
  <2>4. balance' \in [Users -> Nat] BY <1>0, <2>2, <2>3
  <2>5. UNCHANGED <<rowVars, taken, booked>> BY <1>6 DEF Credit
  <2>6. CASE Goto(k, "booked", "saved")
    BY <2>1, <2>4, <2>5, <2>6, AdvanceStep DEF CallPcs
  <2>7. CASE Goto(k, "booked", "unbooked")
    BY <2>1, <2>4, <2>5, <2>7, AdvanceStep DEF CallPcs
  <2>8. QED BY <1>6, <2>6, <2>7 DEF Credit
<1>7. CASE Close(k) BY <1>7, CloseStep
<1>8. CASE call[k].what = TopUp /\ TopUpReturn(k)
  <2>1. k \in taken /\ k \in booked BY <1>8 DEF TopUpReturn, Goto, IInv, CallsInv
  <2>2. QED BY <1>0, <1>8, <2>1, AdvanceStep DEF TopUpReturn, CallPcs
<1>9. QED BY <1>1, <1>2, <1>3, <1>4, <1>5, <1>6, <1>7, <1>8
         DEF PayNext, PayOfDebt, PayOfFine, PayIntoBalance, Rows

\* A row is filed, created, closed or deleted by the CRM.
LEMMA RowStep == ASSUME IInv, NEW o \in Rows, RowNext(o) PROVE IInv'
<1> USE ObligationsAssumption DEF IInv
<1>0. /\ row \in [Rows -> {"absent", "filing", "dropped", "NOTPAID", "PAID", "deleted"}]
      /\ price \in [Rows -> Nat] /\ booked \subseteq Calls
  BY DEF TypeOK
\* No call is about a row that is not there yet.
<1>1. ASSUME NEW k \in Calls, call[k].pc # "idle", call[k].what \in Rows
      PROVE  row[call[k].what] \notin {"absent", "filing", "dropped"}
  BY <1>1 DEF AboutInv
<1>2. ASSUME NEW amount \in Prices, NEW state \in {"NOTPAID", "filing"},
             row[o] = "absent", row' = [row EXCEPT ![o] = state],
             price' = [price EXCEPT ![o] = amount],
             UNCHANGED <<clearing, waived, payVars>>,
             TypeOK', PhotosInv'
      PROVE  IInv'
  <2>1. /\ \A p \in Rows : p # o => row'[p] = row[p] /\ price'[p] = price[p]
        /\ row'[o] = state
    BY <1>0, <1>2
  <2>2. UNCHANGED <<call, taken, booked, waived>> BY <1>2 DEF payVars
  <2>3. CallsInv' BY <2>2 DEF CallsInv
  <2>4. AboutInv' BY <1>1, <1>2, <2>1, <2>2 DEF AboutInv
  <2>5. PaidIsCovered'
    <3>1. \A p \in Rows : row'[p] = "PAID" => row[p] = "PAID" /\ price'[p] = price[p]
      BY <1>2, <2>1
    <3>2. QED BY <1>0, <2>2, <3>1, CoverStays
  <2>6. ToldIsTrue' BY <1>2, <2>1, <2>2 DEF ToldIsTrue
  <2>7. QED BY <1>2, <2>3, <2>4, <2>5, <2>6
<1>3. ASSUME NEW amount \in Prices, CreateDebt(o, amount) PROVE IInv'
  <2>1. TypeOK' BY <1>3 DEF CreateDebt, TypeOK, payVars
  <2>2. PhotosInv'
    <3>1. o \notin Fines BY <1>3 DEF CreateDebt
    <3>2. \A p \in Fines : row'[p] = row[p] BY <1>0, <1>3, <3>1 DEF CreateDebt, Rows
    <3>3. QED BY <1>3, <3>2 DEF CreateDebt, PhotosInv
  <2>3. QED BY <1>2, <1>3, <2>1, <2>2 DEF CreateDebt
<1>4. ASSUME NEW amount \in Prices, NEW photos \in BOOLEAN, FilePhotos(o, amount, photos)
      PROVE  IInv'
  <2>1. TypeOK' BY <1>4 DEF FilePhotos, TypeOK, payVars
  <2>2. PhotosInv'
    <3>1. /\ o \in Fines /\ row[o] = "absent" /\ clearing' = clearing
          /\ row' = [row EXCEPT ![o] = "filing"]
          /\ folder' = IF photos THEN folder \cup {o} ELSE folder
          /\ pictured' = IF photos THEN pictured \cup {o} ELSE pictured
      BY <1>4 DEF FilePhotos
    <3>2. o \notin pictured BY <3>1 DEF PhotosInv
    <3>3. /\ \A p \in Fines : p # o => row'[p] = row[p]
          /\ row'[o] = "filing"
      BY <1>0, <3>1 DEF Rows
    <3>4. QED BY <3>1, <3>2, <3>3 DEF PhotosInv
  <2>3. QED BY <1>2, <1>4, <2>1, <2>2 DEF FilePhotos
\* What happens to a row that is there.
<1>5. ASSUME NEW state \in {"NOTPAID", "PAID", "deleted", "dropped"},
             row' = [row EXCEPT ![o] = state],
             UNCHANGED <<price, payVars>>, waived \subseteq waived',
             state = "PAID" => o \in waived',
             state \in {"PAID", "deleted"} => Present(o),
             state \in {"NOTPAID", "dropped"} => row[o] = "filing",
             TypeOK', PhotosInv'
      PROVE  IInv'
  <2>1. \A p \in Rows : row'[p] = IF p = o THEN state ELSE row[p] BY <1>0, <1>5
  <2>2. UNCHANGED <<call, taken, booked, price>> BY <1>5 DEF payVars
  <2>3. CallsInv' BY <2>2 DEF CallsInv
  <2>4. AboutInv' BY <1>1, <1>5, <2>1, <2>2 DEF AboutInv
  <2>5. PaidIsCovered'
    <3>1. SUFFICES ASSUME NEW p \in Rows, row'[p] = "PAID", p \notin waived'
                   PROVE  \E k \in Calls : PaysFor(k, p)' /\ call'[k].amount = price'[p]
      BY DEF PaidIsCovered
    <3>2. row[p] = "PAID" /\ p \notin waived BY <1>5, <2>1, <3>1
    <3>3. QED BY <2>2, <3>2 DEF PaidIsCovered, PaysFor
  <2>6. ToldIsTrue' BY <1>5, <2>1, <2>2 DEF ToldIsTrue, Present
  <2>7. QED BY <1>5, <2>3, <2>4, <2>5, <2>6
<1>6. CASE CreateFine(o)
  <2>1. TypeOK' BY <1>6 DEF CreateFine, TypeOK, payVars
  <2>2. PICK state \in {"NOTPAID", "dropped"} : row' = [row EXCEPT ![o] = state]
    BY <1>6 DEF CreateFine
  <2>3. \A p \in Rows : row'[p] = IF p = o THEN state ELSE row[p] BY <1>0, <2>2
  <2>4. PhotosInv' BY <1>6, <2>3 DEF CreateFine, PhotosInv, Rows
  <2>5. QED BY <1>5, <1>6, <2>1, <2>2, <2>4 DEF CreateFine
<1>7. CASE MakeFinePaid(o)
  <2>1. TypeOK' BY <1>7 DEF MakeFinePaid, TypeOK, payVars
  <2>2. \A p \in Rows : row'[p] = IF p = o THEN "PAID" ELSE row[p]
    BY <1>0, <1>7 DEF MakeFinePaid
  <2>3. PhotosInv' BY <1>7, <2>2 DEF MakeFinePaid, PhotosInv, Present, Rows
  <2>4. QED BY <1>5, <1>7, <2>1, <2>3 DEF MakeFinePaid
<1>8. CASE DeleteDebt(o)
  <2>1. TypeOK' BY <1>8 DEF DeleteDebt, TypeOK, payVars
  <2>2. \A p \in Rows : row'[p] = IF p = o THEN "deleted" ELSE row[p]
    BY <1>0, <1>8 DEF DeleteDebt
  <2>3. PhotosInv' BY <1>8, <2>2 DEF DeleteDebt, PhotosInv, Rows
  <2>4. QED BY <1>5, <1>8, <2>1, <2>3 DEF DeleteDebt
<1>9. CASE DeleteFine(o)
  <2>1. /\ o \in Fines /\ Present(o)
        /\ row' = [row EXCEPT ![o] = "deleted"]
        /\ clearing' \in {clearing, clearing \cup ({o} \cap pictured)}
        /\ UNCHANGED <<price, folder, pictured, waived, payVars>>
    BY <1>9 DEF DeleteFine
  <2>2. clearing' \subseteq Fines BY <2>1 DEF TypeOK
  <2>3. TypeOK' BY <2>1, <2>2 DEF TypeOK, payVars
  <2>4. \A p \in Rows : row'[p] = IF p = o THEN "deleted" ELSE row[p] BY <1>0, <2>1
  <2>5. o \in pictured => o \in folder BY <2>1 DEF PhotosInv, Present
  <2>6. PhotosInv' BY <2>1, <2>4, <2>5 DEF PhotosInv, Rows
  <2>7. QED BY <1>5, <2>1, <2>3, <2>6
<1>10. CASE DeleteFolder(o)
  <2>1. /\ o \in clearing /\ folder' = folder \ {o} /\ clearing' = clearing \ {o}
        /\ UNCHANGED <<row, price, pictured, waived, call, taken, booked, balance>>
    BY <1>10 DEF DeleteFolder, payVars
  <2>2. TypeOK' BY <2>1 DEF TypeOK
  <2>3. PhotosInv'
    <3>1. o \in Fines /\ row[o] = "deleted" BY <2>1 DEF PhotosInv, TypeOK
    <3>2. QED BY <2>1, <3>1 DEF PhotosInv
  <2>4. CallsInv' /\ AboutInv' /\ ToldIsTrue' BY <2>1 DEF CallsInv, AboutInv, ToldIsTrue
  <2>5. PaidIsCovered' BY <2>1 DEF PaidIsCovered, PaysFor
  <2>6. QED BY <2>2, <2>3, <2>4, <2>5
<1>11. QED BY <1>3, <1>4, <1>6, <1>7, <1>8, <1>9, <1>10 DEF RowNext

LEMMA CrashStep == ASSUME IInv, Crash PROVE IInv'
<1> USE ObligationsAssumption DEF IInv
<1>0. PaidIsCovered /\ ToldIsTrue /\ TypeOK OBVIOUS
<1>1. /\ clearing' = {}
      /\ UNCHANGED <<price, folder, pictured, waived, taken, booked, balance>>
      /\ \A o \in Rows : row'[o] = IF row[o] = "filing" THEN "dropped" ELSE row[o]
      /\ row' \in [Rows -> {"absent", "filing", "dropped", "NOTPAID", "PAID", "deleted"}]
  BY DEF Crash, TypeOK
<1>2. /\ call' \in [Calls -> CallType]
      /\ \A k \in Calls : /\ call'[k].pc = call[k].pc
                               \/ (call[k].pc # "idle" /\ call'[k].pc = "died")
                          /\ call'[k].user = call[k].user
                          /\ call'[k].what = call[k].what
                          /\ call'[k].amount = call[k].amount
  <2>1. call \in [Calls -> CallType] BY DEF TypeOK, CallType
  <2>2. \A k \in Calls : call'[k] = call[k]
          \/ (call[k].pc \in {"found", "charged", "booked", "saved"}
              /\ call'[k] = [call[k] EXCEPT !.pc = "died"])
    BY DEF Crash
  <2>3. call' = [k \in Calls |-> call'[k]] BY DEF Crash
  <2>4. ASSUME NEW k \in Calls PROVE call'[k] \in CallType
    <3>1. call[k] \in CallType BY <2>1
    <3>2. [call[k] EXCEPT !.pc = "died"] \in CallType BY <3>1 DEF CallType, CallPcs
    <3>3. QED BY <2>2, <3>1, <3>2
  <2>5. QED BY <2>1, <2>2, <2>3, <2>4 DEF CallType
<1>3. TypeOK' BY <1>1, <1>2 DEF TypeOK, CallType
<1>4. CallsInv' BY <1>1, <1>2 DEF CallsInv
<1>5. AboutInv' BY <1>1, <1>2 DEF AboutInv
<1>6. PhotosInv' BY <1>1 DEF PhotosInv, Rows
<1>7. PaidIsCovered'
  <2>1. booked \subseteq Calls BY DEF TypeOK
  <2>2. QED BY <1>1, <1>2, <2>1, CoverStays
<1>8. ToldIsTrue' BY <1>1, <1>2 DEF ToldIsTrue
<1>9. QED BY <1>3, <1>4, <1>5, <1>6, <1>7, <1>8

LEMMA Inductive == ASSUME IInv, [Next]_vars PROVE IInv'
<1>1. CASE UNCHANGED vars
  BY <1>1 DEF vars, rowVars, payVars, IInv, TypeOK, CallsInv, AboutInv, PhotosInv,
              PaidIsCovered, ToldIsTrue, PaysFor
<1>2. QED BY <1>1, PayStep, RowStep, CrashStep DEF Next

LEMMA Initially == Init => IInv
BY ObligationsAssumption
   DEF Init, IInv, TypeOK, CallsInv, AboutInv, PhotosInv, PaidIsCovered, ToldIsTrue, CallPcs

LEMMA Always == Spec => []IInv
BY Initially, Inductive, PTL DEF Spec

\* The rows, the calls and the balances keep their types.
THEOREM ObligationsTypeCorrect == Spec => []TypeOK
BY Always, PTL DEF IInv

\* A debt or fine that says PAID has its charge and its Payment row, or was
\* waived by the CRM: payOfDebt, payOfFine, makeFinePaid.
THEOREM PaidNeedsCover == Spec => []PaidIsCovered
BY Always, PTL DEF IInv

\* Who is told that he has paid a debt or fine has paid it, and it stays
\* closed: payOfDebt, payOfFine.
THEOREM ToldStaysTrue == Spec => []ToldIsTrue
BY Always, PTL DEF IInv

\* The folder of a fine outlives its row: FineService.create, delete.
THEOREM PhotosOutliveFine == Spec => []PhotosBehindFine
<1>1. IInv => PhotosBehindFine
  BY DEF IInv, PhotosInv, PhotosBehindFine, Present, TypeOK
<1>2. QED BY <1>1, Always, PTL

(***************************************************************************)
(* The balances.  A call that is past its credit, or ended before it, may  *)
(* have raised the balance; one that stands at it has not yet.             *)
(***************************************************************************)
PaidOf(u) == [k \in {l \in booked : call[l].user = u} |-> call[k].amount]
CreditedOf(u) ==
  [k \in {l \in booked : call[l].user = u /\ call[l].pc # "booked"} |-> call[k].amount]

\* No call has its Payment row before it comes to write it.
NotYetBooked == \A k \in Calls : call[k].pc \in {"idle", "found", "charged"} => k \notin booked

BalanceInv ==
  /\ NotYetBooked
  /\ \A u \in Users : IsFiniteSet(Units(PaidOf(u))) /\ balance[u] <= SumOf(CreditedOf(u))

PaidFor(u, k) == IF k \in booked /\ call[k].user = u THEN call[k].amount ELSE 0
CreditedFor(u, k) ==
  IF k \in booked /\ call[k].user = u /\ call[k].pc # "booked" THEN call[k].amount ELSE 0

LEMMA PaidAt ==
  ASSUME TypeOK, NEW u
  PROVE  /\ Natural(PaidOf(u)) /\ Natural(CreditedOf(u))
         /\ \A k : /\ At(PaidOf(u), k) = PaidFor(u, k)
                   /\ At(CreditedOf(u), k) = CreditedFor(u, k)
                   /\ PaidFor(u, k) \in Nat /\ CreditedFor(u, k) \in Nat
                   /\ CreditedFor(u, k) <= PaidFor(u, k)
<1>1. \A k \in booked : call[k].amount \in Nat
  BY DEF TypeOK
<1> QED
  BY <1>1 DEF Natural, At, PaidOf, CreditedOf, PaidFor, CreditedFor

\* A step that books at most one call, and raises a balance by no more than what
\* that call is credited.
LEMMA BalanceStep ==
  ASSUME TypeOK, TypeOK', BalanceInv, NotYetBooked', NEW x,
         \A u \in Users :
           /\ \A k : k # x => PaidFor(u, k)' = PaidFor(u, k)
           /\ \A k : k # x => CreditedFor(u, k) <= CreditedFor(u, k)'
           /\ balance'[u] + CreditedFor(u, x) <= balance[u] + CreditedFor(u, x)'
  PROVE  BalanceInv'
<1> SUFFICES ASSUME NEW u \in Users
             PROVE  IsFiniteSet(Units(PaidOf(u)')) /\ balance'[u] <= SumOf(CreditedOf(u)')
  BY DEF BalanceInv
<1> DEFINE f == PaidOf(u)
           g == PaidOf(u)'
           p == CreditedOf(u)
           q == CreditedOf(u)'
           m == [k \in DOMAIN p \cup {x} |-> IF k = x THEN At(q, x) ELSE p[k]]
<1>1. /\ Natural(f) /\ Natural(p)
      /\ \A k : /\ At(f, k) = PaidFor(u, k) /\ At(p, k) = CreditedFor(u, k)
                /\ At(p, k) \in Nat /\ At(p, k) <= At(f, k)
  BY PaidAt
<1>2. /\ Natural(g) /\ Natural(q)
      /\ \A k : /\ At(g, k) = PaidFor(u, k)' /\ At(q, k) = CreditedFor(u, k)'
                /\ At(q, k) \in Nat /\ At(q, k) <= At(g, k)
  <2>1. \A k \in booked' : call'[k].amount \in Nat
    BY DEF TypeOK
  <2> QED
    BY <2>1 DEF Natural, At, PaidOf, CreditedOf, PaidFor, CreditedFor
<1>3. IsFiniteSet(Units(f)) /\ balance[u] <= SumOf(p)
  BY DEF BalanceInv
<1>4. balance[u] \in Nat /\ balance'[u] \in Nat
  BY DEF TypeOK
<1>5. /\ \A k : k # x => At(f, k) = At(g, k)
      /\ \A k : k # x => At(p, k) <= At(q, k)
      /\ balance'[u] + At(p, x) <= balance[u] + At(q, x)
  BY <1>1, <1>2
<1> HIDE DEF f, g, p, q
<1>6. Natural(m) /\ At(m, x) = At(q, x) /\ \A k : k # x => At(p, k) = At(m, k)
  BY <1>1, <1>2 DEF Natural, At
<1> HIDE DEF m
<1>7. IsFiniteSet(Units(g))
  BY <1>1, <1>2, <1>3, <1>5, SumChangesAt
<1>8. IsFiniteSet(Units(p)) /\ IsFiniteSet(Units(q))
  BY <1>1, <1>2, <1>3, <1>7, SumGrows
<1>9. SumOf(p) \in Nat /\ SumOf(m) = SumOf(p) - At(p, x) + At(m, x)
  BY <1>1, <1>6, <1>8, SumChangesAt
<1>10. \A k : At(m, k) <= At(q, k)
  BY <1>1, <1>2, <1>5, <1>6
<1>11. SumOf(m) <= SumOf(q)
  BY <1>2, <1>6, <1>8, <1>10, SumGrows
<1>12. SumOf(q) \in Nat
  BY <1>2, <1>8, NaturalSum
<1>13. balance'[u] <= SumOf(q)
  BY <1>1, <1>2, <1>3, <1>4, <1>5, <1>6, <1>9, <1>11, <1>12
<1> QED
  BY <1>7, <1>13 DEF g, q

LEMMA BalanceKept ==
  ASSUME TypeOK, TypeOK', CallsInv, BalanceInv, [Next]_vars
  PROVE  BalanceInv'
<1>1. /\ call \in [Calls -> CallType] /\ balance \in [Users -> Nat]
      /\ booked \subseteq Calls
      /\ \A u \in Users : \A k :
           /\ PaidFor(u, k) \in Nat /\ CreditedFor(u, k) \in Nat
           /\ CreditedFor(u, k) <= PaidFor(u, k)
  BY PaidAt DEF TypeOK, CallType
\* Calls keep what they are about, and none steps back to its credit.
<1>2. ASSUME UNCHANGED <<booked, balance>>,
             \A l \in booked : /\ call'[l].user = call[l].user /\ call'[l].amount = call[l].amount
                               /\ call'[l].pc = "booked" => call[l].pc = "booked",
             NotYetBooked'
      PROVE  BalanceInv'
  <2>1. ASSUME NEW u \in Users, NEW k
        PROVE  PaidFor(u, k)' = PaidFor(u, k) /\ CreditedFor(u, k) <= CreditedFor(u, k)'
    <3>1. k \in booked => call[k].amount \in Nat
      BY <1>1 DEF CallType
    <3> QED
      BY <1>2, <3>1 DEF PaidFor, CreditedFor
  <2>2. ASSUME NEW u \in Users, NEW k
        PROVE  balance'[u] + CreditedFor(u, k) <= balance[u] + CreditedFor(u, k)'
    <3>1. CreditedFor(u, k)' \in Nat
      <4>1. k \in booked => call[k].amount \in Nat
        BY <1>1 DEF CallType
      <4> QED
        BY <1>2, <4>1 DEF CreditedFor
    <3> QED
      BY <1>1, <1>2, <2>1, <3>1
  <2> QED
    BY <1>2, <2>1, <2>2, BalanceStep
<1>3. NotYetBooked
  BY DEF BalanceInv
<1>4. ASSUME NEW k \in Calls, NEW u \in Users, NEW what, NEW amount, Find(k, u, what, amount)
      PROVE  BalanceInv'
  <2>1. /\ k \notin booked /\ UNCHANGED <<booked, balance>>
        /\ \A l \in Calls \ {k} : call'[l] = call[l]
    BY <1>1, <1>3, <1>4 DEF Find, NotYetBooked
  <2>2. NotYetBooked'
    BY <1>3, <2>1 DEF NotYetBooked
  <2> QED
    BY <1>1, <1>2, <2>1, <2>2
<1>5. ASSUME NEW k \in Calls, Refuse(k) \/ Charge(k) \/ TopUpReturn(k) \/ Close(k)
      PROVE  BalanceInv'
  <2>1. PICK to \in {"refused", "charged", "done", "unclosed"} :
          /\ call' = [call EXCEPT ![k].pc = to] /\ UNCHANGED <<booked, balance>>
          /\ to = "charged" => call[k].pc = "found"
    BY <1>5 DEF Refuse, Charge, TopUpReturn, Close, Goto
  <2>2. /\ call'[k] = [call[k] EXCEPT !.pc = to]
        /\ \A l \in Calls \ {k} : call'[l] = call[l]
    BY <1>1, <2>1
  <2>3. \A l \in Calls : /\ call'[l].user = call[l].user /\ call'[l].amount = call[l].amount
                         /\ call'[l].pc = "booked" => call[l].pc = "booked"
    BY <1>1, <2>1, <2>2 DEF CallType
  <2>4. call'[k].pc = to
    BY <1>1, <2>2 DEF CallType
  <2>5. NotYetBooked'
    BY <1>3, <2>1, <2>2, <2>4 DEF NotYetBooked
  <2> QED
    BY <1>1, <1>2, <2>1, <2>3, <2>5
<1>6. ASSUME NEW k \in Calls, Book(k) PROVE BalanceInv'
  <2>1. PICK to \in {"booked", "unbooked"} :
          /\ call[k].pc = "charged" /\ call' = [call EXCEPT ![k].pc = to]
          /\ booked' \in {booked, booked \cup {k}}
          /\ UNCHANGED balance
    BY <1>6 DEF Book, Goto
  <2>2. /\ call'[k] = [call[k] EXCEPT !.pc = to] /\ call'[k].pc = to
        /\ \A l \in Calls \ {k} : call'[l] = call[l]
    BY <1>1, <2>1 DEF CallType
  <2>3. k \notin booked
    BY <1>3, <2>1 DEF NotYetBooked
  <2>4. NotYetBooked'
    BY <1>3, <2>1, <2>2 DEF NotYetBooked
  <2>5. ASSUME NEW u \in Users, NEW l, l # k
        PROVE  PaidFor(u, l)' = PaidFor(u, l) /\ CreditedFor(u, l)' = CreditedFor(u, l)
    BY <1>1, <2>1, <2>2, <2>5 DEF PaidFor, CreditedFor
  <2>6. ASSUME NEW u \in Users
        PROVE  CreditedFor(u, k) = 0 /\ CreditedFor(u, k)' \in Nat /\ balance[u] \in Nat
    <3>1. call'[k].amount \in Nat
      BY <1>1, <2>2 DEF CallType
    <3> QED
      BY <1>1, <2>3, <3>1 DEF CreditedFor
  <2>7. ASSUME NEW u \in Users, NEW l, l # k
        PROVE  CreditedFor(u, l) <= CreditedFor(u, l)'
    BY <1>1, <2>5, <2>7
  <2>8. ASSUME NEW u \in Users
        PROVE  balance'[u] + CreditedFor(u, k) <= balance[u] + CreditedFor(u, k)'
    BY <2>1, <2>6
  <2> QED
    BY <2>4, <2>5, <2>7, <2>8, BalanceStep
<1>7. ASSUME NEW k \in Calls, Credit(k) PROVE BalanceInv'
  <2>1. PICK to \in {"saved", "unbooked"} :
          /\ call[k].pc = "booked" /\ call' = [call EXCEPT ![k].pc = to]
          /\ UNCHANGED booked
    BY <1>7 DEF Credit, Goto
  <2>2. /\ call'[k] = [call[k] EXCEPT !.pc = to] /\ call'[k].pc = to
        /\ \A l \in Calls \ {k} : call'[l] = call[l]
        /\ call'[k].user = call[k].user /\ call'[k].amount = call[k].amount
    BY <1>1, <2>1 DEF CallType
  <2>3. k \in booked /\ call[k].user \in Users /\ call[k].amount \in Nat
    BY <1>1, <2>1 DEF CallsInv, CallType
  <2>4. NotYetBooked'
    BY <1>3, <2>1, <2>2 DEF NotYetBooked
  <2>5. ASSUME NEW u \in Users, NEW l, l # k
        PROVE  PaidFor(u, l)' = PaidFor(u, l) /\ CreditedFor(u, l)' = CreditedFor(u, l)
    BY <1>1, <2>1, <2>2, <2>5 DEF PaidFor, CreditedFor
  <2>6. ASSUME NEW u \in Users, NEW l, l # k
        PROVE  CreditedFor(u, l) <= CreditedFor(u, l)'
    BY <1>1, <2>5, <2>6
  <2>7. ASSUME NEW u \in Users
        PROVE  /\ CreditedFor(u, k) = 0
               /\ CreditedFor(u, k)' = (IF call[k].user = u THEN call[k].amount ELSE 0)
    BY <2>1, <2>2, <2>3 DEF CreditedFor
  <2>8. balance' \in {balance, [balance EXCEPT ![call[k].user] = @ + call[k].amount]}
    BY <1>7 DEF Credit
  <2>9. ASSUME NEW u \in Users
        PROVE  /\ balance[u] \in Nat
               /\ \/ balance'[u] = balance[u]
                  \/ call[k].user = u /\ balance'[u] = balance[u] + call[k].amount
    BY <1>1, <2>3, <2>8
  <2>10. ASSUME NEW u \in Users
         PROVE  balance'[u] + CreditedFor(u, k) <= balance[u] + CreditedFor(u, k)'
    BY <2>3, <2>7, <2>9
  <2> QED
    BY <2>4, <2>5, <2>6, <2>10, BalanceStep
<1>8. ASSUME UNCHANGED payVars PROVE BalanceInv'
  BY <1>2, <1>3, <1>8 DEF payVars, NotYetBooked
<1>9. ASSUME NEW o \in Rows, RowNext(o) PROVE BalanceInv'
  BY <1>8, <1>9 DEF RowNext, CreateDebt, FilePhotos, CreateFine, MakeFinePaid, DeleteDebt,
                    DeleteFine, DeleteFolder
<1>10. CASE Crash
  <2>1. /\ UNCHANGED <<booked, balance>>
        /\ \A l \in Calls :
             \/ call'[l] = call[l]
             \/ call'[l] = [call[l] EXCEPT !.pc = "died"]
    BY <1>1, <1>10 DEF Crash
  <2>2. \A l \in Calls :
          /\ call'[l].user = call[l].user /\ call'[l].amount = call[l].amount
          /\ call'[l].pc = call[l].pc \/ call'[l].pc = "died"
    BY <1>1, <2>1 DEF CallType
  <2>3. NotYetBooked'
    BY <1>3, <2>1, <2>2 DEF NotYetBooked
  <2> QED
    BY <1>1, <1>2, <2>1, <2>2, <2>3
<1>11. ASSUME NEW k \in Calls, PayNext(k) PROVE BalanceInv'
  BY <1>4, <1>5, <1>6, <1>7, <1>11
     DEF PayNext, PayOfDebt, PayOfFine, PayIntoBalance, PayFind, TopUpFind
<1> QED
  BY <1>8, <1>9, <1>10, <1>11 DEF Next, vars

LEMMA BalanceInit == Init => BalanceInv
<1> SUFFICES ASSUME Init, NEW u \in Users
             PROVE  IsFiniteSet(Units(PaidOf(u))) /\ balance[u] <= SumOf(CreditedOf(u))
  BY DEF Init, NotYetBooked, BalanceInv
<1>1. /\ Natural(PaidOf(u)) /\ Natural(CreditedOf(u))
      /\ \A k : At(PaidOf(u), k) = 0 /\ At(CreditedOf(u), k) = 0
  BY DEF Init, Natural, At, PaidOf, CreditedOf
<1>2. IsFiniteSet(Units(PaidOf(u))) /\ SumOf(CreditedOf(u)) = 0
  BY <1>1, ZeroSum
<1> QED
  BY <1>2 DEF Init

LEMMA BalanceAlways == Spec => []BalanceInv
<1>1. IInv /\ IInv' /\ BalanceInv /\ [Next]_vars => BalanceInv'
  BY BalanceKept DEF IInv
<1> QED
  BY <1>1, BalanceInit, Always, PTL DEF Spec

\* No repeat, crash or lost answer raises a balance above what the Payment rows
\* of the user come to, and nothing is booked that was not charged.
THEOREM BalanceIsPaidFor == Spec => []BalanceWithinPayments
<1>1. IInv /\ BalanceInv => BalanceWithinPayments
  <2> SUFFICES ASSUME IInv, BalanceInv, NEW u \in Users PROVE balance[u] <= PaidInBy(u)
    BY DEF IInv, CallsInv, BalanceWithinPayments
  <2> DEFINE f == PaidOf(u)
             p == CreditedOf(u)
  <2>1. Natural(f) /\ Natural(p) /\ \A k : At(p, k) <= At(f, k)
    BY PaidAt DEF IInv
  <2>2. IsFiniteSet(Units(f)) /\ balance[u] <= SumOf(p) /\ balance[u] \in Nat
    BY DEF BalanceInv, IInv, TypeOK
  <2>3. PaidInBy(u) = SumOf(f)
    BY DEF PaidInBy, PaidOf
  <2> HIDE DEF f, p
  <2>4. IsFiniteSet(Units(p)) /\ SumOf(p) <= SumOf(f)
    BY <2>1, <2>2, SumGrows
  <2>5. SumOf(p) \in Nat /\ SumOf(f) \in Nat
    BY <2>1, <2>2, <2>4, NaturalSum
  <2> QED
    BY <2>2, <2>3, <2>4, <2>5
<1> QED
  BY <1>1, Always, BalanceAlways, PTL

(***************************************************************************)
(* EmployeeAccess.                                                         *)
(***************************************************************************)
TokenPcs == {"granting", "upserting", "found"}
LetterPcs == {"dropping", "making", "resetting", "done"}

\* Nobody holds an address that a handler is about to register, unless it was
\* raced for.
AccountInv ==
  /\ Access!AccountPerEmail
  /\ \A k \in Calls : req[k].pc = "creating" =>
       /\ req[k].what \in Emails /\ req[k].user = NoUser
       /\ req[k].what \notin raced => \A e \in Employees : email[e] # req[k].what

\* Tokens are numbered as they are issued, and one that was exchanged is gone.
NumberInv ==
  /\ \A t \in tokens : t.id <= issued
  /\ \A t, u \in tokens : t.id = u.id => t = u
  /\ \A i \in Access!TokenIds :
       /\ exchanged[i] <= 1
       /\ exchanged[i] # 0 => i <= issued /\ \A t \in tokens : t.id # i

Own(k, t) == t.user = req[k].user /\ t.agent = req[k].what

\* What a grant saw is the row of its employee and agent: the only one, unless
\* grants overlapped.
GrantInv ==
  /\ Access!OneRowPerAgent
  /\ \A k \in Calls : req[k].pc \in TokenPcs =>
       /\ req[k].user \in Employees /\ req[k].what \in Agents /\ req[k].seen <= issued
       /\ req[k].pc = "found" => req[k].seen \in Access!TokenIds
  /\ \A k \in Calls : req[k].pc = "upserting" => \A t \in tokens :
       /\ t.id = req[k].seen => Own(k, t)
       /\ Own(k, t) => t.id = req[k].seen \/ <<req[k].user, req[k].what>> \in overlapped

\* Letters are numbered as they are written.
PostInv ==
  /\ \A e \in Employees : /\ letter[e].id <= written
                          /\ letter[e].id = 0 => letter[e] = Access!NoLetter
  /\ \A e, f \in Employees : letter[e].id = letter[f].id /\ letter[e].id # 0 => e = f
  /\ \A k \in Calls : req[k].pc \in LetterPcs =>
       /\ req[k].user \in Employees /\ req[k].seen <= written
       /\ req[k].pc \in {"resetting", "done"} => req[k].seen \in Access!LetterIds

\* A letter that set the password is gone, or the handler that is to drop it is
\* still there, unless it was used at once or its deletion failed.
ResetInv ==
  /\ \A r \in Access!LetterIds :
       /\ answered[r] <= 1 /\ answered[r] <= resets[r]
       /\ answered[r] # 0 => \A e \in Employees : letter[e].id # r
       /\ resets[r] # 0 => r <= written
       /\ r \notin loose =>
            /\ resets[r] <= 1
            /\ resets[r] # 0 => \/ \A e \in Employees : letter[e].id # r
                                \/ \E k \in Calls : req[k].pc = "done" /\ req[k].seen = r
  /\ \A k \in Calls :
       /\ req[k].pc = "done" => resets[req[k].seen] # 0
       /\ req[k].pc = "resetting" /\ req[k].seen \notin loose => resets[req[k].seen] = 0
  /\ \A k, l \in Calls :
       /\ req[k].pc \in {"resetting", "done"} /\ req[l].pc \in {"resetting", "done"}
       /\ req[k].seen = req[l].seen /\ req[k].seen \notin loose
       => k = l

AccessInv == Access!TypeOK /\ AccountInv /\ NumberInv /\ GrantInv /\ PostInv /\ ResetInv

AccessRec == [pc : Access!Pcs, user : Employees \cup {NoUser},
              what : Agents \cup Emails \cup {NoUser}, seen : 0 .. MaxTokens + MaxResets]
TokenRec == [id : Access!TokenIds, user : Employees, agent : Agents, stale : BOOLEAN]

LEMMA AccessConstants ==
  /\ MaxTokens \in Nat /\ MaxResets \in Nat
  /\ NoUser \notin Employees \cup Emails \cup Agents
  BY MCBackOfficeAssumption DEF Access!EmployeeAccessAssumption

\* A handler whose record is r now; the others stand where they stood.
Put(k, r) == req' = [req EXCEPT ![k] = r]
\* No handler at one of these places came or went.
Spares(pcs) == \A l \in Calls : req'[l] = req[l] \/ (req[l].pc \notin pcs /\ req'[l].pc \notin pcs)

LEMMA PutIs ==
  ASSUME Access!TypeOK, NEW k \in Calls, NEW r \in AccessRec, Put(k, r)
  PROVE  /\ req' \in [Calls -> AccessRec]
         /\ req'[k] = r /\ \A l \in Calls : l # k => req'[l] = req[l]
         /\ \A pcs : req[k].pc \notin pcs /\ r.pc \notin pcs => Spares(pcs)
<1>1. req \in [Calls -> AccessRec]
  BY DEF Access!TypeOK, AccessRec
<1>2. /\ req' \in [Calls -> AccessRec]
      /\ req'[k] = r /\ \A l \in Calls : l # k => req'[l] = req[l]
  BY <1>1 DEF Put
<1> QED
  BY <1>2 DEF Spares

LEMMA AccountsSpared ==
  ASSUME AccountInv, UNCHANGED <<email, raced>>, Spares({"creating"})
  PROVE  AccountInv'
<1>1. Access!AccountPerEmail'
  BY DEF AccountInv, Access!AccountPerEmail
<1>2. ASSUME NEW k \in Calls, req'[k].pc = "creating"
      PROVE  /\ req'[k].what \in Emails /\ req'[k].user = NoUser
             /\ req'[k].what \notin raced' => \A e \in Employees : email'[e] # req'[k].what
  <2>1. req'[k] = req[k]
    BY <1>2 DEF Spares
  <2> QED
    BY <1>2, <2>1 DEF AccountInv
<1> QED
  BY <1>1, <1>2 DEF AccountInv

\* Tokens may go, and whatever happens elsewhere leaves the others as they are.
LEMMA TokensSpared ==
  ASSUME NumberInv, GrantInv, tokens' \subseteq tokens,
         UNCHANGED <<issued, exchanged, overlapped>>, Spares(TokenPcs)
  PROVE  NumberInv' /\ GrantInv'
<1>1. NumberInv'
  BY DEF NumberInv
<1>2. Access!OneRowPerAgent'
  BY DEF GrantInv, Access!OneRowPerAgent
<1>3. ASSUME NEW k \in Calls, req'[k].pc \in TokenPcs PROVE req'[k] = req[k]
  BY <1>3 DEF Spares
<1>4. "upserting" \in TokenPcs
  BY DEF TokenPcs
<1>5. \A k \in Calls : req'[k].pc \in TokenPcs =>
        /\ req'[k].user \in Employees /\ req'[k].what \in Agents /\ req'[k].seen <= issued'
        /\ req'[k].pc = "found" => req'[k].seen \in Access!TokenIds
  BY <1>3 DEF GrantInv
<1>6. \A k \in Calls : req'[k].pc = "upserting" => \A t \in tokens' :
        /\ t.id = req'[k].seen => Own(k, t)'
        /\ Own(k, t)' => t.id = req'[k].seen \/ <<req'[k].user, req'[k].what>> \in overlapped'
  BY <1>3, <1>4 DEF GrantInv, Own
<1> QED
  BY <1>1, <1>2, <1>5, <1>6 DEF GrantInv

LEMMA LettersSpared ==
  ASSUME PostInv, ResetInv, UNCHANGED <<letter, written, resets, answered, loose>>,
         Spares(LetterPcs)
  PROVE  PostInv' /\ ResetInv'
<1>1. \A k \in Calls : req'[k].pc \in LetterPcs \/ req[k].pc \in LetterPcs => req'[k] = req[k]
  BY DEF Spares
<1>2. "done" \in LetterPcs /\ {"resetting", "done"} \subseteq LetterPcs
  BY DEF LetterPcs
<1>3. PostInv'
  BY <1>1 DEF PostInv
<1>4. \A k \in Calls :
        /\ req'[k].pc \in {"resetting", "done"} => req'[k] = req[k]
        /\ req[k].pc \in {"resetting", "done"} => req'[k] = req[k]
  BY <1>1, <1>2
<1>5. ResetInv'
  BY <1>4 DEF ResetInv
<1> QED
  BY <1>3, <1>5

LEMMA AccessInit == Access!Init => AccessInv
<1> SUFFICES ASSUME Access!Init PROVE AccessInv
  OBVIOUS
<1> USE AccessConstants DEF Access!Init
<1>1. /\ \A k \in Calls : req[k] = [pc |-> "idle", user |-> NoUser, what |-> NoUser, seen |-> 0]
      /\ req \in [Calls -> AccessRec]
  BY DEF Access!Idle, Access!Pcs, AccessRec
<1>2. \A k \in Calls : req[k].pc = "idle"
  BY <1>1
<1>3. Access!TypeOK
  BY <1>1 DEF Access!TypeOK, AccessRec, Access!NoLetter, Access!TokenIds, Access!LetterIds,
     Access!MaxUses
<1>4. AccountInv
  BY <1>2 DEF AccountInv, Access!AccountPerEmail
<1>5. NumberInv /\ GrantInv
  BY <1>2 DEF NumberInv, GrantInv, Access!OneRowPerAgent, Access!TokenIds, TokenPcs
<1>6. PostInv /\ ResetInv
  BY <1>2 DEF PostInv, ResetInv, LetterPcs, Access!NoLetter, Access!LetterIds
<1> QED
  BY <1>3, <1>4, <1>5, <1>6 DEF AccessInv

(***************************************************************************)
(* Accounts                                                                *)
(***************************************************************************)
LEMMA BeginIs ==
  ASSUME NEW k, NEW r, Access!Begin(k, r)
  PROVE  req[k].pc = "idle" /\ Put(k, r)
  BY DEF Access!Begin, Access!Idle, Put

LEMMA RegisterFindStep ==
  ASSUME AccessInv, NEW k \in Calls, NEW m \in Emails, Access!RegisterFind(k, m)
  PROVE  AccessInv'
<1> USE AccessConstants
<1> DEFINE r == [pc |-> "creating", user |-> NoUser, what |-> m, seen |-> 0]
<1>1. /\ req[k].pc = "idle" /\ Put(k, r) /\ r \in AccessRec
      /\ UNCHANGED <<email, tokens, issued, exchanged, overlapped, letter, written,
                     resets, answered, loose>>
  <2>1. PICK s : s = [Access!Idle EXCEPT !.pc = "creating", !.what = m] /\ Access!Begin(k, s)
    BY DEF Access!RegisterFind
  <2>2. s = r
    BY <2>1 DEF Access!Idle
  <2>3. r \in AccessRec
    BY DEF AccessRec, Access!Pcs
  <2> HIDE DEF r
  <2> QED
    BY <2>1, <2>2, <2>3, BeginIs DEF Access!RegisterFind, Access!tokenVars, Access!letterVars
<1> HIDE DEF r
<1>2. req' \in [Calls -> AccessRec] /\ req'[k] = r /\ \A l \in Calls : l # k => req'[l] = req[l]
  BY <1>1, PutIs DEF AccessInv
<1>3. \/ (\A e \in Employees : email[e] # m) /\ raced' = raced
      \/ raced' = raced \cup {m}
  BY DEF Access!RegisterFind, Access!Holders
<1>4. Access!TypeOK'
  BY <1>1, <1>2, <1>3 DEF AccessInv, Access!TypeOK, AccessRec, Access!Exists
<1>5. AccountInv'
  BY <1>1, <1>2, <1>3 DEF r, AccessInv, AccountInv, Access!AccountPerEmail
<1>6. NumberInv' /\ GrantInv'
  BY <1>1, PutIs, TokensSpared DEF r, AccessInv, TokenPcs
<1>7. PostInv' /\ ResetInv'
  BY <1>1, PutIs, LettersSpared DEF r, AccessInv, LetterPcs
<1> QED
  BY <1>4, <1>5, <1>6, <1>7 DEF AccessInv

\* The record of a handler that returned.
Done == [pc |-> "idle", user |-> NoUser, what |-> NoUser, seen |-> 0]

LEMMA ReturnIs ==
  ASSUME NEW k, Access!Return(k)
  PROVE  Put(k, Done) /\ Done \in AccessRec /\ Done.pc = "idle"
  BY AccessConstants DEF Access!Return, Access!Idle, Put, Done, AccessRec, Access!Pcs

LEMMA RegisterCreateStep ==
  ASSUME AccessInv, NEW k \in Calls, Access!RegisterCreate(k)
  PROVE  AccessInv'
<1> USE AccessConstants
<1> DEFINE m == req[k].what
<1>1. /\ req[k].pc = "creating" /\ Put(k, Done) /\ Done \in AccessRec /\ Done.pc = "idle"
      /\ UNCHANGED <<tokens, issued, exchanged, overlapped, letter, written,
                     resets, answered, loose>>
  BY ReturnIs DEF Access!RegisterCreate, Access!At, Access!tokenVars, Access!letterVars
<1>2. req' \in [Calls -> AccessRec] /\ req'[k] = Done /\ \A l \in Calls : l # k => req'[l] = req[l]
  BY <1>1, PutIs DEF AccessInv
<1>3. m \in Emails /\ req[k].user = NoUser
  BY <1>1 DEF AccessInv, AccountInv
<1>4. /\ raced \subseteq raced' /\ raced' \subseteq raced \cup {m}
      /\ m \notin raced' => ~Access!Beside(k) /\ m \notin raced
  BY DEF Access!RegisterCreate
<1>5. \/ email' = email
      \/ \E e \in Employees : email[e] = NoUser /\ email' = [email EXCEPT ![e] = m]
  BY DEF Access!RegisterCreate, Access!Exists
<1>6. \A l \in Calls \ {k} : req[l].pc = "creating" /\ req[l].what = m => m \in raced'
  <2> SUFFICES ASSUME NEW l \in Calls \ {k}, req[l].pc = "creating", req[l].what = m
               PROVE  Access!Beside(k)
    BY <1>4
  <2>1. req[l].user = req[k].user /\ req[l].pc = req[k].pc
    BY <1>1, <1>3 DEF AccessInv, AccountInv
  <2>2. req[l] \in AccessRec /\ req[k] \in AccessRec
    BY DEF AccessInv, Access!TypeOK, AccessRec
  <2>3. req[l] = [req[k] EXCEPT !.seen = req[l].seen]
    BY <2>1, <2>2 DEF AccessRec
  <2> QED
    BY <2>3 DEF Access!Beside
<1>7. email \in [Employees -> Emails \cup {NoUser}]
  BY DEF AccessInv, Access!TypeOK
<1>8. Access!TypeOK'
  BY <1>1, <1>2, <1>3, <1>4, <1>5 DEF AccessInv, Access!TypeOK, AccessRec, Access!Exists
<1>9. AccountInv'
  <2>1. m \notin raced' => \A e \in Employees : email[e] # m
    BY <1>1, <1>4 DEF AccessInv, AccountInv
  <2>2. Access!AccountPerEmail'
    BY <1>4, <1>5, <1>7, <2>1 DEF AccessInv, AccountInv, Access!AccountPerEmail
  <2>3. ASSUME NEW l \in Calls, req'[l].pc = "creating"
        PROVE  /\ req'[l].what \in Emails /\ req'[l].user = NoUser
               /\ req'[l].what \notin raced' => \A e \in Employees : email'[e] # req'[l].what
    <3>1. l # k /\ req'[l] = req[l] /\ req[l].pc = "creating"
      BY <1>1, <1>2, <2>3
    <3>2. req[l].what = m => m \in raced'
      BY <1>6, <3>1
    <3> QED
      BY <1>4, <1>5, <1>7, <3>1, <3>2 DEF AccessInv, AccountInv
  <2> QED
    BY <2>2, <2>3 DEF AccountInv
<1>10. NumberInv' /\ GrantInv'
  BY <1>1, PutIs, TokensSpared DEF AccessInv, TokenPcs
<1>11. PostInv' /\ ResetInv'
  BY <1>1, PutIs, LettersSpared DEF AccessInv, LetterPcs
<1> QED
  BY <1>8, <1>9, <1>10, <1>11 DEF AccessInv

LEMMA UpdateEmailStep ==
  ASSUME AccessInv, NEW e \in Employees, NEW m \in Emails, Access!UpdateEmail(e, m)
  PROVE  AccessInv'
<1> USE AccessConstants
<1>1. /\ email[e] # NoUser /\ email' = [email EXCEPT ![e] = m]
      /\ \/ /\ raced' = raced /\ \A f \in Employees : email[f] = m => f = e
            /\ \A k \in Calls : req[k].what # m
         \/ raced' = raced \cup {m}
      /\ UNCHANGED <<tokens, issued, exchanged, overlapped, letter, written,
                     resets, answered, loose, req>>
  BY DEF Access!UpdateEmail, Access!Exists, Access!Holders, Access!tokenVars, Access!letterVars
<1>2. Access!TypeOK'
  BY <1>1 DEF AccessInv, Access!TypeOK, Access!Exists
<1>3. email \in [Employees -> Emails \cup {NoUser}]
  BY DEF AccessInv, Access!TypeOK
<1>4. AccountInv'
  BY <1>1, <1>3 DEF AccessInv, AccountInv, Access!AccountPerEmail
<1>5. Spares(TokenPcs) /\ Spares(LetterPcs)
  BY <1>1 DEF Spares
<1> QED
  BY <1>1, <1>2, <1>4, <1>5, TokensSpared, LettersSpared DEF AccessInv

LEMMA RemoveEmployeeStep ==
  ASSUME AccessInv, NEW e \in Employees, Access!RemoveEmployee(e)
  PROVE  AccessInv'
<1> USE AccessConstants
<1>1. /\ letter[e] = Access!NoLetter /\ email' = [email EXCEPT ![e] = NoUser]
      /\ tokens' = {t \in tokens : t.user # e}
      /\ UNCHANGED <<raced, issued, exchanged, overlapped, letter, written,
                     resets, answered, loose, req>>
  BY DEF Access!RemoveEmployee, Access!letterVars
<1>2. Access!TypeOK'
  BY <1>1 DEF AccessInv, Access!TypeOK, Access!Exists
<1>3. email \in [Employees -> Emails \cup {NoUser}]
  BY DEF AccessInv, Access!TypeOK
<1>4. AccountInv'
  BY <1>1, <1>3 DEF AccessInv, AccountInv, Access!AccountPerEmail
<1>5. Spares(TokenPcs) /\ Spares(LetterPcs)
  BY <1>1 DEF Spares
<1> QED
  BY <1>1, <1>2, <1>4, <1>5, TokensSpared, LettersSpared DEF AccessInv

(***************************************************************************)
(* Refresh tokens                                                          *)
(***************************************************************************)
\* What the steps of a grant leave alone.
Granting(k, r) ==
  /\ Put(k, r) /\ r \in AccessRec
  /\ req[k].pc \in TokenPcs \cup {"idle"} /\ r.pc \in TokenPcs \cup {"idle"}
  /\ UNCHANGED <<email, raced, letter, written, resets, answered, loose>>

LEMMA GrantSpares ==
  ASSUME AccessInv, NEW k \in Calls, NEW r, Granting(k, r)
  PROVE  /\ req' \in [Calls -> AccessRec]
         /\ req'[k] = r /\ \A l \in Calls : l # k => req'[l] = req[l]
         /\ AccountInv' /\ PostInv' /\ ResetInv'
<1>1. /\ req' \in [Calls -> AccessRec]
      /\ req'[k] = r /\ \A l \in Calls : l # k => req'[l] = req[l]
      /\ Spares({"creating"}) /\ Spares(LetterPcs)
  BY PutIs DEF AccessInv, Granting, TokenPcs, LetterPcs
<1> QED
  BY <1>1, AccountsSpared, LettersSpared DEF AccessInv, Granting

\* A handler of a grant that only moves: what it has seen is what it may have seen.
LEMMA GrantMoves ==
  ASSUME AccessInv, NEW k \in Calls, NEW r, Granting(k, r),
         UNCHANGED <<tokens, issued, exchanged, overlapped>>,
         r.pc \in TokenPcs => /\ r.user \in Employees /\ r.what \in Agents /\ r.seen <= issued
                              /\ r.pc = "found" => r.seen \in Access!TokenIds,
         r.pc = "upserting" => \A t \in tokens :
           LET own == t.user = r.user /\ t.agent = r.what IN
           /\ t.id = r.seen => own
           /\ own => t.id = r.seen \/ <<r.user, r.what>> \in overlapped
  PROVE  AccessInv'
<1>1. /\ req' \in [Calls -> AccessRec]
      /\ req'[k] = r /\ \A l \in Calls : l # k => req'[l] = req[l]
      /\ AccountInv' /\ PostInv' /\ ResetInv'
  BY GrantSpares
<1>2. Access!TypeOK'
  BY <1>1 DEF AccessInv, Granting, Access!TypeOK, AccessRec, Access!Exists
<1>3. NumberInv'
  BY DEF AccessInv, NumberInv
<1>4. Access!OneRowPerAgent'
  BY DEF AccessInv, GrantInv, Access!OneRowPerAgent
<1>5. ASSUME NEW l \in Calls
      PROVE  /\ req'[l].pc \in TokenPcs =>
                  /\ req'[l].user \in Employees /\ req'[l].what \in Agents /\ req'[l].seen <= issued'
                  /\ req'[l].pc = "found" => req'[l].seen \in Access!TokenIds
             /\ req'[l].pc = "upserting" => \A t \in tokens' :
                  /\ t.id = req'[l].seen => Own(l, t)'
                  /\ Own(l, t)' => \/ t.id = req'[l].seen
                                   \/ <<req'[l].user, req'[l].what>> \in overlapped'
  <2>1. CASE l = k
    BY <1>1, <2>1 DEF Own
  <2>2. CASE l # k
    BY <1>1, <2>2 DEF AccessInv, GrantInv, Own
  <2> QED
    BY <2>1, <2>2
<1>6. GrantInv'
  BY <1>4, <1>5 DEF GrantInv
<1> QED
  BY <1>1, <1>2, <1>3, <1>6 DEF AccessInv

LEMMA LoginStep ==
  ASSUME AccessInv, NEW k \in Calls, NEW e \in Employees, NEW a \in Agents, Access!Login(k, e, a)
  PROVE  AccessInv'
<1> DEFINE r == [pc |-> "granting", user |-> e, what |-> a, seen |-> 0]
<1>1. PICK s : s = [Access!Idle EXCEPT !.pc = "granting", !.user = e, !.what = a]
               /\ Access!Begin(k, s)
  BY DEF Access!Login
<1>2. s = r
  BY <1>1 DEF Access!Idle
<1>3. r \in AccessRec /\ r.pc = "granting" /\ r.user = e /\ r.what = a /\ r.seen = 0
  BY AccessConstants DEF AccessRec, Access!Pcs
<1> HIDE DEF r
<1>4. Granting(k, r) /\ UNCHANGED <<tokens, issued, exchanged, overlapped>>
  BY <1>1, <1>2, <1>3, BeginIs DEF Access!Login, Granting, TokenPcs, Access!accountVars,
     Access!tokenVars, Access!letterVars
<1>5. 0 <= issued
  BY AccessConstants DEF AccessInv, Access!TypeOK
<1> QED
  BY <1>3, <1>4, <1>5, GrantMoves

LEMMA RefreshFindStep ==
  ASSUME AccessInv, NEW k \in Calls, NEW i \in Access!TokenIds, NEW a \in Agents,
         Access!RefreshFind(k, i, a)
  PROVE  AccessInv'
<1>1. PICK t \in Access!Row(i) :
        Access!Begin(k, [pc |-> "found", user |-> t.user, what |-> a, seen |-> i])
  BY DEF Access!RefreshFind
<1> DEFINE r == [pc |-> "found", user |-> t.user, what |-> a, seen |-> i]
<1>2. t \in tokens /\ t.id = i /\ t.user \in Employees /\ i <= issued
  BY DEF Access!Row, AccessInv, Access!TypeOK, NumberInv
<1>3. r \in AccessRec /\ r.pc = "found" /\ r.user = t.user /\ r.what = a /\ r.seen = i
  BY <1>2, AccessConstants DEF AccessRec, Access!Pcs, Access!TokenIds
<1>4. req[k].pc = "idle" /\ Put(k, r)
  BY <1>1, BeginIs
<1> HIDE DEF r
<1>5. Granting(k, r) /\ UNCHANGED <<tokens, issued, exchanged, overlapped>>
  BY <1>3, <1>4 DEF Access!RefreshFind, Granting, TokenPcs, Access!accountVars,
     Access!tokenVars, Access!letterVars
<1> QED
  BY <1>2, <1>3, <1>5, GrantMoves

\* Where a handler goes on, its record keeps the rest.
LEMMA GotoIs ==
  ASSUME AccessInv, NEW k \in Calls, NEW pc \in Access!Pcs, Access!Goto(k, pc)
  PROVE  LET r == [req[k] EXCEPT !.pc = pc] IN
         /\ Put(k, r) /\ r \in AccessRec
         /\ r.pc = pc /\ r.user = req[k].user /\ r.what = req[k].what /\ r.seen = req[k].seen
<1>1. req \in [Calls -> AccessRec] /\ req[k] \in AccessRec
  BY DEF AccessInv, Access!TypeOK, AccessRec
<1> QED
  BY <1>1 DEF AccessRec, Access!Goto, Put

LEMMA RefreshDeleteStep ==
  ASSUME AccessInv, NEW k \in Calls, Access!RefreshDelete(k)
  PROVE  AccessInv'
<1> USE AccessConstants
<1> DEFINE i == req[k].seen
<1>1. /\ req[k].pc = "found" /\ req[k].user \in Employees /\ req[k].what \in Agents
      /\ i \in Access!TokenIds /\ i <= issued
  BY DEF Access!RefreshDelete, Access!At, AccessInv, GrantInv, TokenPcs
<1>2. UNCHANGED <<email, raced, issued, overlapped, letter, written, resets, answered, loose>>
  BY DEF Access!RefreshDelete, Access!accountVars, Access!letterVars
<1>3. PICK r : /\ Granting(k, r)
               /\ \/ r.pc = "idle"
                  \/ r.pc = "granting" /\ r.user = req[k].user /\ r.what = req[k].what
                     /\ r.seen = i
  <2>1. CASE Access!Return(k)
    BY <1>1, <1>2, <2>1, ReturnIs DEF Granting, TokenPcs
  <2>2. CASE Access!Goto(k, "granting")
    <3>1. "granting" \in Access!Pcs
      BY DEF Access!Pcs
    <3> DEFINE q == [req[k] EXCEPT !.pc = "granting"]
    <3>2. /\ Put(k, q) /\ q \in AccessRec
          /\ q.pc = "granting" /\ q.user = req[k].user /\ q.what = req[k].what /\ q.seen = i
      BY <2>2, <3>1, GotoIs
    <3> HIDE DEF q
    <3>3. Granting(k, q)
      BY <1>1, <1>2, <3>2 DEF Granting, TokenPcs
    <3> QED
      BY <3>2, <3>3
  <2> QED
    BY <2>1, <2>2 DEF Access!RefreshDelete
<1>4. /\ req' \in [Calls -> AccessRec]
      /\ req'[k] = r /\ \A l \in Calls : l # k => req'[l] = req[l]
      /\ AccountInv' /\ PostInv' /\ ResetInv'
  BY <1>3, GrantSpares
<1>5. /\ tokens' \subseteq tokens
      /\ \/ exchanged' = exchanged
         \/ \E t \in tokens : /\ t.id = i /\ tokens' = tokens \ {t}
                              /\ exchanged' = [exchanged EXCEPT ![i] = Access!More(@)]
  BY DEF Access!RefreshDelete, Access!Row
<1>6. exchanged \in [Access!TokenIds -> 0 .. 2]
  BY DEF AccessInv, Access!TypeOK, Access!MaxUses
<1>7. exchanged' \in [Access!TokenIds -> 0 .. 2]
  BY <1>1, <1>5, <1>6 DEF Access!More, Access!MaxUses
<1>8. Access!TypeOK'
  BY <1>2, <1>4, <1>5, <1>7 DEF AccessInv, Access!TypeOK, AccessRec, Access!Exists, Access!MaxUses
<1>9. NumberInv'
  <2>1. CASE exchanged' = exchanged
    BY <1>2, <1>5, <2>1 DEF AccessInv, NumberInv
  <2>2. ASSUME NEW t \in tokens, t.id = i, tokens' = tokens \ {t},
               exchanged' = [exchanged EXCEPT ![i] = Access!More(@)]
        PROVE  NumberInv'
    <3>1. exchanged[i] = 0
      BY <1>1, <2>2 DEF AccessInv, NumberInv
    <3>2. exchanged'[i] = 1 /\ \A j \in Access!TokenIds : j # i => exchanged'[j] = exchanged[j]
      BY <1>1, <1>6, <2>2, <3>1 DEF Access!More, Access!MaxUses
    <3>3. \A u \in tokens' : u.id # i
      BY <2>2 DEF AccessInv, NumberInv
    <3> QED
      BY <1>1, <1>2, <1>5, <3>2, <3>3 DEF AccessInv, NumberInv
  <2> QED
    BY <1>5, <2>1, <2>2
<1>10. GrantInv'
  <2>1. Access!OneRowPerAgent'
    BY <1>2, <1>5 DEF AccessInv, GrantInv, Access!OneRowPerAgent
  <2>2. ASSUME NEW l \in Calls
        PROVE  /\ req'[l].pc \in TokenPcs =>
                    /\ req'[l].user \in Employees /\ req'[l].what \in Agents
                    /\ req'[l].seen <= issued'
                    /\ req'[l].pc = "found" => req'[l].seen \in Access!TokenIds
               /\ req'[l].pc = "upserting" => \A t \in tokens' :
                    /\ t.id = req'[l].seen => Own(l, t)'
                    /\ Own(l, t)' => \/ t.id = req'[l].seen
                                     \/ <<req'[l].user, req'[l].what>> \in overlapped'
    <3>1. CASE l = k
      BY <1>1, <1>2, <1>3, <1>4, <3>1 DEF TokenPcs
    <3>2. CASE l # k
      BY <1>2, <1>4, <1>5, <3>2 DEF AccessInv, GrantInv, Own
    <3> QED
      BY <3>1, <3>2
  <2> QED
    BY <2>1, <2>2 DEF GrantInv
<1> QED
  BY <1>4, <1>8, <1>9, <1>10 DEF AccessInv

LEMMA TokenLookStep ==
  ASSUME AccessInv, NEW k \in Calls, Access!TokenLook(k)
  PROVE  AccessInv'
<1> USE AccessConstants
<1> DEFINE rows == Access!RowsOf(req[k].user, req[k].what)
<1>1. /\ req[k].pc = "granting" /\ req[k].user \in Employees /\ req[k].what \in Agents
      /\ issued \in Nat
  BY DEF Access!TokenLook, Access!At, AccessInv, Access!TypeOK, GrantInv, TokenPcs
<1>2. PICK n \in IF rows = {} THEN {0} ELSE {t.id : t \in rows} :
        req' = [req EXCEPT ![k] = [req[k] EXCEPT !.pc = "upserting", !.seen = n]]
  BY DEF Access!TokenLook
<1> DEFINE r == [pc |-> "upserting", user |-> req[k].user, what |-> req[k].what, seen |-> n]
<1>3. /\ n \in 0 .. MaxTokens /\ n <= issued
      /\ (rows = {} /\ n = 0) \/ \E t \in rows : n = t.id
  <2>1. \A t \in rows : t.id \in 0 .. MaxTokens /\ t.id <= issued
    BY DEF Access!RowsOf, AccessInv, NumberInv, Access!TypeOK, Access!TokenIds
  <2> QED
    BY <1>1, <2>1
<1>4. Put(k, r) /\ r \in AccessRec
  <2>1. req[k] \in AccessRec
    BY DEF AccessInv, Access!TypeOK, AccessRec
  <2>2. r \in AccessRec
    BY <1>3, <2>1 DEF AccessRec, Access!Pcs
  <2>3. PICK s : /\ s = [req[k] EXCEPT !.pc = "upserting", !.seen = n]
                 /\ req' = [req EXCEPT ![k] = s]
    BY <1>2
  <2>4. s = r
    BY <2>1, <2>3 DEF AccessRec
  <2> QED
    BY <2>2, <2>3, <2>4 DEF Put
<1>5. r.pc = "upserting" /\ r.user = req[k].user /\ r.what = req[k].what /\ r.seen = n
  OBVIOUS
<1> HIDE DEF r
<1>6. Granting(k, r) /\ UNCHANGED <<tokens, issued, exchanged, overlapped>>
  BY <1>1, <1>4, <1>5 DEF Access!TokenLook, Granting, TokenPcs, Access!accountVars,
     Access!tokenVars, Access!letterVars
<1>7. ASSUME NEW t \in tokens
      PROVE  LET own == t.user = r.user /\ t.agent = r.what IN
             /\ t.id = r.seen => own
             /\ own => t.id = r.seen \/ <<r.user, r.what>> \in overlapped
  <2>1. t.id # 0
    BY DEF AccessInv, Access!TypeOK, Access!TokenIds
  <2>2. CASE rows = {} /\ n = 0
    BY <1>5, <2>1, <2>2 DEF Access!RowsOf
  <2>3. ASSUME NEW u \in rows, n = u.id
        PROVE  /\ t.id = n => t = u
               /\ t.user = u.user /\ t.agent = u.agent => t = u \/ <<u.user, u.agent>> \in overlapped
               /\ u.user = req[k].user /\ u.agent = req[k].what
    BY <2>3 DEF AccessInv, NumberInv, GrantInv, Access!OneRowPerAgent, Access!RowsOf
  <2> QED
    BY <1>3, <1>5, <2>2, <2>3
<1> QED
  BY <1>1, <1>3, <1>5, <1>6, <1>7, GrantMoves

LEMMA TokenUpsertStep ==
  ASSUME AccessInv, NEW k \in Calls, Access!TokenUpsert(k)
  PROVE  AccessInv'
<1> USE AccessConstants
<1> DEFINE e == req[k].user
           a == req[k].what
           seen == Access!Row(req[k].seen)
           new == [id |-> issued + 1, user |-> e, agent |-> a, stale |-> FALSE]
<1>1. /\ req[k].pc = "upserting" /\ e \in Employees /\ a \in Agents /\ issued \in Nat
      /\ req[k].pc \in TokenPcs
  BY DEF Access!TokenUpsert, Access!At, AccessInv, Access!TypeOK, GrantInv, TokenPcs
<1>2. /\ Granting(k, Done) /\ Done.pc = "idle" /\ exchanged' = exchanged
      /\ email' = email
  BY <1>1, ReturnIs DEF Access!TokenUpsert, Granting, Access!accountVars, Access!letterVars
<1>3. /\ req' \in [Calls -> AccessRec]
      /\ req'[k] = Done /\ \A l \in Calls : l # k => req'[l] = req[l]
      /\ AccountInv' /\ PostInv' /\ ResetInv'
  BY <1>2, GrantSpares
<1>4. /\ overlapped \subseteq overlapped' /\ overlapped' \subseteq overlapped \cup {<<e, a>>}
      /\ <<e, a>> \notin overlapped' => ~Access!Beside(k) /\ <<e, a>> \notin overlapped
  BY DEF Access!TokenUpsert
<1>5. \A l \in Calls \ {k} :
        req[l].pc = "upserting" /\ req[l].user = e /\ req[l].what = a
          => <<e, a>> \in overlapped'
  <2> SUFFICES ASSUME NEW l \in Calls \ {k}, req[l].pc = "upserting",
                      req[l].user = e, req[l].what = a
               PROVE  Access!Beside(k)
    BY <1>4
  <2>1. req[l] \in AccessRec /\ req[k] \in AccessRec
    BY DEF AccessInv, Access!TypeOK, AccessRec
  <2>2. req[l] = [req[k] EXCEPT !.seen = req[l].seen]
    BY <1>1, <2>1 DEF AccessRec
  <2> QED
    BY <2>2 DEF Access!Beside
<1>6. \A t \in seen : /\ t \in tokens /\ t.user = e /\ t.agent = a
                      /\ t.id = req[k].seen
  BY <1>1 DEF AccessInv, GrantInv, Own, Access!Row
<1>7. \/ tokens' = tokens /\ issued' = issued
      \/ /\ issued < MaxTokens /\ tokens' = (tokens \ seen) \cup {new} /\ issued' = issued + 1
         /\ email[e] # NoUser
  <2>1. \A t \in seen : email[e] # NoUser
    BY <1>6 DEF AccessInv, Access!TypeOK, Access!Exists
  <2> QED
    BY <1>1, <2>1 DEF Access!TokenUpsert, Access!Exists
<1>8. CASE tokens' = tokens /\ issued' = issued
  <2>1. Access!TypeOK'
    BY <1>1, <1>2, <1>3, <1>4, <1>8
       DEF AccessInv, Access!TypeOK, AccessRec, Access!Exists, Granting
  <2>2. NumberInv'
    BY <1>2, <1>8 DEF AccessInv, NumberInv
  <2>3. Access!OneRowPerAgent'
    BY <1>4, <1>8 DEF AccessInv, GrantInv, Access!OneRowPerAgent
  <2>4. GrantInv'
    BY <1>2, <1>3, <1>4, <1>8, <2>3 DEF AccessInv, GrantInv, Own, TokenPcs
  <2> QED
    BY <1>3, <2>1, <2>2, <2>4 DEF AccessInv
<1>9. CASE /\ issued < MaxTokens /\ tokens' = (tokens \ seen) \cup {new} /\ issued' = issued + 1
           /\ email[e] # NoUser
  <2>1. /\ new \in TokenRec /\ new.id = issued + 1 /\ new.user = e /\ new.agent = a
    BY <1>1, <1>9 DEF TokenRec, Access!TokenIds
  <2>2. \A t \in tokens : t.id \in Nat /\ t.id <= issued
    BY DEF AccessInv, Access!TypeOK, NumberInv, Access!TokenIds
  <2> HIDE DEF new
  <2>3. Access!TypeOK'
    <3>1. tokens' \subseteq TokenRec
      BY <1>9, <2>1 DEF AccessInv, Access!TypeOK, TokenRec
    <3>2. \A t \in tokens' : Access!Exists(t.user)'
      BY <1>1, <1>2, <1>9, <2>1 DEF AccessInv, Access!TypeOK, Access!Exists
    <3>3. issued' \in 0 .. MaxTokens /\ overlapped' \subseteq Employees \X Agents
      BY <1>1, <1>4, <1>9 DEF AccessInv, Access!TypeOK
    <3> QED
      BY <1>2, <1>3, <3>1, <3>2, <3>3
         DEF AccessInv, Access!TypeOK, AccessRec, TokenRec, Access!Exists, Granting
  <2>4. NumberInv'
    <3>1. \A t \in tokens' : t.id <= issued'
      BY <1>1, <1>9, <2>1, <2>2
    <3>2. \A t, u \in tokens' : t.id = u.id => t = u
      BY <1>1, <1>9, <2>1, <2>2 DEF AccessInv, NumberInv
    <3>3. ASSUME NEW i \in Access!TokenIds, exchanged'[i] # 0
          PROVE  i <= issued' /\ \A t \in tokens' : t.id # i
      <4>1. i <= issued /\ \A t \in tokens : t.id # i
        BY <1>2, <3>3 DEF AccessInv, NumberInv
      <4>2. i \in Nat
        BY DEF Access!TokenIds
      <4> QED
        BY <1>1, <1>9, <2>1, <4>1, <4>2
    <3> QED
      BY <1>2, <3>1, <3>2, <3>3 DEF AccessInv, NumberInv
  <2>5. ASSUME <<e, a>> \notin overlapped', NEW t \in tokens \ seen, t.user = e, t.agent = a
        PROVE  FALSE
    <3>1. t.id = req[k].seen
      BY <1>1, <1>4, <2>5 DEF AccessInv, GrantInv, Own
    <3> QED
      BY <2>5, <3>1 DEF Access!Row
  <2>6. Access!OneRowPerAgent'
    <3> SUFFICES ASSUME NEW t \in tokens', NEW u \in tokens', t.user = u.user, t.agent = u.agent,
                        <<t.user, t.agent>> \notin overlapped'
                 PROVE  t = u
      BY DEF Access!OneRowPerAgent
    <3>1. CASE t \in tokens /\ u \in tokens
      BY <1>4, <3>1 DEF AccessInv, GrantInv, Access!OneRowPerAgent
    <3>2. CASE t = new \/ u = new
      BY <1>9, <2>1, <2>5, <3>2
    <3> QED
      BY <1>9, <3>1, <3>2
  <2>7. ASSUME NEW l \in Calls
        PROVE  /\ req'[l].pc \in TokenPcs =>
                    /\ req'[l].user \in Employees /\ req'[l].what \in Agents
                    /\ req'[l].seen <= issued'
                    /\ req'[l].pc = "found" => req'[l].seen \in Access!TokenIds
               /\ req'[l].pc = "upserting" => \A t \in tokens' :
                    /\ t.id = req'[l].seen => Own(l, t)'
                    /\ Own(l, t)' => \/ t.id = req'[l].seen
                                     \/ <<req'[l].user, req'[l].what>> \in overlapped'
    <3>1. CASE l = k
      BY <1>2, <1>3, <3>1 DEF TokenPcs
    <3>2. CASE l # k
      <4>1. req'[l] = req[l] /\ req[l].seen \in Nat
        BY <1>3, <3>2 DEF AccessInv, Access!TypeOK
      <4>2. req[l].pc \in TokenPcs =>
              /\ req[l].user \in Employees /\ req[l].what \in Agents /\ req[l].seen <= issued
              /\ req[l].pc = "found" => req[l].seen \in Access!TokenIds
        BY DEF AccessInv, GrantInv
      <4>3. ASSUME req[l].pc = "upserting", NEW t \in tokens
            PROVE  /\ t.id = req[l].seen => Own(l, t)
                   /\ Own(l, t) => t.id = req[l].seen \/ <<req[l].user, req[l].what>> \in overlapped
        BY <4>3 DEF AccessInv, GrantInv
      <4>4. ASSUME req[l].pc = "upserting"
            PROVE  /\ new.id # req[l].seen
                   /\ new.user = req[l].user /\ new.agent = req[l].what
                        => <<req[l].user, req[l].what>> \in overlapped'
        <5>1. req[l].seen <= issued
          BY <4>2, <4>4 DEF TokenPcs
        <5> QED
          BY <1>1, <1>5, <2>1, <3>2, <4>1, <4>4, <5>1
      <4>5. issued <= issued'
        BY <1>1, <1>9
      <4>6. req'[l].seen <= issued' \/ req[l].pc \notin TokenPcs
        BY <1>1, <1>9, <4>1, <4>2
      <4> QED
        BY <1>4, <1>9, <4>1, <4>2, <4>3, <4>4, <4>6 DEF Own
    <3> QED
      BY <3>1, <3>2
  <2> QED
    BY <1>3, <2>3, <2>4, <2>6, <2>7 DEF AccessInv, GrantInv
<1> QED
  BY <1>7, <1>8, <1>9

LEMMA LogoutStep ==
  ASSUME AccessInv, NEW i \in Access!TokenIds, Access!Logout(i)
  PROVE  AccessInv'
<1>1. /\ tokens' \subseteq tokens
      /\ UNCHANGED <<email, raced, issued, exchanged, overlapped, letter, written,
                     resets, answered, loose, req>>
  BY DEF Access!Logout, Access!accountVars, Access!letterVars
<1>2. Access!TypeOK'
  BY <1>1 DEF AccessInv, Access!TypeOK, Access!Exists
<1>3. Spares({"creating"}) /\ Spares(TokenPcs) /\ Spares(LetterPcs)
  BY <1>1 DEF Spares
<1> QED
  BY <1>1, <1>2, <1>3, AccountsSpared, TokensSpared, LettersSpared DEF AccessInv

LEMMA TokenLapsesStep ==
  ASSUME AccessInv, NEW i \in Access!TokenIds, Access!TokenLapses(i)
  PROVE  AccessInv'
<1>1. PICK t \in tokens : tokens' = (tokens \ {t}) \cup {[t EXCEPT !.stale = TRUE]}
  BY DEF Access!TokenLapses, Access!Row
<1> DEFINE u == [t EXCEPT !.stale = TRUE]
<1>2. /\ UNCHANGED <<email, raced, issued, exchanged, overlapped, letter, written,
                     resets, answered, loose, req>>
  BY DEF Access!TokenLapses, Access!accountVars, Access!letterVars
<1>3. u \in TokenRec /\ u.id = t.id /\ u.user = t.user /\ u.agent = t.agent
  BY DEF AccessInv, Access!TypeOK, TokenRec
<1> HIDE DEF u
<1>4. tokens' = (tokens \ {t}) \cup {u}
  BY <1>1 DEF u
<1>5. Access!TypeOK'
  <2>1. tokens' \subseteq TokenRec /\ \A v \in tokens' : Access!Exists(v.user)'
    BY <1>2, <1>3, <1>4 DEF AccessInv, Access!TypeOK, Access!Exists, TokenRec
  <2> QED
    BY <1>2, <2>1 DEF AccessInv, Access!TypeOK, Access!Exists, TokenRec
<1>6. NumberInv'
  BY <1>2, <1>3, <1>4 DEF AccessInv, NumberInv
<1>7. Access!OneRowPerAgent'
  BY <1>2, <1>3, <1>4 DEF AccessInv, GrantInv, Access!OneRowPerAgent
<1>8. GrantInv'
  <2>1. ASSUME NEW l \in Calls, req[l].pc = "upserting", NEW v \in tokens'
        PROVE  /\ v.id = req[l].seen => Own(l, v)
               /\ Own(l, v) => v.id = req[l].seen \/ <<req[l].user, req[l].what>> \in overlapped
    BY <1>3, <1>4, <2>1 DEF AccessInv, GrantInv, Own
  <2> QED
    BY <1>2, <1>7, <2>1 DEF AccessInv, GrantInv, Own
<1>9. Spares({"creating"}) /\ Spares(LetterPcs)
  BY <1>2 DEF Spares
<1> QED
  BY <1>2, <1>5, <1>6, <1>8, <1>9, AccountsSpared, LettersSpared DEF AccessInv

(***************************************************************************)
(* Letters of reset                                                        *)
(***************************************************************************)
LetterRec == [id : 0 .. MaxResets, stale : BOOLEAN]
ResetPcs == {"resetting", "done"}

\* What the steps of a letter leave alone.
Posting(k, r) ==
  /\ Put(k, r) /\ r \in AccessRec
  /\ req[k].pc \in LetterPcs \cup {"idle"} /\ r.pc \in LetterPcs \cup {"idle"}
  /\ UNCHANGED <<email, raced, tokens, issued, exchanged, overlapped>>

LEMMA PostSpares ==
  ASSUME AccessInv, NEW k \in Calls, NEW r, Posting(k, r)
  PROVE  /\ req' \in [Calls -> AccessRec]
         /\ req'[k] = r /\ \A l \in Calls : l # k => req'[l] = req[l]
         /\ AccountInv' /\ NumberInv' /\ GrantInv'
<1>1. /\ req' \in [Calls -> AccessRec]
      /\ req'[k] = r /\ \A l \in Calls : l # k => req'[l] = req[l]
      /\ Spares({"creating"}) /\ Spares(TokenPcs)
  BY PutIs DEF AccessInv, Posting, TokenPcs, LetterPcs
<1> QED
  BY <1>1, AccountsSpared, TokensSpared DEF AccessInv, Posting

LEMMA LetterTypes ==
  ASSUME AccessInv
  PROVE  /\ letter \in [Employees -> LetterRec] /\ written \in 0 .. MaxResets
         /\ resets \in [Access!LetterIds -> 0 .. 2] /\ answered \in [Access!LetterIds -> 0 .. 2]
         /\ loose \subseteq Access!LetterIds
         /\ \A e \in Employees : letter[e] # Access!NoLetter => email[e] # NoUser
  BY DEF AccessInv, Access!TypeOK, LetterRec, Access!MaxUses, Access!Exists

\* The type invariant, when a letter's step keeps its share of it.
LEMMA PostType ==
  ASSUME AccessInv, NEW k \in Calls, NEW r, Posting(k, r),
         letter' \in [Employees -> LetterRec], written' \in 0 .. MaxResets,
         resets' \in [Access!LetterIds -> 0 .. 2], answered' \in [Access!LetterIds -> 0 .. 2],
         loose' \subseteq Access!LetterIds,
         \A e \in Employees : letter'[e] # Access!NoLetter => email[e] # NoUser
  PROVE  Access!TypeOK'
<1>1. req' \in [Calls -> AccessRec]
  BY PostSpares
<1> QED
  BY <1>1 DEF Posting, AccessInv, Access!TypeOK, AccessRec, LetterRec, Access!MaxUses, Access!Exists

\* A handler that stays clear of the use of letters.
LEMMA PostMoves ==
  ASSUME AccessInv, NEW k \in Calls, NEW r, Posting(k, r),
         UNCHANGED <<letter, written, resets, answered, loose>>,
         req[k].pc # "done", r.pc \notin ResetPcs,
         r.pc \in LetterPcs => r.user \in Employees /\ r.seen <= written
  PROVE  AccessInv'
<1>1. /\ req' \in [Calls -> AccessRec]
      /\ req'[k] = r /\ \A l \in Calls : l # k => req'[l] = req[l]
      /\ AccountInv' /\ NumberInv' /\ GrantInv'
  BY PostSpares
<1>2. Access!TypeOK'
  BY LetterTypes, PostType
<1>3. PostInv'
  BY <1>1 DEF AccessInv, PostInv, ResetPcs
<1>4. \A l \in Calls : /\ req'[l].pc \in ResetPcs => l # k /\ req'[l] = req[l]
                       /\ req[l].pc = "done" => req'[l] = req[l]
  BY <1>1
<1>5. ResetInv'
  BY <1>4 DEF AccessInv, ResetInv, ResetPcs
<1> QED
  BY <1>1, <1>2, <1>3, <1>5 DEF AccessInv

LEMMA ForgotPasswordStep ==
  ASSUME AccessInv, NEW k \in Calls, NEW e \in Employees, Access!ForgotPassword(k, e)
  PROVE  AccessInv'
<1> DEFINE pc == IF letter[e].stale THEN "dropping" ELSE "making"
           r == [pc |-> pc, user |-> e, what |-> NoUser, seen |-> letter[e].id]
<1>1. PICK s : s = [Access!Idle EXCEPT !.pc = pc, !.user = e, !.seen = letter[e].id]
               /\ Access!Begin(k, s)
  BY DEF Access!ForgotPassword
<1>2. s = r
  BY <1>1 DEF Access!Idle
<1>3. pc \in {"dropping", "making"}
  OBVIOUS
<1>4. letter[e].id \in 0 .. MaxResets /\ letter[e].id <= written
  BY LetterTypes DEF LetterRec, AccessInv, PostInv
<1>5. r \in AccessRec /\ r.pc = pc /\ r.user = e /\ r.seen = letter[e].id
  BY <1>3, <1>4, AccessConstants DEF AccessRec, Access!Pcs
<1> HIDE DEF r, pc
<1>6. Posting(k, r) /\ UNCHANGED <<letter, written, resets, answered, loose>> /\ req[k].pc = "idle"
  BY <1>1, <1>2, <1>3, <1>5, BeginIs DEF Access!ForgotPassword, Posting, LetterPcs,
     Access!accountVars, Access!tokenVars, Access!letterVars
<1> QED
  BY <1>3, <1>4, <1>5, <1>6, PostMoves DEF ResetPcs

LEMMA LetterDropStep ==
  ASSUME AccessInv, NEW k \in Calls, Access!LetterDrop(k)
  PROVE  AccessInv'
<1> DEFINE e == req[k].user
<1>1. /\ req[k].pc = "dropping" /\ e \in Employees /\ req[k].seen <= written
      /\ UNCHANGED <<email, raced, tokens, issued, exchanged, overlapped,
                     written, resets, answered, loose>>
  BY DEF Access!LetterDrop, Access!At, Access!accountVars, Access!tokenVars,
     AccessInv, PostInv, LetterPcs
<1>2. CASE Access!Return(k) /\ UNCHANGED letter
  <2>1. Posting(k, Done) /\ Done.pc = "idle"
    BY <1>1, <1>2, ReturnIs DEF Posting, LetterPcs
  <2> QED
    BY <1>1, <1>2, <2>1, PostMoves DEF ResetPcs, LetterPcs
<1>3. CASE Access!Goto(k, "making") /\ letter' = [letter EXCEPT ![e] = Access!NoLetter]
  <2> DEFINE r == [req[k] EXCEPT !.pc = "making"]
  <2>1. /\ Put(k, r) /\ r \in AccessRec
        /\ r.pc = "making" /\ r.user = e /\ r.seen = req[k].seen
    <3>1. "making" \in Access!Pcs
      BY DEF Access!Pcs
    <3> QED
      BY <1>3, <3>1, GotoIs
  <2> HIDE DEF r
  <2>2. Posting(k, r)
    BY <1>1, <2>1 DEF Posting, LetterPcs
  <2>3. /\ req'[k] = r /\ \A l \in Calls : l # k => req'[l] = req[l]
        /\ AccountInv' /\ NumberInv' /\ GrantInv'
    BY <2>2, PostSpares
  <2>4. /\ letter' \in [Employees -> LetterRec] /\ letter'[e].id = 0
        /\ letter'[e] = Access!NoLetter
        /\ \A f \in Employees : f # e => letter'[f] = letter[f]
    BY <1>1, <1>3, LetterTypes, AccessConstants DEF LetterRec, Access!NoLetter
  <2>5. Access!TypeOK'
    BY <1>1, <2>2, <2>4, LetterTypes, PostType
  <2>6. written \in Nat
    BY LetterTypes, AccessConstants
  <2>7. PostInv'
    BY <1>1, <2>1, <2>3, <2>4, <2>6 DEF AccessInv, PostInv
  <2>8. \A l \in Calls : /\ req'[l].pc \in ResetPcs => l # k /\ req'[l] = req[l]
                         /\ req[l].pc = "done" => req'[l] = req[l]
    BY <1>1, <2>1, <2>3 DEF ResetPcs
  <2>9. \A r1 \in Access!LetterIds :
          (\A f \in Employees : letter[f].id # r1) => \A f \in Employees : letter'[f].id # r1
    BY <2>4 DEF Access!LetterIds
  <2>10. ResetInv'
    BY <1>1, <2>8, <2>9 DEF AccessInv, ResetInv, ResetPcs
  <2> QED
    BY <2>3, <2>5, <2>7, <2>10 DEF AccessInv
<1> QED
  BY <1>2, <1>3 DEF Access!LetterDrop

LEMMA LetterMakeStep ==
  ASSUME AccessInv, NEW k \in Calls, Access!LetterMake(k)
  PROVE  AccessInv'
<1> DEFINE e == req[k].user
           new == [id |-> written + 1, stale |-> FALSE]
<1>1. /\ req[k].pc = "making" /\ e \in Employees
      /\ Posting(k, Done) /\ Done.pc = "idle"
      /\ UNCHANGED <<resets, answered, loose>>
  BY ReturnIs DEF Access!LetterMake, Access!At, Access!accountVars, Access!tokenVars,
     AccessInv, PostInv, LetterPcs, Posting
<1>2. CASE UNCHANGED <<letter, written>>
  BY <1>1, <1>2, PostMoves DEF ResetPcs, LetterPcs
<1>3. CASE /\ Access!Exists(e) /\ letter[e] = Access!NoLetter /\ written < MaxResets
           /\ letter' = [letter EXCEPT ![e] = new] /\ written' = written + 1
  <2>1. /\ req'[k] = Done /\ \A l \in Calls : l # k => req'[l] = req[l]
        /\ AccountInv' /\ NumberInv' /\ GrantInv'
    BY <1>1, PostSpares
  <2>2. written \in Nat /\ MaxResets \in Nat /\ new \in LetterRec /\ new.id = written + 1
    BY <1>3, LetterTypes, AccessConstants DEF LetterRec
  <2> HIDE DEF new
  <2>3. /\ letter' \in [Employees -> LetterRec] /\ letter'[e] = new
        /\ \A f \in Employees : f # e => letter'[f] = letter[f]
    BY <1>1, <1>3, <2>2, LetterTypes
  <2>4. Access!TypeOK'
    <3>1. written' \in 0 .. MaxResets
      BY <1>3, <2>2
    <3>2. \A f \in Employees : letter'[f] # Access!NoLetter => email[f] # NoUser
      BY <1>3, <2>3, LetterTypes DEF Access!Exists
    <3> QED
      BY <1>1, <2>3, <3>1, <3>2, LetterTypes, PostType
  <2>5. \A f \in Employees : letter[f].id \in Nat /\ letter[f].id <= written
    BY LetterTypes, AccessConstants DEF LetterRec, AccessInv, PostInv
  <2>6. \A l \in Calls : req[l].seen \in Nat
    BY AccessConstants DEF AccessInv, Access!TypeOK
  <2>7. PostInv'
    <3>1. \A f \in Employees : /\ letter'[f].id <= written'
                               /\ letter'[f].id = 0 => letter'[f] = Access!NoLetter
      BY <1>3, <2>2, <2>3, <2>5 DEF AccessInv, PostInv
    <3>2. \A f, g \in Employees : letter'[f].id = letter'[g].id /\ letter'[f].id # 0 => f = g
      BY <1>3, <2>2, <2>3, <2>5 DEF AccessInv, PostInv
    <3>3. \A l \in Calls : req'[l].pc \in LetterPcs =>
            /\ req'[l].user \in Employees /\ req'[l].seen <= written'
            /\ req'[l].pc \in {"resetting", "done"} => req'[l].seen \in Access!LetterIds
      BY <1>1, <1>3, <2>1, <2>2, <2>6 DEF AccessInv, PostInv, LetterPcs
    <3> QED
      BY <3>1, <3>2, <3>3 DEF PostInv
  <2>8. \A l \in Calls : /\ req'[l].pc \in ResetPcs => l # k /\ req'[l] = req[l]
                         /\ req[l].pc = "done" => req'[l] = req[l]
    BY <1>1, <2>1 DEF ResetPcs
  <2>9. \A r1 \in Access!LetterIds : resets[r1] # 0 =>
          /\ r1 <= written'
          /\ (\A f \in Employees : letter[f].id # r1) => \A f \in Employees : letter'[f].id # r1
    <3>1. \A r1 \in Access!LetterIds : resets[r1] # 0 => r1 <= written /\ r1 \in Nat
      BY DEF AccessInv, ResetInv, Access!LetterIds
    <3> QED
      BY <1>3, <2>2, <2>3, <3>1
  <2>10. \A r1 \in Access!LetterIds : answered[r1] # 0 => resets[r1] # 0
    BY LetterTypes DEF AccessInv, ResetInv
  <2>11. ResetInv'
    BY <1>1, <2>8, <2>9, <2>10 DEF AccessInv, ResetInv, ResetPcs
  <2> QED
    BY <2>1, <2>4, <2>7, <2>11 DEF AccessInv
<1> QED
  BY <1>2, <1>3 DEF Access!LetterMake

LEMMA LetterLapsesStep ==
  ASSUME AccessInv, NEW e \in Employees, Access!LetterLapses(e)
  PROVE  AccessInv'
<1>1. /\ letter[e] # Access!NoLetter /\ letter' = [letter EXCEPT ![e].stale = TRUE]
      /\ UNCHANGED <<email, raced, tokens, issued, exchanged, overlapped, written,
                     resets, answered, loose, req>>
  BY DEF Access!LetterLapses, Access!accountVars, Access!tokenVars
<1>2. /\ letter' \in [Employees -> LetterRec]
      /\ \A f \in Employees : /\ letter'[f].id = letter[f].id
                              /\ f # e => letter'[f] = letter[f]
  BY <1>1, LetterTypes DEF LetterRec
<1>3. Access!TypeOK'
  <2>1. \A f \in Employees : letter'[f] # Access!NoLetter => email[f] # NoUser
    BY <1>1, <1>2, LetterTypes
  <2> QED
    BY <1>1, <1>2, <2>1 DEF AccessInv, Access!TypeOK, LetterRec, Access!Exists
<1>4. letter[e].id # 0
  BY <1>1 DEF AccessInv, PostInv
<1>5. PostInv'
  BY <1>1, <1>2, <1>4 DEF AccessInv, PostInv
<1>6. ResetInv'
  BY <1>1, <1>2 DEF AccessInv, ResetInv
<1>7. Spares({"creating"}) /\ Spares(TokenPcs)
  BY <1>1 DEF Spares
<1> QED
  BY <1>1, <1>3, <1>5, <1>6, <1>7, AccountsSpared, TokensSpared DEF AccessInv

LEMMA ResetReadStep ==
  ASSUME AccessInv, NEW k \in Calls, NEW e \in Employees, Access!ResetRead(k, e)
  PROVE  AccessInv'
<1> USE AccessConstants
<1> DEFINE n == letter[e].id
           r == [pc |-> "resetting", user |-> e, what |-> NoUser, seen |-> n]
<1>1. PICK s : s = [Access!Idle EXCEPT !.pc = "resetting", !.user = e, !.seen = n]
               /\ Access!Begin(k, s)
  BY DEF Access!ResetRead
<1>2. s = r
  BY <1>1 DEF Access!Idle
<1>3. n \in Access!LetterIds /\ n <= written
  <2>1. n # 0 /\ n <= written
    BY DEF Access!ResetRead, AccessInv, PostInv
  <2>2. n \in 0 .. MaxResets
    BY LetterTypes DEF LetterRec
  <2> QED
    BY <2>1, <2>2 DEF Access!LetterIds
<1>4. r \in AccessRec /\ r.pc = "resetting" /\ r.user = e /\ r.seen = n
  BY <1>3 DEF AccessRec, Access!Pcs, Access!LetterIds
<1> HIDE DEF r
<1>5. /\ Posting(k, r) /\ UNCHANGED <<letter, written, resets, answered>> /\ req[k].pc = "idle"
  BY <1>1, <1>2, <1>4, BeginIs DEF Access!ResetRead, Posting, LetterPcs,
     Access!accountVars, Access!tokenVars
<1>6. /\ loose \subseteq loose' /\ loose' \subseteq loose \cup {n}
      /\ n \notin loose' => \A l \in Calls : req[l].pc \in ResetPcs => req[l].seen # n
  BY DEF Access!ResetRead, ResetPcs
<1>7. /\ req'[k] = r /\ \A l \in Calls : l # k => req'[l] = req[l]
      /\ AccountInv' /\ NumberInv' /\ GrantInv'
  BY <1>5, PostSpares
<1>8. Access!TypeOK'
  BY <1>3, <1>5, <1>6, LetterTypes, PostType
<1>9. PostInv'
  BY <1>3, <1>4, <1>5, <1>7 DEF AccessInv, PostInv
<1>10. n \notin loose' => resets[n] = 0
  BY <1>3, <1>6 DEF AccessInv, ResetInv, ResetPcs
<1>11. ResetInv'
  <2>1. \A m \in Access!LetterIds :
          /\ answered'[m] <= 1 /\ answered'[m] <= resets'[m]
          /\ answered'[m] # 0 => \A f \in Employees : letter'[f].id # m
          /\ resets'[m] # 0 => m <= written'
          /\ m \notin loose' =>
               /\ resets'[m] <= 1
               /\ resets'[m] # 0 => \/ \A f \in Employees : letter'[f].id # m
                                    \/ \E l \in Calls : req'[l].pc = "done" /\ req'[l].seen = m
    <3>1. \A l \in Calls : req[l].pc = "done" => req'[l] = req[l]
      BY <1>5, <1>7
    <3> QED
      BY <1>5, <1>6, <3>1 DEF AccessInv, ResetInv
  <2>2. \A l \in Calls :
          /\ req'[l].pc = "done" => resets'[req'[l].seen] # 0
          /\ req'[l].pc = "resetting" /\ req'[l].seen \notin loose' => resets'[req'[l].seen] = 0
    BY <1>4, <1>5, <1>6, <1>7, <1>10 DEF AccessInv, ResetInv
  <2>3. \A l, m \in Calls :
          /\ req'[l].pc \in {"resetting", "done"} /\ req'[m].pc \in {"resetting", "done"}
          /\ req'[l].seen = req'[m].seen /\ req'[l].seen \notin loose'
          => l = m
    BY <1>4, <1>6, <1>7 DEF AccessInv, ResetInv, ResetPcs
  <2> QED
    BY <2>1, <2>2, <2>3 DEF ResetInv
<1> QED
  BY <1>7, <1>8, <1>9, <1>11 DEF AccessInv

LEMMA ResetWriteStep ==
  ASSUME AccessInv, NEW k \in Calls, Access!ResetWrite(k)
  PROVE  AccessInv'
<1> USE AccessConstants
<1> DEFINE n == req[k].seen
<1>1. /\ req[k].pc = "resetting" /\ req[k].user \in Employees
      /\ n \in Access!LetterIds /\ n <= written
      /\ UNCHANGED <<email, raced, tokens, issued, exchanged, overlapped, letter, written,
                     answered, loose>>
  BY DEF Access!ResetWrite, Access!At, Access!accountVars, Access!tokenVars,
     AccessInv, PostInv, LetterPcs
<1>2. CASE Access!Return(k) /\ UNCHANGED resets
  <2>1. Posting(k, Done) /\ Done.pc = "idle"
    BY <1>1, <1>2, ReturnIs DEF Posting, LetterPcs
  <2> QED
    BY <1>1, <1>2, <2>1, PostMoves DEF ResetPcs, LetterPcs
<1>3. CASE Access!Goto(k, "done") /\ resets' = [resets EXCEPT ![n] = Access!More(@)]
  <2> DEFINE r == [req[k] EXCEPT !.pc = "done"]
  <2>1. /\ Put(k, r) /\ r \in AccessRec
        /\ r.pc = "done" /\ r.user = req[k].user /\ r.seen = n
    <3>1. "done" \in Access!Pcs
      BY DEF Access!Pcs
    <3> QED
      BY <1>3, <3>1, GotoIs
  <2> HIDE DEF r
  <2>2. Posting(k, r)
    BY <1>1, <2>1 DEF Posting, LetterPcs
  <2>3. /\ req'[k] = r /\ \A l \in Calls : l # k => req'[l] = req[l]
        /\ AccountInv' /\ NumberInv' /\ GrantInv'
    BY <2>2, PostSpares
  <2>4. /\ resets' \in [Access!LetterIds -> 0 .. 2]
        /\ resets'[n] # 0 /\ resets'[n] >= resets[n]
        /\ resets[n] = 0 => resets'[n] = 1
        /\ \A m \in Access!LetterIds : m # n => resets'[m] = resets[m]
    BY <1>1, <1>3, LetterTypes DEF Access!More, Access!MaxUses
  <2>5. Access!TypeOK'
    BY <1>1, <2>2, <2>4, LetterTypes, PostType
  <2>6. PostInv'
    BY <1>1, <2>1, <2>3 DEF AccessInv, PostInv
  <2>7. n \notin loose => resets[n] = 0
    BY <1>1 DEF AccessInv, ResetInv
  <2>8. ResetInv'
    <3>1. \A m \in Access!LetterIds :
            /\ answered'[m] <= 1 /\ answered'[m] <= resets'[m]
            /\ answered'[m] # 0 => \A f \in Employees : letter'[f].id # m
            /\ resets'[m] # 0 => m <= written'
      BY <1>1, <2>4, LetterTypes DEF AccessInv, ResetInv
    <3>2. ASSUME NEW m \in Access!LetterIds, m \notin loose'
          PROVE  /\ resets'[m] <= 1
                 /\ resets'[m] # 0 => \/ \A f \in Employees : letter'[f].id # m
                                      \/ \E l \in Calls : req'[l].pc = "done" /\ req'[l].seen = m
      <4>1. CASE m = n
        BY <1>1, <2>1, <2>3, <2>4, <2>7, <3>2, <4>1
      <4>2. CASE m # n
        <5>1. \A l \in Calls : req[l].pc = "done" => req'[l] = req[l]
          BY <1>1, <2>3
        <5> QED
          BY <1>1, <2>4, <3>2, <4>2, <5>1 DEF AccessInv, ResetInv
      <4> QED
        BY <4>1, <4>2
    <3>3. ASSUME NEW l \in Calls
          PROVE  /\ req'[l].pc = "done" => resets'[req'[l].seen] # 0
                 /\ req'[l].pc = "resetting" /\ req'[l].seen \notin loose'
                      => resets'[req'[l].seen] = 0
      <4>1. CASE l = k
        BY <2>1, <2>3, <2>4, <4>1
      <4>2. CASE l # k
        <5>1. req'[l] = req[l]
          BY <2>3, <4>2
        <5>2. req[l].pc \in ResetPcs => req[l].seen \in Access!LetterIds
          BY DEF AccessInv, PostInv, ResetPcs, LetterPcs
        <5>3. /\ req[l].pc = "done" => resets[req[l].seen] # 0
              /\ req[l].pc = "resetting" /\ req[l].seen \notin loose => resets[req[l].seen] = 0
          BY DEF AccessInv, ResetInv
        <5>4. CASE req[l].seen = n
          BY <1>1, <2>4, <4>2, <5>1, <5>4 DEF AccessInv, ResetInv
        <5>5. CASE req[l].seen # n
          BY <1>1, <2>4, <5>1, <5>2, <5>3, <5>5 DEF ResetPcs
        <5> QED
          BY <5>4, <5>5
      <4> QED
        BY <4>1, <4>2
    <3>4. \A l, m \in Calls :
            /\ req'[l].pc \in {"resetting", "done"} /\ req'[m].pc \in {"resetting", "done"}
            /\ req'[l].seen = req'[m].seen /\ req'[l].seen \notin loose'
            => l = m
      BY <1>1, <2>1, <2>3 DEF AccessInv, ResetInv
    <3> QED
      BY <3>1, <3>2, <3>3, <3>4 DEF ResetInv
  <2> QED
    BY <2>3, <2>5, <2>6, <2>8 DEF AccessInv
<1> QED
  BY <1>2, <1>3 DEF Access!ResetWrite

LEMMA ResetDropStep ==
  ASSUME AccessInv, NEW k \in Calls, Access!ResetDrop(k)
  PROVE  AccessInv'
<1> USE AccessConstants
<1> DEFINE n == req[k].seen
           e == req[k].user
<1>1. /\ req[k].pc = "done" /\ e \in Employees
      /\ n \in Access!LetterIds /\ n <= written /\ resets[n] # 0
      /\ UNCHANGED <<email, raced, tokens, issued, exchanged, overlapped, written, resets>>
  BY DEF Access!ResetDrop, Access!At, Access!accountVars, Access!tokenVars,
     AccessInv, PostInv, ResetInv, LetterPcs
<1>2. Posting(k, Done) /\ Done.pc = "idle"
  BY <1>1, ReturnIs DEF Access!ResetDrop, Posting, LetterPcs
<1>3. /\ req'[k] = Done /\ \A l \in Calls : l # k => req'[l] = req[l]
      /\ AccountInv' /\ NumberInv' /\ GrantInv'
  BY <1>2, PostSpares
<1>4. /\ \A l \in Calls : req'[l].pc \in ResetPcs => l # k /\ req'[l] = req[l]
      /\ \A l \in Calls : req[l].pc = "done" => l = k \/ req'[l] = req[l]
  BY <1>2, <1>3 DEF ResetPcs
<1>5. CASE loose' = loose \cup {n} /\ UNCHANGED <<letter, answered>>
  <2>1. Access!TypeOK'
    BY <1>1, <1>2, <1>5, LetterTypes, PostType
  <2>2. PostInv'
    BY <1>1, <1>2, <1>3, <1>5 DEF AccessInv, PostInv, LetterPcs
  <2>3. ASSUME NEW m \in Access!LetterIds, m \notin loose', resets[m] # 0
        PROVE  \/ \A f \in Employees : letter'[f].id # m
               \/ \E l \in Calls : req'[l].pc = "done" /\ req'[l].seen = m
    BY <1>4, <1>5, <2>3 DEF AccessInv, ResetInv
  <2>4. ResetInv'
    BY <1>1, <1>4, <1>5, <2>3 DEF AccessInv, ResetInv, ResetPcs
  <2> QED
    BY <1>3, <2>1, <2>2, <2>4 DEF AccessInv
<1>6. CASE /\ Access!LetterIs(e, n) /\ letter' = [letter EXCEPT ![e] = Access!NoLetter]
           /\ answered' = [answered EXCEPT ![n] = Access!More(@)] /\ UNCHANGED loose
  <2>1. /\ letter' \in [Employees -> LetterRec] /\ letter'[e].id = 0
        /\ letter'[e] = Access!NoLetter /\ letter[e].id = n
        /\ \A f \in Employees : f # e => letter'[f] = letter[f]
    BY <1>1, <1>6, LetterTypes DEF LetterRec, Access!NoLetter, Access!LetterIs
  <2>2. answered[n] = 0
    BY <1>1, <2>1 DEF AccessInv, ResetInv
  <2>3. /\ answered' \in [Access!LetterIds -> 0 .. 2] /\ answered'[n] = 1
        /\ \A m \in Access!LetterIds : m # n => answered'[m] = answered[m]
    BY <1>1, <1>6, <2>2, LetterTypes DEF Access!More, Access!MaxUses
  <2>4. Access!TypeOK'
    BY <1>1, <1>2, <1>6, <2>1, <2>3, LetterTypes, PostType
  <2>5. written \in Nat /\ \A m \in Access!LetterIds : m \in Nat /\ m # 0
    BY LetterTypes DEF Access!LetterIds
  <2>6. PostInv'
    BY <1>1, <1>2, <1>3, <2>1, <2>5 DEF AccessInv, PostInv, LetterPcs
  <2>7. \A f \in Employees : letter'[f].id # n
    BY <1>1, <2>1, <2>5 DEF AccessInv, PostInv
  <2>8. ResetInv'
    <3>1. ASSUME NEW m \in Access!LetterIds
          PROVE  /\ answered'[m] <= 1 /\ answered'[m] <= resets'[m]
                 /\ answered'[m] # 0 => \A f \in Employees : letter'[f].id # m
                 /\ resets'[m] # 0 => m <= written'
                 /\ m \notin loose' =>
                      /\ resets'[m] <= 1
                      /\ resets'[m] # 0 =>
                           \/ \A f \in Employees : letter'[f].id # m
                           \/ \E l \in Calls : req'[l].pc = "done" /\ req'[l].seen = m
      <4>1. CASE m = n
        BY <1>1, <1>6, <2>3, <2>7, <4>1, LetterTypes DEF AccessInv, ResetInv
      <4>2. CASE m # n
        <5>1. (\A f \in Employees : letter[f].id # m) => \A f \in Employees : letter'[f].id # m
          BY <2>1, <2>5
        <5>2. \A l \in Calls : req[l].pc = "done" /\ req[l].seen = m => req'[l] = req[l]
          BY <1>4, <4>2
        <5> QED
          BY <1>1, <1>6, <2>3, <4>2, <5>1, <5>2 DEF AccessInv, ResetInv
      <4> QED
        BY <4>1, <4>2
    <3>2. /\ \A l \in Calls :
               /\ req'[l].pc = "done" => resets'[req'[l].seen] # 0
               /\ req'[l].pc = "resetting" /\ req'[l].seen \notin loose'
                    => resets'[req'[l].seen] = 0
          /\ \A l, m \in Calls :
               /\ req'[l].pc \in {"resetting", "done"} /\ req'[m].pc \in {"resetting", "done"}
               /\ req'[l].seen = req'[m].seen /\ req'[l].seen \notin loose'
               => l = m
      BY <1>1, <1>4, <1>6 DEF AccessInv, ResetInv, ResetPcs
    <3> QED
      BY <3>1, <3>2 DEF ResetInv
  <2> QED
    BY <1>3, <2>4, <2>6, <2>8 DEF AccessInv
<1> QED
  BY <1>5, <1>6 DEF Access!ResetDrop

LEMMA AccessStep == AccessInv /\ [Access!Next]_(Access!vars) => AccessInv'
<1> SUFFICES ASSUME AccessInv, [Access!Next]_(Access!vars) PROVE AccessInv'
  OBVIOUS
<1>1. CASE UNCHANGED Access!vars
  <2>1. UNCHANGED <<email, raced, tokens, issued, exchanged, overlapped, letter, written,
                    resets, answered, loose, req>>
    BY <1>1 DEF Access!vars, Access!accountVars, Access!tokenVars, Access!letterVars
  <2>2. Spares({"creating"}) /\ Spares(TokenPcs) /\ Spares(LetterPcs)
    BY <2>1 DEF Spares
  <2>3. Access!TypeOK'
    BY <2>1 DEF AccessInv, Access!TypeOK, Access!Exists
  <2> QED
    BY <2>1, <2>2, <2>3, AccountsSpared, TokensSpared, LettersSpared DEF AccessInv
<1>2. ASSUME NEW k \in Calls, Access!RequestNext(k) PROVE AccessInv'
  BY <1>2, RegisterFindStep, RegisterCreateStep, LoginStep, RefreshFindStep, RefreshDeleteStep,
     TokenLookStep, TokenUpsertStep, ForgotPasswordStep, LetterDropStep, LetterMakeStep,
     ResetReadStep, ResetWriteStep, ResetDropStep
     DEF Access!RequestNext
<1> QED
  BY <1>1, <1>2, UpdateEmailStep, RemoveEmployeeStep, LetterLapsesStep, LogoutStep,
     TokenLapsesStep DEF Access!Next

(***************************************************************************)
(* FranchiseSetup.                                                         *)
(***************************************************************************)
\* A handler refers to rows that may be there.
StepInv ==
  /\ \A f \in Franchises : cityOf[f] = NoUser =>
       batches[f] = 0 /\ \A w \in work : w.franchise # f
  /\ \A k \in Calls :
       /\ creating[k].pc = "city" => creating[k].city \in Cities
       /\ creating[k].pc = "connect" =>
            creating[k].owner \in Owners /\ creating[k].franchise \in Franchises
       /\ creating[k].pc = "params" <=> creating[k].type # 0

\* An insert of parameters is for the row of its own franchise and type.
WorkInv ==
  \A w \in work : w.type # 0 =>
    types[w.type].franchise = w.franchise /\ types[w.type].slug = w.slug

\* The row that an edit is about has the edit, unless edits overlapped.
EditInv ==
  /\ Setup!EditsAgree
  /\ \A k \in Calls : creating[k].type # 0 /\ creating[k].type \notin torn =>
       /\ types[creating[k].type].edit = creating[k].edit
       /\ \A l \in Calls : creating[l].type = creating[k].type => k = l

SetupInv == Setup!TypeOK /\ StepInv /\ WorkInv /\ Setup!TypesComplete /\ EditInv

SetupRec == [pc : Setup!Pcs, city : Cities \cup {NoUser}, type : 0 .. Len(types),
             franchise : Franchises \cup {NoUser}, owner : Owners \cup {NoUser},
             edit : 0 .. MaxEdits]
TypeRec == [franchise : Franchises, slug : Slugs, full : BOOLEAN,
            edit : 0 .. MaxEdits, params : 0 .. MaxEdits]
WorkRec == [franchise : Franchises, slug : Slugs, batch : 1 .. MaxBatches, type : 0 .. Len(types)]

\* The references of a franchise are to rows that are there.
RefsInv ==
  /\ city \in [Cities -> {"new", "row", "removed"}]
  /\ account \in [Owners -> {"new", "row", "removed"}]
  /\ cityOf \in [Franchises -> Cities \cup {NoUser}]
  /\ owner \in [Franchises -> Owners \cup {NoUser}]
  /\ \A f \in Franchises : /\ cityOf[f] # NoUser => city[cityOf[f]] = "row"
                           /\ owner[f] # NoUser => account[owner[f]] = "row"

LEMMA SetupConstants ==
  /\ MaxBatches \in Nat \ {0} /\ MaxEdits \in Nat
  /\ NoUser \notin Cities \cup Franchises \cup Owners
  BY MCBackOfficeAssumption DEF Setup!FranchiseSetupAssumption

LEMMA SetupTypeIs ==
  Setup!TypeOK <=>
    /\ RefsInv
    /\ types \in Seq(TypeRec) /\ work \subseteq WorkRec
    /\ batches \in [Franchises -> 0 .. MaxBatches]
    /\ creating \in [Calls -> SetupRec]
    /\ edits \in 0 .. MaxEdits /\ broken \subseteq Franchises /\ torn \subseteq 1 .. Len(types)
  BY DEF Setup!TypeOK, RefsInv, TypeRec, WorkRec, SetupRec, Setup!Created

LEMMA SetupTypeNext ==
  Setup!TypeOK' <=>
    /\ RefsInv'
    /\ types' \in Seq(TypeRec) /\ work' \subseteq WorkRec'
    /\ batches' \in [Franchises -> 0 .. MaxBatches]
    /\ creating' \in [Calls -> SetupRec']
    /\ edits' \in 0 .. MaxEdits /\ broken' \subseteq Franchises /\ torn' \subseteq 1 .. Len(types')
  BY DEF Setup!TypeOK, RefsInv, TypeRec, WorkRec, SetupRec, Setup!Created

LEMMA SetupInit == Setup!Init => SetupInv
<1> SUFFICES ASSUME Setup!Init PROVE SetupInv
  OBVIOUS
<1> USE SetupConstants DEF Setup!Init
<1>1. \A k \in Calls : creating[k] = [pc |-> "idle", city |-> NoUser, franchise |-> NoUser,
                                      owner |-> NoUser, type |-> 0, edit |-> 0]
  BY DEF Setup!Idle
<1>2. types = <<>> /\ Len(types) = 0 /\ types \in Seq(TypeRec)
  OBVIOUS
<1>3. creating \in [Calls -> SetupRec]
  BY <1>2 DEF SetupRec, Setup!Idle, Setup!Pcs
<1>4. RefsInv
  BY DEF RefsInv
<1>5. Setup!TypeOK
  BY <1>2, <1>3, <1>4, SetupTypeIs
<1>6. StepInv /\ WorkInv /\ Setup!TypesComplete
  BY <1>1 DEF StepInv, WorkInv, Setup!TypesComplete, Setup!Created
<1>7. EditInv
  BY <1>1, <1>2 DEF EditInv, Setup!EditsAgree
<1> QED
  BY <1>5, <1>6, <1>7 DEF SetupInv

\* A handler whose record is r now; the others stand where they stood.
SetupPut(k, r) == creating' = [creating EXCEPT ![k] = r]

LEMMA SetupPutIs ==
  ASSUME SetupInv, NEW k \in Calls, NEW r \in SetupRec, SetupPut(k, r), Len(types') >= Len(types)
  PROVE  /\ creating' \in [Calls -> SetupRec']
         /\ creating'[k] = r /\ \A l \in Calls : l # k => creating'[l] = creating[l]
<1>1. creating \in [Calls -> SetupRec]
  BY SetupTypeIs DEF SetupInv
<1>2. types \in Seq(TypeRec)
  BY SetupTypeIs DEF SetupInv
<1>3. /\ creating' \in [Calls -> SetupRec]
      /\ creating'[k] = r /\ \A l \in Calls : l # k => creating'[l] = creating[l]
  BY <1>1 DEF SetupPut
<1> QED
  BY <1>2, <1>3 DEF SetupRec

\* The types and their edits, when a step is about rows and handlers only.
LEMMA TypesSpared ==
  ASSUME SetupInv, UNCHANGED <<types, work, batches, broken, edits, torn>>,
         creating' \in [Calls -> SetupRec], RefsInv',
         \A f \in Franchises : cityOf'[f] # NoUser => cityOf[f] # NoUser,
         \A l \in Calls : creating'[l] = creating[l] \/ (creating[l].type = 0 /\ creating'[l].type = 0)
  PROVE  Setup!TypeOK' /\ WorkInv' /\ Setup!TypesComplete' /\ EditInv'
<1>1. Setup!TypeOK'
  BY SetupTypeIs, SetupTypeNext DEF SetupInv, SetupRec, WorkRec
<1>2. WorkInv'
  BY DEF SetupInv, WorkInv
<1>3. Setup!TypesComplete'
  BY DEF SetupInv, Setup!TypesComplete, Setup!Created, Setup!Coming, Setup!RowsOf
<1>4. Setup!EditsAgree'
  <2> SUFFICES ASSUME NEW i \in 1 .. Len(types), i \notin torn, types[i].edit # types[i].params
               PROVE  \E k \in Calls : creating'[k].type = i
    BY DEF Setup!EditsAgree
  <2>1. PICK k \in Calls : creating[k].type = i
    BY DEF SetupInv, EditInv, Setup!EditsAgree
  <2>2. i # 0
    OBVIOUS
  <2> QED
    BY <2>1, <2>2
<1>5. ASSUME NEW k \in Calls, creating'[k].type # 0 PROVE creating'[k] = creating[k]
  BY <1>5
<1>6. EditInv'
  BY <1>4, <1>5 DEF SetupInv, EditInv
<1> QED
  BY <1>1, <1>2, <1>3, <1>6

\* The record of a handler that returned.
SetupDone == [pc |-> "idle", city |-> NoUser, franchise |-> NoUser, owner |-> NoUser,
              type |-> 0, edit |-> 0]

LEMMA SetupReturnIs ==
  ASSUME SetupInv, NEW k, Setup!Return(k)
  PROVE  SetupPut(k, SetupDone) /\ SetupDone \in SetupRec
<1>1. types \in Seq(TypeRec)
  BY SetupTypeIs DEF SetupInv
<1> QED
  BY <1>1, SetupConstants DEF Setup!Return, Setup!Idle, SetupPut, SetupDone, SetupRec, Setup!Pcs

LEMMA SetupBeginIs ==
  ASSUME NEW k, NEW r, Setup!Begin(k, r)
  PROVE  /\ creating[k].pc = "idle" /\ creating[k].type = 0
         /\ SetupPut(k, r)
  BY DEF Setup!Begin, Setup!Idle, SetupPut

(***************************************************************************)
(* Cities, franchises and their owners                                     *)
(***************************************************************************)
LEMMA HandlerFree ==
  ASSUME SetupInv, NEW k \in Calls, creating[k].pc # "params"
  PROVE  creating[k].type = 0
  BY DEF SetupInv, StepInv

LEMMA CreateCityStep ==
  ASSUME SetupInv, NEW c \in Cities, Setup!CreateCity(c)
  PROVE  SetupInv'
<1> USE SetupConstants
<1>1. /\ city[c] = "new" /\ city' = [city EXCEPT ![c] = "row"]
      /\ UNCHANGED <<cityOf, owner, account, types, work, batches, broken, edits, torn>>
  BY DEF Setup!CreateCity, Setup!typeVars, Setup!editVars
<1>2. RefsInv'
  BY <1>1, SetupTypeIs DEF SetupInv, RefsInv
<1>3. creating \in [Calls -> SetupRec] /\ types \in Seq(TypeRec)
  BY SetupTypeIs DEF SetupInv
<1>4. CASE UNCHANGED creating
  <2>1. StepInv'
    BY <1>1, <1>4 DEF SetupInv, StepInv
  <2> QED
    BY <1>1, <1>2, <1>3, <1>4, <2>1, TypesSpared DEF SetupInv
<1>5. ASSUME NEW k \in Calls,
             Setup!Begin(k, [Setup!Idle EXCEPT !.pc = "city", !.city = c])
      PROVE  SetupInv'
  <2> DEFINE r == [pc |-> "city", city |-> c, franchise |-> NoUser, owner |-> NoUser,
                   type |-> 0, edit |-> 0]
  <2>1. PICK s : s = [Setup!Idle EXCEPT !.pc = "city", !.city = c] /\ Setup!Begin(k, s)
    BY <1>5
  <2>2. s = r
    BY <2>1 DEF Setup!Idle
  <2>3. r \in SetupRec /\ r.pc = "city" /\ r.city = c /\ r.type = 0
    BY <1>3 DEF SetupRec, Setup!Pcs
  <2> HIDE DEF r
  <2>4. SetupPut(k, r) /\ creating[k].type = 0
    BY <2>1, <2>2, SetupBeginIs
  <2>5. /\ creating' \in [Calls -> SetupRec']
        /\ creating'[k] = r /\ \A l \in Calls : l # k => creating'[l] = creating[l]
    BY <1>1, <1>3, <2>3, <2>4, SetupPutIs
  <2>6. creating' \in [Calls -> SetupRec]
    BY <1>1, <2>5 DEF SetupRec
  <2>7. StepInv'
    BY <1>1, <2>3, <2>5 DEF SetupInv, StepInv
  <2> QED
    BY <1>1, <1>2, <2>3, <2>4, <2>5, <2>6, <2>7, TypesSpared DEF SetupInv
<1> QED
  BY <1>4, <1>5 DEF Setup!CreateCity

LEMMA RemoveCityStep ==
  ASSUME SetupInv, NEW c \in Cities, Setup!RemoveCity(c)
  PROVE  SetupInv'
<1>1. /\ \A f \in Franchises : cityOf[f] # c
      /\ city' = [city EXCEPT ![c] = "removed"]
      /\ UNCHANGED <<cityOf, owner, account, types, work, batches, broken, edits, torn, creating>>
  BY DEF Setup!RemoveCity, Setup!typeVars, Setup!editVars
<1>2. RefsInv'
  BY <1>1, SetupTypeIs DEF SetupInv, RefsInv
<1>3. creating \in [Calls -> SetupRec]
  BY SetupTypeIs DEF SetupInv
<1>4. StepInv'
  BY <1>1 DEF SetupInv, StepInv
<1> QED
  BY <1>1, <1>2, <1>3, <1>4, TypesSpared DEF SetupInv

LEMMA RemoveOwnerStep ==
  ASSUME SetupInv, NEW o \in Owners, Setup!RemoveOwner(o)
  PROVE  SetupInv'
<1>1. /\ account' = [account EXCEPT ![o] = "removed"]
      /\ owner' = [f \in Franchises |-> IF owner[f] = o THEN NoUser ELSE owner[f]]
      /\ UNCHANGED <<city, cityOf, types, work, batches, broken, edits, torn, creating>>
  BY DEF Setup!RemoveOwner, Setup!typeVars, Setup!editVars
<1>2. RefsInv'
  BY <1>1, SetupTypeIs DEF SetupInv, RefsInv
<1>3. creating \in [Calls -> SetupRec]
  BY SetupTypeIs DEF SetupInv
<1>4. StepInv'
  BY <1>1 DEF SetupInv, StepInv
<1> QED
  BY <1>1, <1>2, <1>3, <1>4, TypesSpared DEF SetupInv

LEMMA RegisterOwnerStep ==
  ASSUME SetupInv, NEW k \in Calls, NEW o \in Owners, NEW f \in Franchises,
         Setup!RegisterOwner(k, o, f)
  PROVE  SetupInv'
<1> USE SetupConstants
<1>1. /\ account[o] = "new" /\ account' = [account EXCEPT ![o] = "row"]
      /\ UNCHANGED <<city, cityOf, owner, types, work, batches, broken, edits, torn>>
  BY DEF Setup!RegisterOwner, Setup!typeVars, Setup!editVars
<1>2. RefsInv'
  BY <1>1, SetupTypeIs DEF SetupInv, RefsInv
<1>3. types \in Seq(TypeRec)
  BY SetupTypeIs DEF SetupInv
<1> DEFINE r == [pc |-> "connect", city |-> NoUser, franchise |-> f, owner |-> o,
                 type |-> 0, edit |-> 0]
<1>4. PICK s : s = [Setup!Idle EXCEPT !.pc = "connect", !.owner = o, !.franchise = f]
               /\ Setup!Begin(k, s)
  BY DEF Setup!RegisterOwner
<1>5. s = r
  BY <1>4 DEF Setup!Idle
<1>6. r \in SetupRec /\ r.pc = "connect" /\ r.owner = o /\ r.franchise = f /\ r.type = 0
  BY <1>3 DEF SetupRec, Setup!Pcs
<1> HIDE DEF r
<1>7. SetupPut(k, r) /\ creating[k].type = 0
  BY <1>4, <1>5, SetupBeginIs
<1>8. /\ creating' \in [Calls -> SetupRec']
      /\ creating'[k] = r /\ \A l \in Calls : l # k => creating'[l] = creating[l]
  BY <1>1, <1>3, <1>6, <1>7, SetupPutIs
<1>9. creating' \in [Calls -> SetupRec]
  BY <1>1, <1>8 DEF SetupRec
<1>10. StepInv'
  BY <1>1, <1>6, <1>8 DEF SetupInv, StepInv
<1> QED
  BY <1>1, <1>2, <1>6, <1>7, <1>8, <1>9, <1>10, TypesSpared DEF SetupInv

LEMMA ConnectOwnerStep ==
  ASSUME SetupInv, NEW k \in Calls, Setup!ConnectOwner(k)
  PROVE  SetupInv'
<1> DEFINE f == creating[k].franchise
           o == creating[k].owner
<1>1. /\ creating[k].pc = "connect" /\ o \in Owners /\ f \in Franchises
      /\ owner' = owner \/ (account[o] = "row" /\ owner' = [owner EXCEPT ![f] = o])
      /\ UNCHANGED <<city, cityOf, account, types, work, batches, broken, edits, torn>>
  BY DEF Setup!ConnectOwner, Setup!typeVars, Setup!editVars, SetupInv, StepInv
<1>2. RefsInv'
  BY <1>1, SetupTypeIs DEF SetupInv, RefsInv
<1>3. types \in Seq(TypeRec) /\ creating[k].type = 0
  BY <1>1, SetupTypeIs, HandlerFree DEF SetupInv
<1>4. SetupPut(k, SetupDone) /\ SetupDone \in SetupRec
  BY SetupReturnIs DEF Setup!ConnectOwner
<1>5. SetupDone.pc = "idle" /\ SetupDone.type = 0
  BY DEF SetupDone
<1>6. /\ creating' \in [Calls -> SetupRec']
      /\ creating'[k] = SetupDone /\ \A l \in Calls : l # k => creating'[l] = creating[l]
  BY <1>1, <1>3, <1>4, SetupPutIs
<1>7. creating' \in [Calls -> SetupRec]
  BY <1>1, <1>6 DEF SetupRec
<1>8. StepInv'
  BY <1>1, <1>5, <1>6 DEF SetupInv, StepInv
<1> QED
  BY <1>1, <1>2, <1>3, <1>5, <1>6, <1>7, <1>8, TypesSpared DEF SetupInv

\* An order of types leaves an insert for each: the franchise has them coming.
LEMMA Ordered ==
  ASSUME SetupInv, NEW f \in Franchises, Setup!Order(f), UNCHANGED <<types, edits, torn>>,
         cityOf'[f] # NoUser, batches[f] < MaxBatches,
         \A g \in Franchises : g # f => cityOf'[g] = cityOf[g],
         broken \ {f} \subseteq broken', broken' \subseteq broken,
         f \in broken' => f \in broken,
         creating' \in [Calls -> SetupRec], RefsInv',
         \A l \in Calls : creating'[l] = creating[l] \/ (creating[l].type = 0 /\ creating'[l].type = 0)
  PROVE  /\ Setup!TypeOK' /\ WorkInv' /\ Setup!TypesComplete' /\ EditInv'
         /\ \A g \in Franchises : cityOf'[g] = NoUser =>
              batches'[g] = batches[g] /\ \A w \in work' : w \in work \/ w.franchise # g
<1> DEFINE n == batches[f] + 1
           new == {Setup!TypeWork(f, s, n) : s \in Slugs}
<1>1. /\ work' = work \cup new /\ batches' = [batches EXCEPT ![f] = n]
      /\ n \in 1 .. MaxBatches /\ batches \in [Franchises -> 0 .. MaxBatches]
  BY SetupConstants, SetupTypeIs DEF Setup!Order, SetupInv
<1>2. types \in Seq(TypeRec) /\ Len(types) \in Nat
  BY SetupTypeIs DEF SetupInv
<1> HIDE DEF n
<1>3. /\ \A s \in Slugs : \E w \in new : w.franchise = f /\ w.slug = s
      /\ \A w \in new : w \in WorkRec /\ w.franchise = f /\ w.type = 0
  <2>1. ASSUME NEW s \in Slugs
        PROVE  LET w == Setup!TypeWork(f, s, n)
               IN  w \in WorkRec /\ w.franchise = f /\ w.slug = s /\ w.type = 0
    BY <1>1, <1>2 DEF Setup!TypeWork, WorkRec
  <2> QED
    BY <2>1
<1> HIDE DEF new
<1>4. work' \subseteq WorkRec' /\ batches' \in [Franchises -> 0 .. MaxBatches]
  <2>1. work \subseteq WorkRec
    BY SetupTypeIs DEF SetupInv
  <2>2. WorkRec' = WorkRec
    BY DEF WorkRec
  <2>3. n \in 0 .. MaxBatches
    BY <1>1, SetupConstants
  <2> QED
    BY <1>1, <1>3, <2>1, <2>2, <2>3
<1>5. Setup!TypeOK'
  BY <1>4, SetupTypeIs, SetupTypeNext DEF SetupInv, SetupRec
<1>6. WorkInv'
  BY <1>1, <1>3 DEF SetupInv, WorkInv
<1>7. Setup!TypesComplete'
  <2> SUFFICES ASSUME NEW g \in Franchises \ broken', cityOf'[g] # NoUser, NEW s \in Slugs
               PROVE  \/ \E w \in work' : w.franchise = g /\ w.slug = s
                      \/ \E i \in Setup!RowsOf(g, s)' : types'[i].full
    BY DEF Setup!TypesComplete, Setup!Created, Setup!Coming
  <2>1. CASE g = f
    BY <1>1, <1>3, <2>1
  <2>2. CASE g # f
    BY <1>1, <2>2 DEF SetupInv, Setup!TypesComplete, Setup!Created, Setup!Coming, Setup!RowsOf
  <2> QED
    BY <2>1, <2>2
<1>8. Setup!EditsAgree'
  <2> SUFFICES ASSUME NEW i \in 1 .. Len(types), i \notin torn, types[i].edit # types[i].params
               PROVE  \E k \in Calls : creating'[k].type = i
    BY DEF Setup!EditsAgree
  <2>1. PICK k \in Calls : creating[k].type = i
    BY DEF SetupInv, EditInv, Setup!EditsAgree
  <2>2. i # 0
    OBVIOUS
  <2> QED
    BY <2>1, <2>2
<1>9. ASSUME NEW k \in Calls, creating'[k].type # 0 PROVE creating'[k] = creating[k]
  BY <1>9
<1>10. EditInv'
  BY <1>8, <1>9 DEF SetupInv, EditInv
<1> QED
  BY <1>1, <1>3, <1>5, <1>6, <1>7, <1>10

LEMMA CreateFranchiseStep ==
  ASSUME SetupInv, NEW k \in Calls, Setup!CreateFranchise(k)
  PROVE  SetupInv'
<1> USE SetupConstants
<1> DEFINE c == creating[k].city
<1>1. /\ creating[k].pc = "city" /\ c \in Cities
      /\ UNCHANGED <<city, owner, account, types, broken, edits, torn>>
  BY DEF Setup!CreateFranchise, Setup!editVars, SetupInv, StepInv
<1>2. types \in Seq(TypeRec) /\ creating[k].type = 0
  BY <1>1, SetupTypeIs, HandlerFree DEF SetupInv
<1>3. SetupPut(k, SetupDone) /\ SetupDone \in SetupRec /\ SetupDone.pc = "idle" /\ SetupDone.type = 0
  BY SetupReturnIs DEF Setup!CreateFranchise, SetupDone
<1>4. /\ creating' \in [Calls -> SetupRec']
      /\ creating'[k] = SetupDone /\ \A l \in Calls : l # k => creating'[l] = creating[l]
  BY <1>1, <1>2, <1>3, SetupPutIs
<1>5. creating' \in [Calls -> SetupRec]
  BY <1>1, <1>4 DEF SetupRec
<1>6. CASE UNCHANGED <<cityOf, work, batches>>
  <2>1. RefsInv'
    BY <1>1, <1>6, SetupTypeIs DEF SetupInv, RefsInv
  <2>2. StepInv'
    BY <1>3, <1>4, <1>6 DEF SetupInv, StepInv
  <2> QED
    BY <1>1, <1>2, <1>3, <1>4, <1>5, <1>6, <2>1, <2>2, TypesSpared DEF SetupInv
<1>7. ASSUME NEW f \in Franchises, cityOf[f] = NoUser, city[c] = "row",
             cityOf' = [cityOf EXCEPT ![f] = c], Setup!Order(f)
      PROVE  SetupInv'
  <2>1. RefsInv' /\ \A g \in Franchises : g # f => cityOf'[g] = cityOf[g]
    BY <1>1, <1>7, SetupTypeIs DEF SetupInv, RefsInv
  <2>2. batches[f] < MaxBatches
    BY <1>7 DEF SetupInv, StepInv
  <2>3. cityOf'[f] # NoUser
    BY <1>1, <1>7, SetupTypeIs DEF SetupInv, RefsInv
  <2> QED
    BY <1>1, <1>2, <1>3, <1>4, <1>5, <1>7, <2>1, <2>2, <2>3, Ordered DEF SetupInv, StepInv
<1> QED
  BY <1>6, <1>7 DEF Setup!CreateFranchise, Setup!Created

LEMMA OrderTypesStep ==
  ASSUME SetupInv, NEW f \in Franchises, Setup!OrderTypes(f)
  PROVE  SetupInv'
<1>1. /\ cityOf[f] # NoUser /\ batches[f] < MaxBatches /\ Setup!Order(f)
      /\ broken' = broken \ {f}
      /\ UNCHANGED <<city, cityOf, owner, account, types, edits, torn, creating>>
  BY DEF Setup!OrderTypes, Setup!Created, Setup!rowVars, Setup!editVars
<1>2. RefsInv' /\ creating' \in [Calls -> SetupRec]
  BY <1>1, SetupTypeIs DEF SetupInv, RefsInv
<1>3. /\ Setup!TypeOK' /\ WorkInv' /\ Setup!TypesComplete' /\ EditInv'
      /\ \A g \in Franchises : cityOf'[g] = NoUser =>
           batches'[g] = batches[g] /\ \A w \in work' : w \in work \/ w.franchise # g
  BY <1>1, <1>2, Ordered
<1>4. StepInv'
  BY <1>1, <1>3 DEF SetupInv, StepInv
<1> QED
  BY <1>3, <1>4 DEF SetupInv

\* A row, a set of work and a handler keep their types when rows are added.
LEMMA SetupRecGrows ==
  ASSUME types \in Seq(TypeRec), types' \in Seq(TypeRec), Len(types') >= Len(types)
  PROVE  SetupRec \subseteq SetupRec' /\ WorkRec \subseteq WorkRec'
  BY DEF SetupRec, WorkRec

\* The row of a type is inserted, and the insert of its parameters is next.
LEMMA MakeTypeStep ==
  ASSUME SetupInv, NEW w \in work, Setup!MakeType(w)
  PROVE  SetupInv'
<1> DEFINE n == Len(types) + 1
           newRow == Setup!Type(w.franchise, w.slug)
           v == [w EXCEPT !.type = n]
<1>1. /\ w.type = 0 /\ types' = Append(types, newRow) /\ work' = (work \ {w}) \cup {v}
      /\ UNCHANGED <<city, cityOf, owner, account, batches, broken, edits, torn, creating>>
  BY DEF Setup!MakeType, Setup!rowVars, Setup!editVars
<1>2. /\ types \in Seq(TypeRec) /\ Len(types) \in Nat /\ w \in WorkRec /\ work \subseteq WorkRec
      /\ torn \subseteq 1 .. Len(types) /\ creating \in [Calls -> SetupRec]
  BY SetupTypeIs DEF SetupInv
<1>3. /\ newRow \in TypeRec /\ newRow.franchise = w.franchise /\ newRow.slug = w.slug
      /\ newRow.edit = newRow.params
  BY <1>2, SetupConstants DEF Setup!Type, TypeRec, WorkRec
<1> HIDE DEF newRow
<1>4. /\ types' \in Seq(TypeRec) /\ Len(types') = n /\ types'[n] = newRow
      /\ \A i \in 1 .. Len(types) : types'[i] = types[i]
  BY <1>1, <1>2, <1>3
<1>5. /\ v \in WorkRec' /\ v.type = n /\ v.franchise = w.franchise /\ v.slug = w.slug
  BY <1>2, <1>4 DEF WorkRec
<1> HIDE DEF v
<1>6. SetupRec \subseteq SetupRec' /\ WorkRec \subseteq WorkRec'
  BY <1>2, <1>4, SetupRecGrows
<1>7. RefsInv'
  BY <1>1, SetupTypeIs DEF SetupInv, RefsInv
<1>8. Setup!TypeOK'
  <2>1. work' \subseteq WorkRec'
    BY <1>1, <1>2, <1>5, <1>6
  <2>2. creating' \in [Calls -> SetupRec']
    BY <1>1, <1>2, <1>6
  <2>3. torn' \subseteq 1 .. Len(types')
    BY <1>1, <1>2, <1>4
  <2>4. /\ batches \in [Franchises -> 0 .. MaxBatches]
        /\ edits \in 0 .. MaxEdits /\ broken \subseteq Franchises
    BY SetupTypeIs DEF SetupInv
  <2> QED
    BY <1>1, <1>4, <1>7, <2>1, <2>2, <2>3, <2>4, SetupTypeNext
<1>9. StepInv'
  BY <1>1, <1>5 DEF SetupInv, StepInv
<1>10. WorkInv'
  <2> SUFFICES ASSUME NEW x \in work', x.type # 0
               PROVE  types'[x.type].franchise = x.franchise /\ types'[x.type].slug = x.slug
    BY DEF WorkInv
  <2>1. CASE x = v
    BY <1>3, <1>4, <1>5, <2>1
  <2>2. CASE x # v
    <3>1. x \in work /\ x.type \in 1 .. Len(types)
      BY <1>1, <1>2, <2>2 DEF WorkRec
    <3> QED
      BY <1>4, <3>1 DEF SetupInv, WorkInv
  <2> QED
    BY <2>1, <2>2
<1>11. Setup!TypesComplete'
  <2> SUFFICES ASSUME NEW f \in Franchises \ broken', cityOf'[f] # NoUser, NEW s \in Slugs
               PROVE  \/ \E x \in work' : x.franchise = f /\ x.slug = s
                      \/ \E i \in 1 .. Len(types') : /\ types'[i].franchise = f /\ types'[i].slug = s
                                                     /\ types'[i].full
    BY DEF Setup!TypesComplete, Setup!Created, Setup!Coming, Setup!RowsOf
  <2>1. \/ \E x \in work : x.franchise = f /\ x.slug = s
        \/ \E i \in 1 .. Len(types) : /\ types[i].franchise = f /\ types[i].slug = s
                                      /\ types[i].full
    BY <1>1 DEF SetupInv, Setup!TypesComplete, Setup!Created, Setup!Coming, Setup!RowsOf
  <2>2. CASE \E x \in work : x.franchise = f /\ x.slug = s
    BY <1>1, <1>5, <2>2
  <2>3. CASE \E i \in 1 .. Len(types) : /\ types[i].franchise = f /\ types[i].slug = s
                                        /\ types[i].full
    BY <1>2, <1>4, <2>3
  <2> QED
    BY <2>1, <2>2, <2>3
<1>12. Setup!EditsAgree'
  <2> SUFFICES ASSUME NEW i \in 1 .. Len(types'), i \notin torn, types'[i].edit # types'[i].params
               PROVE  \E k \in Calls : creating[k].type = i
    BY <1>1 DEF Setup!EditsAgree
  <2>1. i \in 1 .. Len(types)
    BY <1>2, <1>3, <1>4
  <2> QED
    BY <1>4, <2>1 DEF SetupInv, EditInv, Setup!EditsAgree
<1>13. ASSUME NEW k \in Calls, creating[k].type # 0
       PROVE  types'[creating[k].type] = types[creating[k].type]
  <2>1. creating[k].type \in 1 .. Len(types)
    BY <1>2, <1>13 DEF SetupRec
  <2> QED
    BY <1>4, <2>1
<1>14. EditInv'
  BY <1>1, <1>12, <1>13 DEF SetupInv, EditInv
<1> QED
  BY <1>8, <1>9, <1>10, <1>11, <1>14 DEF SetupInv

\* The parameters of a type are inserted.
LEMMA MakeParamsStep ==
  ASSUME SetupInv, NEW w \in work, Setup!MakeParams(w)
  PROVE  SetupInv'
<1> DEFINE n == w.type
<1>1. /\ n # 0 /\ types' = [types EXCEPT ![n].full = TRUE] /\ work' = work \ {w}
      /\ UNCHANGED <<city, cityOf, owner, account, batches, broken, edits, torn, creating>>
  BY DEF Setup!MakeParams, Setup!rowVars, Setup!editVars
<1>2. /\ types \in Seq(TypeRec) /\ Len(types) \in Nat /\ w \in WorkRec /\ work \subseteq WorkRec
      /\ creating \in [Calls -> SetupRec]
  BY SetupTypeIs DEF SetupInv
<1>3. n \in 1 .. Len(types)
  BY <1>1, <1>2 DEF WorkRec
<1>4. types[n].franchise = w.franchise /\ types[n].slug = w.slug
  BY <1>1 DEF SetupInv, WorkInv
<1> HIDE DEF n
<1>5. /\ types' \in Seq(TypeRec) /\ Len(types') = Len(types) /\ types'[n].full
      /\ \A i \in 1 .. Len(types) :
           /\ types'[i].franchise = types[i].franchise /\ types'[i].slug = types[i].slug
           /\ types'[i].edit = types[i].edit /\ types'[i].params = types[i].params
           /\ types[i].full => types'[i].full
  <2>1. \A i \in 1 .. Len(types) : types[i] \in TypeRec
    BY <1>2
  <2>2. types[n] \in TypeRec
    BY <1>3, <2>1
  <2> DEFINE t == [types[n] EXCEPT !.full = TRUE]
  <2>3. /\ t \in TypeRec /\ t.franchise = types[n].franchise /\ t.slug = types[n].slug
        /\ t.edit = types[n].edit /\ t.params = types[n].params /\ t.full
    BY <2>2 DEF TypeRec
  <2>4. types' = [types EXCEPT ![n] = t]
    BY <1>1
  <2> HIDE DEF t
  <2>5. /\ types' \in Seq(TypeRec) /\ Len(types') = Len(types) /\ types'[n] = t
        /\ \A i \in 1 .. Len(types) : i # n => types'[i] = types[i]
    BY <1>2, <1>3, <2>3, <2>4
  <2> QED
    BY <2>3, <2>5
<1>6. SetupRec' = SetupRec /\ WorkRec' = WorkRec
  BY <1>5 DEF SetupRec, WorkRec
<1>7. RefsInv'
  BY <1>1, SetupTypeIs DEF SetupInv, RefsInv
<1>8. Setup!TypeOK'
  BY <1>1, <1>2, <1>5, <1>6, <1>7, SetupTypeIs, SetupTypeNext DEF SetupInv
<1>9. StepInv'
  BY <1>1 DEF SetupInv, StepInv
<1>10. WorkInv'
  <2> SUFFICES ASSUME NEW x \in work, x.type # 0
               PROVE  types'[x.type].franchise = x.franchise /\ types'[x.type].slug = x.slug
    BY <1>1 DEF WorkInv
  <2>1. x.type \in 1 .. Len(types)
    BY <1>2 DEF WorkRec
  <2> QED
    BY <1>5, <2>1 DEF SetupInv, WorkInv
<1>11. Setup!TypesComplete'
  <2> SUFFICES ASSUME NEW f \in Franchises \ broken', cityOf'[f] # NoUser, NEW s \in Slugs
               PROVE  \/ \E x \in work' : x.franchise = f /\ x.slug = s
                      \/ \E i \in 1 .. Len(types') : /\ types'[i].franchise = f /\ types'[i].slug = s
                                                     /\ types'[i].full
    BY DEF Setup!TypesComplete, Setup!Created, Setup!Coming, Setup!RowsOf
  <2>1. \/ \E x \in work : x.franchise = f /\ x.slug = s
        \/ \E i \in 1 .. Len(types) : /\ types[i].franchise = f /\ types[i].slug = s
                                      /\ types[i].full
    BY <1>1 DEF SetupInv, Setup!TypesComplete, Setup!Created, Setup!Coming, Setup!RowsOf
  <2>2. CASE w.franchise = f /\ w.slug = s
    BY <1>3, <1>4, <1>5, <2>2
  <2>3. CASE \E x \in work : x # w /\ x.franchise = f /\ x.slug = s
    BY <1>1, <2>3
  <2>4. CASE \E i \in 1 .. Len(types) : /\ types[i].franchise = f /\ types[i].slug = s
                                        /\ types[i].full
    BY <1>5, <2>4
  <2> QED
    BY <2>1, <2>2, <2>3, <2>4
<1>12. Setup!EditsAgree'
  BY <1>1, <1>5 DEF SetupInv, EditInv, Setup!EditsAgree
<1>13. ASSUME NEW k \in Calls, creating[k].type # 0
       PROVE  types'[creating[k].type].edit = types[creating[k].type].edit
  <2>1. creating[k].type \in 1 .. Len(types)
    BY <1>2, <1>13 DEF SetupRec
  <2> QED
    BY <1>5, <2>1
<1>14. EditInv'
  BY <1>1, <1>12, <1>13 DEF SetupInv, EditInv
<1> QED
  BY <1>8, <1>9, <1>10, <1>11, <1>14 DEF SetupInv

\* What an edit of the row of a type, or of its parameters, leaves as it is.
LEMMA EditSpares ==
  ASSUME SetupInv, NEW n \in 1 .. Len(types), NEW t \in TypeRec,
         types' = [types EXCEPT ![n] = t],
         t.franchise = types[n].franchise, t.slug = types[n].slug, t.full = types[n].full,
         UNCHANGED <<city, cityOf, owner, account, work, batches, broken>>
  PROVE  /\ types' \in Seq(TypeRec) /\ Len(types') = Len(types) /\ types'[n] = t
         /\ \A i \in 1 .. Len(types) : i # n => types'[i] = types[i]
         /\ RefsInv' /\ work' \subseteq WorkRec' /\ batches' \in [Franchises -> 0 .. MaxBatches]
         /\ broken' \subseteq Franchises /\ SetupRec' = SetupRec
         /\ WorkInv' /\ Setup!TypesComplete'
<1>1. types \in Seq(TypeRec) /\ Len(types) \in Nat /\ work \subseteq WorkRec
  BY SetupTypeIs DEF SetupInv
<1>2. /\ types' \in Seq(TypeRec) /\ Len(types') = Len(types) /\ types'[n] = t
      /\ \A i \in 1 .. Len(types) : i # n => types'[i] = types[i]
  BY <1>1
<1>3. \A i \in 1 .. Len(types) :
        /\ types'[i].franchise = types[i].franchise /\ types'[i].slug = types[i].slug
        /\ types'[i].full = types[i].full
  BY <1>2
<1>4. SetupRec' = SetupRec /\ WorkRec' = WorkRec
  BY <1>2 DEF SetupRec, WorkRec
<1>5. RefsInv'
  BY SetupTypeIs DEF SetupInv, RefsInv
<1>6. /\ work' \subseteq WorkRec' /\ batches' \in [Franchises -> 0 .. MaxBatches]
      /\ broken' \subseteq Franchises
  BY <1>1, <1>4, SetupTypeIs DEF SetupInv
<1>7. WorkInv'
  <2> SUFFICES ASSUME NEW x \in work, x.type # 0
               PROVE  types'[x.type].franchise = x.franchise /\ types'[x.type].slug = x.slug
    BY DEF WorkInv
  <2>1. x.type \in 1 .. Len(types)
    BY <1>1 DEF WorkRec
  <2> QED
    BY <1>3, <2>1 DEF SetupInv, WorkInv
<1>8. Setup!TypesComplete'
  BY <1>2, <1>3 DEF SetupInv, Setup!TypesComplete, Setup!Created, Setup!Coming, Setup!RowsOf
<1> QED
  BY <1>2, <1>4, <1>5, <1>6, <1>7, <1>8

\* The row of a type is updated: its parameters are to follow.
LEMMA UpdateTypeStep ==
  ASSUME SetupInv, NEW k \in Calls, NEW n \in 1 .. Len(types), Setup!UpdateType(k, n)
  PROVE  SetupInv'
<1> USE SetupConstants
<1> DEFINE r == [pc |-> "params", city |-> NoUser, franchise |-> NoUser, owner |-> NoUser,
                 type |-> n, edit |-> edits + 1]
           t == [types[n] EXCEPT !.edit = edits + 1]
<1>1. /\ edits < MaxEdits /\ edits' = edits + 1
      /\ types' = [types EXCEPT ![n] = t]
      /\ torn' = IF \E l \in Calls : creating[l].type = n THEN torn \cup {n} ELSE torn
      /\ UNCHANGED <<city, cityOf, owner, account, work, batches, broken>>
  BY DEF Setup!UpdateType, Setup!rowVars
<1>2. PICK s : s = [Setup!Idle EXCEPT !.pc = "params", !.type = n, !.edit = edits + 1]
               /\ Setup!Begin(k, s)
  BY DEF Setup!UpdateType
<1>3. s = r
  BY <1>2 DEF Setup!Idle
<1>4. creating[k].pc = "idle" /\ creating[k].type = 0 /\ SetupPut(k, r)
  BY <1>2, <1>3, SetupBeginIs
<1>5. /\ types \in Seq(TypeRec) /\ Len(types) \in Nat /\ edits \in 0 .. MaxEdits
      /\ torn \subseteq 1 .. Len(types)
  BY SetupTypeIs DEF SetupInv
<1>6. edits' \in 0 .. MaxEdits /\ edits + 1 \in 0 .. MaxEdits
  BY <1>1, <1>5
<1>7. types[n] \in TypeRec
  BY <1>5
<1>8. /\ t \in TypeRec /\ t.franchise = types[n].franchise /\ t.slug = types[n].slug
      /\ t.full = types[n].full /\ t.edit = edits + 1
  BY <1>6, <1>7 DEF TypeRec
<1> HIDE DEF t
<1>9. /\ r \in SetupRec /\ r.pc = "params" /\ r.type = n /\ r.edit = edits + 1
  BY <1>5, <1>6 DEF SetupRec, Setup!Pcs
<1> HIDE DEF r
<1>10. /\ types' \in Seq(TypeRec) /\ Len(types') = Len(types) /\ types'[n] = t
       /\ \A i \in 1 .. Len(types) : i # n => types'[i] = types[i]
       /\ RefsInv' /\ work' \subseteq WorkRec' /\ batches' \in [Franchises -> 0 .. MaxBatches]
       /\ broken' \subseteq Franchises /\ SetupRec' = SetupRec
       /\ WorkInv' /\ Setup!TypesComplete'
  BY <1>1, <1>8, EditSpares
<1>11. /\ creating' \in [Calls -> SetupRec']
       /\ creating'[k] = r /\ \A l \in Calls : l # k => creating'[l] = creating[l]
  BY <1>4, <1>5, <1>9, <1>10, SetupPutIs
<1>12. torn' \subseteq 1 .. Len(types') /\ torn \subseteq torn'
  BY <1>1, <1>5, <1>10
<1>13. Setup!TypeOK'
  BY <1>6, <1>10, <1>11, <1>12, SetupTypeNext
<1>14. n # 0
  BY <1>5
<1>15. StepInv'
  BY <1>1, <1>9, <1>11, <1>14 DEF SetupInv, StepInv
<1>16. Setup!EditsAgree'
  <2> SUFFICES ASSUME NEW i \in 1 .. Len(types), i \notin torn', types'[i].edit # types'[i].params
               PROVE  \E l \in Calls : creating'[l].type = i
    BY <1>10 DEF Setup!EditsAgree
  <2>1. CASE i = n
    BY <1>9, <1>11, <2>1
  <2>2. CASE i # n
    <3>1. PICK l \in Calls : creating[l].type = i
      BY <1>10, <1>12, <2>2 DEF SetupInv, EditInv, Setup!EditsAgree
    <3>2. l # k
      BY <1>4, <1>5, <3>1
    <3> QED
      BY <1>11, <3>1, <3>2
  <2> QED
    BY <2>1, <2>2
<1>17. ASSUME NEW l \in Calls, creating'[l].type # 0, creating'[l].type \notin torn'
       PROVE  /\ types'[creating'[l].type].edit = creating'[l].edit
              /\ \A m \in Calls : creating'[m].type = creating'[l].type => l = m
  <2>1. CASE creating'[l].type = n
    <3>1. \A m \in Calls : creating[m].type # n
      BY <1>1, <1>17, <2>1
    <3>2. \A m \in Calls : creating'[m].type = n => m = k
      BY <1>11, <3>1
    <3> QED
      BY <1>8, <1>9, <1>10, <1>11, <2>1, <3>2
  <2>2. CASE creating'[l].type # n
    <3>1. l # k /\ creating'[l] = creating[l]
      BY <1>9, <1>11, <2>2
    <3>2. creating[l].type \in 1 .. Len(types)
      BY <1>17, <3>1, SetupTypeIs DEF SetupInv, SetupRec
    <3> QED
      BY <1>9, <1>10, <1>11, <1>12, <1>17, <2>2, <3>1, <3>2 DEF SetupInv, EditInv
  <2> QED
    BY <2>1, <2>2
<1>18. EditInv'
  BY <1>16, <1>17 DEF EditInv
<1> QED
  BY <1>10, <1>13, <1>15, <1>18 DEF SetupInv

\* The parameters of a type are updated, or the update fails.
LEMMA UpdateParamsStep ==
  ASSUME SetupInv, NEW k \in Calls, Setup!UpdateParams(k)
  PROVE  SetupInv'
<1> USE SetupConstants
<1> DEFINE n == creating[k].type
           t == [types[n] EXCEPT !.params = creating[k].edit]
<1>1. /\ creating[k].pc = "params" /\ Setup!Return(k)
      /\ UNCHANGED <<city, cityOf, owner, account, work, batches, broken, edits>>
      /\ \/ types' = [types EXCEPT ![n] = t] /\ torn' = torn
         \/ torn' = torn \cup {n} /\ types' = types
  BY DEF Setup!UpdateParams, Setup!rowVars
<1>2. SetupPut(k, SetupDone) /\ SetupDone \in SetupRec /\ SetupDone.pc = "idle" /\ SetupDone.type = 0
  BY <1>1, SetupReturnIs DEF SetupDone
<1>3. /\ types \in Seq(TypeRec) /\ Len(types) \in Nat /\ creating \in [Calls -> SetupRec]
      /\ edits \in 0 .. MaxEdits /\ torn \subseteq 1 .. Len(types)
  BY SetupTypeIs DEF SetupInv
<1>4. n \in 1 .. Len(types) /\ n # 0 /\ creating[k].edit \in 0 .. MaxEdits
  BY <1>1, <1>3 DEF SetupInv, StepInv, SetupRec
<1>5. types[n] \in TypeRec
  BY <1>3, <1>4
<1>6. /\ t \in TypeRec /\ t.franchise = types[n].franchise /\ t.slug = types[n].slug
      /\ t.full = types[n].full /\ t.edit = types[n].edit /\ t.params = creating[k].edit
  BY <1>4, <1>5 DEF TypeRec
<1> HIDE DEF t
<1>7. PICK u \in TypeRec :
        /\ types' = [types EXCEPT ![n] = u]
        /\ u.franchise = types[n].franchise /\ u.slug = types[n].slug
        /\ u.full = types[n].full /\ u.edit = types[n].edit
        /\ (n \in torn' \/ u.params = creating[k].edit)
        /\ torn' \subseteq torn \cup {n} /\ torn \subseteq torn'
  <2>1. CASE types' = [types EXCEPT ![n] = t] /\ torn' = torn
    BY <1>6, <2>1
  <2>2. CASE torn' = torn \cup {n} /\ types' = types
    <3>1. types' = [types EXCEPT ![n] = types[n]]
      BY <1>3, <1>4, <2>2
    <3> QED
      BY <1>5, <2>2, <3>1
  <2> QED
    BY <1>1, <2>1, <2>2
<1> HIDE DEF n
<1>8. /\ types' \in Seq(TypeRec) /\ Len(types') = Len(types) /\ types'[n] = u
      /\ \A i \in 1 .. Len(types) : i # n => types'[i] = types[i]
      /\ RefsInv' /\ work' \subseteq WorkRec' /\ batches' \in [Franchises -> 0 .. MaxBatches]
      /\ broken' \subseteq Franchises /\ SetupRec' = SetupRec
      /\ WorkInv' /\ Setup!TypesComplete'
  BY <1>1, <1>4, <1>7, EditSpares
<1>9. /\ creating' \in [Calls -> SetupRec']
      /\ creating'[k] = SetupDone /\ \A l \in Calls : l # k => creating'[l] = creating[l]
  BY <1>2, <1>3, <1>8, SetupPutIs
<1>10. torn' \subseteq 1 .. Len(types')
  BY <1>3, <1>4, <1>7, <1>8
<1>11. Setup!TypeOK'
  BY <1>1, <1>3, <1>8, <1>9, <1>10, SetupTypeNext
<1>12. StepInv'
  BY <1>1, <1>2, <1>9 DEF SetupInv, StepInv
<1>13. creating[k].type = n /\ (n \notin torn => types[n].edit = creating[k].edit)
  BY <1>4 DEF n, SetupInv, EditInv
<1>14. Setup!EditsAgree'
  <2> SUFFICES ASSUME NEW i \in 1 .. Len(types), i \notin torn', types'[i].edit # types'[i].params
               PROVE  \E l \in Calls : creating'[l].type = i
    BY <1>8 DEF Setup!EditsAgree
  <2>1. i # n
    BY <1>7, <1>8, <1>13
  <2>2. PICK l \in Calls : creating[l].type = i
    BY <1>7, <1>8, <2>1 DEF SetupInv, EditInv, Setup!EditsAgree
  <2>3. l # k
    BY <1>13, <2>1, <2>2
  <2> QED
    BY <1>9, <2>2, <2>3
<1>15. ASSUME NEW l \in Calls, creating'[l].type # 0, creating'[l].type \notin torn'
       PROVE  /\ types'[creating'[l].type].edit = creating'[l].edit
              /\ \A m \in Calls : creating'[m].type = creating'[l].type => l = m
  <2>1. l # k /\ creating'[l] = creating[l] /\ creating[l].type \notin torn
    BY <1>2, <1>7, <1>9, <1>15
  <2>2. creating[l].type \in 1 .. Len(types)
    BY <1>3, <1>15, <2>1 DEF SetupRec
  <2>3. /\ types[creating[l].type].edit = creating[l].edit
        /\ \A m \in Calls : creating[m].type = creating[l].type => l = m
    BY <1>15, <2>1 DEF SetupInv, EditInv
  <2>4. creating[l].type # n
    BY <1>13, <2>1, <2>3
  <2> QED
    BY <1>2, <1>8, <1>9, <1>15, <2>1, <2>2, <2>3, <2>4
<1>16. EditInv'
  BY <1>14, <1>15 DEF EditInv
<1> QED
  BY <1>8, <1>11, <1>12, <1>16 DEF SetupInv

\* The process ends: what was under way is gone, and named.
LEMMA SetupCrashStep ==
  ASSUME SetupInv, Setup!Crash
  PROVE  SetupInv'
<1> USE SetupConstants
<1>1. /\ work' = {} /\ creating' = [k \in Calls |-> SetupDone]
      /\ broken' = broken \cup {w.franchise : w \in work}
      /\ torn' = torn \cup ({creating[k].type : k \in Calls} \ {0})
      /\ UNCHANGED <<city, cityOf, owner, account, types, batches, edits>>
  BY DEF Setup!Crash, Setup!Ordered, Setup!rowVars, Setup!Idle, SetupDone
<1>2. /\ types \in Seq(TypeRec) /\ Len(types) \in Nat /\ work \subseteq WorkRec
      /\ creating \in [Calls -> SetupRec]
      /\ batches \in [Franchises -> 0 .. MaxBatches]
      /\ edits \in 0 .. MaxEdits /\ broken \subseteq Franchises /\ torn \subseteq 1 .. Len(types)
  BY SetupTypeIs DEF SetupInv
<1>3. SetupDone \in SetupRec' /\ SetupDone.pc = "idle" /\ SetupDone.type = 0
  BY <1>1, <1>2 DEF SetupDone, SetupRec, Setup!Pcs
<1>4. RefsInv'
  BY <1>1, SetupTypeIs DEF SetupInv, RefsInv
<1>5. broken' \subseteq Franchises
  <2>1. ASSUME NEW w \in work PROVE w.franchise \in Franchises
    BY <1>2 DEF WorkRec
  <2>2. {w.franchise : w \in work} \subseteq Franchises
    BY <2>1
  <2> QED
    BY <1>1, <1>2, <2>2
<1>6. torn' \subseteq 1 .. Len(types')
  <2>1. ASSUME NEW k \in Calls PROVE creating[k].type \in 0 .. Len(types)
    BY <1>2 DEF SetupRec
  <2>2. {creating[k].type : k \in Calls} \ {0} \subseteq 1 .. Len(types)
    BY <1>2, <2>1
  <2> QED
    BY <1>1, <1>2, <2>2
<1>7. Setup!TypeOK'
  BY <1>1, <1>2, <1>3, <1>4, <1>5, <1>6, SetupTypeNext
<1>8. StepInv' /\ WorkInv'
  BY <1>1, <1>3 DEF SetupInv, StepInv, WorkInv
<1>9. Setup!TypesComplete'
  BY <1>1 DEF SetupInv, Setup!TypesComplete, Setup!Created, Setup!Coming, Setup!RowsOf
<1>10. EditInv'
  <2>1. Setup!EditsAgree'
    <3> SUFFICES ASSUME NEW i \in 1 .. Len(types), i \notin torn', types[i].edit # types[i].params
                 PROVE  FALSE
      BY <1>1 DEF Setup!EditsAgree
    <3>1. PICK k \in Calls : creating[k].type = i
      BY <1>1 DEF SetupInv, EditInv, Setup!EditsAgree
    <3> QED
      BY <1>1, <1>2, <3>1
  <2>2. \A k \in Calls : creating'[k].type = 0
    BY <1>1, <1>3
  <2> QED
    BY <2>1, <2>2 DEF EditInv
<1> QED
  BY <1>7, <1>8, <1>9, <1>10 DEF SetupInv

LEMMA SetupStep == SetupInv /\ [Setup!Next]_(Setup!vars) => SetupInv'
<1> SUFFICES ASSUME SetupInv, [Setup!Next]_(Setup!vars) PROVE SetupInv'
  OBVIOUS
<1>1. CASE UNCHANGED Setup!vars
  <2>1. UNCHANGED <<city, cityOf, owner, account, types, work, batches, broken, edits, torn,
                    creating>>
    BY <1>1 DEF Setup!vars, Setup!rowVars, Setup!typeVars, Setup!editVars
  <2>2. RefsInv' /\ creating' \in [Calls -> SetupRec]
    BY <2>1, SetupTypeIs DEF SetupInv, RefsInv
  <2>3. StepInv'
    BY <2>1 DEF SetupInv, StepInv
  <2> QED
    BY <2>1, <2>2, <2>3, TypesSpared DEF SetupInv
<1>2. ASSUME NEW k \in Calls,
             \/ Setup!CreateFranchise(k) \/ Setup!ConnectOwner(k) \/ Setup!UpdateParams(k)
             \/ \E o \in Owners, f \in Franchises : Setup!RegisterOwner(k, o, f)
             \/ \E i \in 1 .. Len(types) : Setup!UpdateType(k, i)
      PROVE  SetupInv'
  BY <1>2, CreateFranchiseStep, ConnectOwnerStep, UpdateParamsStep, RegisterOwnerStep,
     UpdateTypeStep
<1>3. ASSUME NEW c \in Cities, Setup!CreateCity(c) \/ Setup!RemoveCity(c) PROVE SetupInv'
  BY <1>3, CreateCityStep, RemoveCityStep
<1>4. ASSUME NEW w \in work, Setup!MakeType(w) \/ Setup!MakeParams(w) PROVE SetupInv'
  BY <1>4, MakeTypeStep, MakeParamsStep
<1> QED
  BY <1>1, <1>2, <1>3, <1>4, RemoveOwnerStep, OrderTypesStep, SetupCrashStep DEF Setup!Next

(***************************************************************************)
(* The composition: a behaviour of it is one of each of its parts.         *)
(***************************************************************************)
LEMMA RunsObligations == RunSpec => Spec
<1>1. RunInit => Init
  BY DEF RunInit
<1>2. [RunNext]_<<part, vars, accessVars, setupVars>> => [Next]_vars
  BY DEF RunNext
<1> QED
  BY <1>1, <1>2, PTL DEF RunSpec, Spec

LEMMA RunsAccess == RunSpec => Access!Spec
<1>1. RunInit => Access!Init
  BY DEF RunInit
<1>2. [RunNext]_<<part, vars, accessVars, setupVars>> => [Access!Next]_(Access!vars)
  <2>1. UNCHANGED accessVars => UNCHANGED Access!vars
    BY DEF accessVars, Access!vars, Access!accountVars, Access!tokenVars, Access!letterVars
  <2> QED
    BY <2>1 DEF RunNext, AccessNext
<1> QED
  BY <1>1, <1>2, PTL DEF RunSpec, Access!Spec

LEMMA RunsSetup == RunSpec => Setup!Spec
<1>1. RunInit => Setup!Init
  BY DEF RunInit
<1>2. [RunNext]_<<part, vars, accessVars, setupVars>> => [Setup!Next]_(Setup!vars)
  <2>1. UNCHANGED setupVars => UNCHANGED Setup!vars
    BY DEF setupVars, Setup!vars, Setup!rowVars, Setup!typeVars, Setup!editVars
  <2> QED
    BY <2>1 DEF RunNext, SetupNext
<1> QED
  BY <1>1, <1>2, PTL DEF RunSpec, Setup!Spec

\* What the rows of the employees, their tokens and letters and the handlers
\* keep between them.
THEOREM AccessInductive == Access!Spec => []AccessInv
  BY AccessInit, AccessStep, PTL DEF Access!Spec

\* What franchises, their types, the inserts under way and the edits keep
\* between them.
THEOREM SetupInductive == Setup!Spec => []SetupInv
  BY SetupInit, SetupStep, PTL DEF Setup!Spec

\* One employee with an address and one row for an agent, except where a race, a
\* failed look or an update gave them up, for any number of employees, agents and
\* handlers.
THEOREM RowsAreUnique == RunSpec => []RowsUnique
<1>1. AccessInv => RowsUnique
  BY DEF AccessInv, AccountInv, GrantInv, RowsUnique
<1> QED
  BY <1>1, RunsAccess, AccessInductive, PTL

\* A refresh token and a letter are served once, unless the handlers that used
\* it overlapped or the row outlived its use.
THEOREM ServedOnce == RunSpec => []ServesOnce
<1>1. AccessInv => ServesOnce
  BY DEF AccessInv, NumberInv, ResetInv, ServesOnce, Access!ExchangedOnce, Access!ResetOnce
<1> QED
  BY <1>1, RunsAccess, AccessInductive, PTL

\* A franchise has every type or has it coming unless the process died on it, and
\* a type and its parameters are of one edit unless edits overlapped or failed.
THEOREM TypesAreWhole == RunSpec => []TypesWhole
<1>1. SetupInv => TypesWhole
  BY DEF SetupInv, EditInv, TypesWhole
<1> QED
  BY <1>1, RunsSetup, SetupInductive, PTL

\* The types of the three parts, and the references between their rows.
THEOREM BackOfficeTypesCorrect == RunSpec => []TypesOK
<1>1. TypeOK /\ AccessInv /\ SetupInv => TypesOK
  BY DEF AccessInv, SetupInv, TypesOK
<1> QED
  BY <1>1, RunsObligations, RunsAccess, RunsSetup, AccessInductive, SetupInductive,
     ObligationsTypeCorrect, PTL
=============================================================================
