---------------------------- MODULE Obligations ----------------------------
(***************************************************************************)
(* src/src/debt/debt.service.ts, src/src/fine/fine.service.ts and the save *)
(* gateways of src/src/payments: riders pay debts, fines and top-ups of    *)
(* the balance by card, while the CRM files, closes and deletes the rows.  *)
(*                                                                         *)
(* payOfDebt and payOfFine are the same handler over two tables.  A call   *)
(* reads the row once, and never its paidStatus; it charges, books the     *)
(* Payment row, credits the balance and closes the row in statements that  *)
(* commit one by one, the $transaction of the gateways included.           *)
(*                                                                         *)
(* Left out: the balance as a field of the profile form.                   *)
(***************************************************************************)
EXTENDS Sums

CONSTANTS
  Debts,      \* the debtUUIDs a trip gets in turn: Debt.tripId is unique
  Fines,
  Users,
  Calls,      \* calls of payOfDebt, payOfFine and of the top-up
  Prices,
  NoUser,
  TopUp       \* what a call is about that pays into the balance

Rows == Debts \cup Fines

ASSUME ObligationsAssumption ==
  /\ Debts \cap Fines = {}
  /\ NoUser \notin Users
  /\ TopUp \notin Rows
  /\ Prices \subseteq Nat

VARIABLES
  row,        \* of each debt and fine: absent, filing, dropped, a paidStatus, deleted
  price,      \* of each debt and fine
  folder,     \* the fines whose folder of photos is on the disk
  pictured,   \* the fines that were filed with photos
  clearing,   \* the fines whose folder a delete handler is about to remove
  waived,     \* the fines the CRM marked as paid
  call,       \* each call: where it stands, its user, its object, its amount
  taken,      \* the calls whose charge the gateway carried out
  booked,     \* the calls that created a Payment row
  balance     \* of each user

rowVars == <<row, price, folder, pictured, clearing, waived>>
payVars == <<call, taken, booked, balance>>
vars    == <<rowVars, payVars>>

CallPcs == {"idle", "found", "charged", "booked", "saved", "done",
            "refused", "unbooked", "unclosed", "died"}

Init ==
  /\ row = [o \in Rows |-> "absent"]
  /\ price = [o \in Rows |-> 0]
  /\ folder = {} /\ pictured = {} /\ clearing = {} /\ waived = {}
  /\ call = [k \in Calls |-> [pc |-> "idle", user |-> NoUser, what |-> TopUp, amount |-> 0]]
  /\ taken = {} /\ booked = {}
  /\ balance = [u \in Users |-> 0]

Present(o) == row[o] \in {"NOTPAID", "PAID"}

Goto(k, from, to) ==
  /\ call[k].pc = from
  /\ call' = [call EXCEPT ![k].pc = to]

(***************************************************************************)
(* payOfDebt, payOfFine, createCassirReccurentPayment                      *)
(***************************************************************************)
Find(k, u, what, amount) ==
  /\ call[k].pc = "idle"
  /\ call' = [call EXCEPT ![k] = [pc |-> "found", user |-> u, what |-> what, amount |-> amount]]
  /\ UNCHANGED <<rowVars, taken, booked, balance>>

\* checkIsDebtExist, checkIsFineExist: any user, any row that is there.
PayFind(k, u, o) == Present(o) /\ Find(k, u, o, price[o])

TopUpFind(k, u, amount) == Find(k, u, TopUp, amount)

\* No active method, no franchise, a declined charge; or one that was carried
\* out and whose answer was lost, which the handler takes for declined.
Refuse(k) ==
  /\ Goto(k, "found", "refused")
  /\ taken' \in {taken, taken \cup {k}}
  /\ UNCHANGED <<rowVars, booked, balance>>

\* Mutant: the handler goes on when the charge was declined.
ChargeAnyway(k) ==
  /\ Goto(k, "found", "charged")
  /\ taken' \in {taken, taken \cup {k}}
  /\ UNCHANGED <<rowVars, booked, balance>>

Charge(k) ==
  /\ Goto(k, "found", "charged")
  /\ taken' = taken \cup {k}
  /\ UNCHANGED <<rowVars, booked, balance>>

\* payment.create of the gateway.  If it fails, or its answer is lost, the call
\* ends with an error.
Book(k) ==
  /\ \/ Goto(k, "charged", "booked") /\ booked' = booked \cup {k}
     \/ Goto(k, "charged", "unbooked") /\ booked' \in {booked, booked \cup {k}}
  /\ UNCHANGED <<rowVars, taken, balance>>

\* Mutant: a user.update that fails is tried once more.
CreditAgain(k) ==
  LET c == call[k] IN
  /\ Goto(k, "booked", "booked") \/ Goto(k, "booked", "saved")
  /\ balance' = [balance EXCEPT ![c.user] = @ + c.amount]
  /\ UNCHANGED <<rowVars, taken, booked>>

\* user.update of the gateway, whose failure is logged only.  The transaction
\* around it may time out when both statements are through.
Credit(k) ==
  LET c == call[k] IN
  /\ Goto(k, "booked", "saved") \/ Goto(k, "booked", "unbooked")
  /\ balance' \in {balance, [balance EXCEPT ![c.user] = @ + c.amount]}
  /\ UNCHANGED <<rowVars, taken, booked>>

\* Mutant: an update that fails is logged, and the call returns.
CloseQuietly(k) ==
  LET o == call[k].what IN
  /\ o \in Rows
  /\ Goto(k, "saved", "done")
  /\ row' \in {row, IF Present(o) THEN [row EXCEPT ![o] = "PAID"] ELSE row}
  /\ UNCHANGED <<price, folder, pictured, clearing, waived, taken, booked, balance>>

\* The update by id, which fails on a row that was deleted meanwhile.
Close(k) ==
  LET o == call[k].what IN
  /\ o \in Rows
  /\ \/ /\ Present(o)
        /\ Goto(k, "saved", "done") \/ Goto(k, "saved", "unclosed")
        /\ row' = [row EXCEPT ![o] = "PAID"]
     \/ Goto(k, "saved", "unclosed") /\ UNCHANGED row
  /\ UNCHANGED <<price, folder, pictured, clearing, waived, taken, booked, balance>>

TopUpReturn(k) ==
  /\ Goto(k, "saved", "done")
  /\ UNCHANGED <<rowVars, taken, booked, balance>>

(***************************************************************************)
(* The CRM                                                                 *)
(***************************************************************************)
\* DebtService.create: the row takes the trip's only place.
CreateDebt(o, amount) ==
  /\ o \in Debts /\ row[o] = "absent"
  /\ \A d \in Debts : ~Present(d)
  /\ row' = [row EXCEPT ![o] = "NOTPAID"]
  /\ price' = [price EXCEPT ![o] = amount]
  /\ UNCHANGED <<folder, pictured, clearing, waived, payVars>>

\* FineService.create up to its last await: the photos are on the disk.
FilePhotos(o, amount, photos) ==
  /\ o \in Fines /\ row[o] = "absent"
  /\ row' = [row EXCEPT ![o] = "filing"]
  /\ price' = [price EXCEPT ![o] = amount]
  /\ folder' = IF photos THEN folder \cup {o} ELSE folder
  /\ pictured' = IF photos THEN pictured \cup {o} ELSE pictured
  /\ UNCHANGED <<clearing, waived, payVars>>

\* If fine.create fails, the folder stays without a row.
CreateFine(o) ==
  /\ row[o] = "filing"
  /\ row' \in {[row EXCEPT ![o] = "NOTPAID"], [row EXCEPT ![o] = "dropped"]}
  /\ UNCHANGED <<price, folder, pictured, clearing, waived, payVars>>

\* Mutant: a word that is not a FinePaidStatus.
MakeFinePaidWrongWord(o) ==
  /\ o \in Fines /\ Present(o)
  /\ row' = [row EXCEPT ![o] = "CLOSED"]
  /\ waived' = waived \cup {o}
  /\ UNCHANGED <<price, folder, pictured, clearing, payVars>>

MakeFinePaid(o) ==
  /\ o \in Fines /\ Present(o)
  /\ row' = [row EXCEPT ![o] = "PAID"]
  /\ waived' = waived \cup {o}
  /\ UNCHANGED <<price, folder, pictured, clearing, payVars>>

DeleteDebt(o) ==
  /\ o \in Debts /\ Present(o)
  /\ row' = [row EXCEPT ![o] = "deleted"]
  /\ UNCHANGED <<price, folder, pictured, clearing, waived, payVars>>

\* FineService.delete up to the answer of the database, which may be lost,
\* and after it.
DeleteFine(o) ==
  /\ o \in Fines /\ Present(o)
  /\ row' = [row EXCEPT ![o] = "deleted"]
  /\ clearing' \in {clearing, clearing \cup ({o} \cap pictured)}
  /\ UNCHANGED <<price, folder, pictured, waived, payVars>>

DeleteFolder(o) ==
  /\ o \in clearing
  /\ folder' = folder \ {o}
  /\ clearing' = clearing \ {o}
  /\ UNCHANGED <<row, price, pictured, waived, payVars>>

\* The process ends: every handler stops where it is.
Crash ==
  /\ call' = [k \in Calls |->
       IF call[k].pc \in {"found", "charged", "booked", "saved"}
       THEN [call[k] EXCEPT !.pc = "died"] ELSE call[k]]
  /\ row' = [o \in Rows |-> IF row[o] = "filing" THEN "dropped" ELSE row[o]]
  /\ clearing' = {}
  /\ UNCHANGED <<price, folder, pictured, waived, taken, booked, balance>>

PayOfDebt(k) ==
  \/ \E u \in Users, o \in Debts : PayFind(k, u, o)
  \/ call[k].what \in Debts /\ (Refuse(k) \/ Charge(k) \/ Book(k) \/ Credit(k) \/ Close(k))

PayOfFine(k) ==
  \/ \E u \in Users, o \in Fines : PayFind(k, u, o)
  \/ call[k].what \in Fines /\ (Refuse(k) \/ Charge(k) \/ Book(k) \/ Credit(k) \/ Close(k))

\* createCassirReccurentPayment with the type BALANCE.
PayIntoBalance(k) ==
  \/ \E u \in Users, amount \in Prices : TopUpFind(k, u, amount)
  \/ /\ call[k].what = TopUp
     /\ Refuse(k) \/ Charge(k) \/ Book(k) \/ Credit(k) \/ TopUpReturn(k)

PayNext(k) == PayOfDebt(k) \/ PayOfFine(k) \/ PayIntoBalance(k)

RowNext(o) ==
  \/ \E amount \in Prices : \/ CreateDebt(o, amount)
                            \/ \E photos \in BOOLEAN : FilePhotos(o, amount, photos)
  \/ CreateFine(o) \/ MakeFinePaid(o) \/ DeleteDebt(o) \/ DeleteFine(o) \/ DeleteFolder(o)

Next ==
  \/ \E k \in Calls : PayNext(k)
  \/ \E o \in Rows : RowNext(o)
  \/ Crash

Spec == Init /\ [][Next]_vars

(***************************************************************************)
(* Properties.                                                             *)
(***************************************************************************)
TypeOK ==
  /\ row \in [Rows -> {"absent", "filing", "dropped", "NOTPAID", "PAID", "deleted"}]
  /\ price \in [Rows -> Nat]
  /\ folder \subseteq Fines /\ pictured \subseteq Fines
  /\ clearing \subseteq Fines /\ waived \subseteq Fines
  /\ call \in [Calls -> [pc : CallPcs, user : Users \cup {NoUser},
                         what : Rows \cup {TopUp}, amount : Nat]]
  /\ taken \subseteq Calls /\ booked \subseteq Calls
  /\ balance \in [Users -> Nat]

PaysFor(k, o) == call[k].what = o /\ k \in booked /\ k \in taken

\* A debt or fine that says PAID was charged for and has the Payment row of a
\* charge at its price, or is a fine that the CRM waived (makeFinePaid).
PaidIsCovered ==
  \A o \in Rows : row[o] = "PAID" =>
    o \in waived \/ \E k \in Calls : PaysFor(k, o) /\ call[k].amount = price[o]

\* A payer whose call returned has paid, once by this call, and what he paid
\* for is closed or deleted and will never ask him again: neither another
\* payment nor the CRM opens it.
ToldIsTrue ==
  \A k \in Calls : call[k].pc = "done" =>
    /\ k \in taken /\ k \in booked
    /\ call[k].what \in Rows => row[call[k].what] \in {"PAID", "deleted"}

PaidInBy(u) == SumOf([k \in {l \in booked : call[l].user = u} |-> call[k].amount])

\* The balance of a user never exceeds what his Payment rows of top-ups, debts
\* and fines come to, and nothing is booked that was not charged: repeats of
\* a payment, crashes and failures lose credits, they never make any.
BalanceWithinPayments ==
  /\ booked \subseteq taken
  /\ \A u \in Users : balance[u] <= PaidInBy(u)

\* While the row of a fine lists photos the folder is there, and rmSync, which
\* throws if it is not, always finds it: a crash between the two deletions, or
\* two deletions of one fine, leave files without a row but not the reverse.
PhotosBehindFine ==
  /\ \A o \in pictured : Present(o) => o \in folder
  /\ clearing \subseteq folder
=============================================================================
