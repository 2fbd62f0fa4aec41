----------------------------- MODULE Promocodes -----------------------------
(***************************************************************************)
(* src/src/promocode/promocode.service.ts: riders redeem one promocode     *)
(* (usePromocode) while the CRM creates, edits and removes the rows that   *)
(* bear it and the cron job checkPromoExp archives them.  The code is      *)
(* unique, so the rows bear it one after the other.                        *)
(*                                                                         *)
(* usePromocode reads the row, decides on that copy, and grants and books  *)
(* the bonuses in two statements which commit each on its own, although    *)
(* they stand in a $transaction: they use dbService and not tx.            *)
(***************************************************************************)
EXTENDS Sums

CONSTANTS
  Users,
  Rows,   \* the Promocode rows that bear the code in turn
  Calls,  \* calls of usePromocode
  Sums,   \* what a row may grant
  NoUser,
  NoRow

ASSUME PromocodesAssumption ==
  /\ NoUser \notin Users
  /\ NoRow \notin Rows
  /\ Sums \subseteq Nat

VARIABLES
  status,     \* of each row
  sum,        \* of each row
  usedBy,     \* the users connected to each row
  expired,    \* the rows whose dateEnd has passed
  archiving,  \* the updates a run of the job has sent off
  bonuses,    \* what each user was granted in all
  booked,     \* the amount of the Payment row each call created, or 0
  call,       \* each call: where it stands, its user, its copy of the row
  overlapped  \* the pairs <<user, row>> that two calls checked side by side

rowVars == <<status, sum, usedBy, expired>>
useVars == <<bonuses, booked, call, overlapped>>
vars    == <<rowVars, archiving, useVars>>

CallPcs == {"idle", "refused", "checked", "granted", "booked", "unbooked", "failed"}

Init ==
  /\ status = [r \in Rows |-> "absent"]
  /\ sum = [r \in Rows |-> 0]
  /\ usedBy = [r \in Rows |-> {}]
  /\ expired = {}
  /\ archiving = {}
  /\ bonuses = [u \in Users |-> 0]
  /\ booked = [k \in Calls |-> 0]
  /\ call = [k \in Calls |-> [pc |-> "idle", user |-> NoUser, row |-> NoRow, sum |-> 0]]
  /\ overlapped = {}

Present(r) == status[r] \in {"ACTIVE", "ARCHIVE"}

Goto(k, from, to) ==
  /\ call[k].pc = from
  /\ call' = [call EXCEPT ![k].pc = to]

Checked(k, u, r) == call[k].pc = "checked" /\ call[k].user = u /\ call[k].row = r

(***************************************************************************)
(* usePromocode                                                            *)
(***************************************************************************)
\* findOneByCode, and both checks on what it returned.
UseFind(k, u, r) ==
  /\ call[k].pc = "idle"
  /\ status[r] = "ACTIVE" /\ u \notin usedBy[r]
  /\ call' = [call EXCEPT ![k] = [pc |-> "checked", user |-> u, row |-> r, sum |-> sum[r]]]
  /\ overlapped' = IF \E l \in Calls : Checked(l, u, r)
                   THEN overlapped \cup {<<u, r>>} ELSE overlapped
  /\ UNCHANGED <<rowVars, archiving, bonuses, booked>>

\* No such code, an archived one, or one the user is connected to.
UseRefuse(k, u) ==
  /\ \A r \in Rows : Present(r) => status[r] = "ARCHIVE" \/ u \in usedBy[r]
  /\ Goto(k, "idle", "refused")
  /\ UNCHANGED <<rowVars, archiving, bonuses, booked, overlapped>>

\* Mutant: the bonuses are granted, the user is not connected.
UseGrantUnconnected(k) ==
  LET c == call[k] IN
  /\ c.row \in Rows /\ Present(c.row)
  /\ Goto(k, "checked", "granted")
  /\ bonuses' = [bonuses EXCEPT ![c.user] = @ + c.sum]
  /\ UNCHANGED <<rowVars, archiving, booked, overlapped>>

\* One nested update: connect, which an existing connection does not refuse,
\* and the increment.  A row removed meanwhile fails it.  The answer may be lost.
UseGrant(k) ==
  LET c == call[k] IN
  /\ c.row \in Rows /\ Present(c.row)
  /\ Goto(k, "checked", "granted") \/ Goto(k, "checked", "unbooked")
  /\ usedBy' = [usedBy EXCEPT ![c.row] = @ \cup {c.user}]
  /\ bonuses' = [bonuses EXCEPT ![c.user] = @ + c.sum]
  /\ UNCHANGED <<status, sum, expired, archiving, booked, overlapped>>

\* Mutant: the amount is taken from the row as it is by then.
UseBookFresh(k) ==
  /\ Goto(k, "granted", "booked")
  /\ booked' = [booked EXCEPT ![k] = sum[call[k].row]]
  /\ UNCHANGED <<rowVars, archiving, bonuses, overlapped>>

\* payment.create; its failure is reported, the bonuses stay.
UseBook(k) ==
  /\ \/ /\ Goto(k, "granted", "booked")
        /\ booked' = [booked EXCEPT ![k] = call[k].sum]
     \/ Goto(k, "granted", "unbooked") /\ UNCHANGED booked
  /\ UNCHANGED <<rowVars, archiving, bonuses, overlapped>>

UseFail(k) ==
  /\ Goto(k, "checked", "failed")
  /\ UNCHANGED <<rowVars, archiving, bonuses, booked, overlapped>>

(***************************************************************************)
(* The CRM: create, update, remove.                                        *)
(***************************************************************************)
\* The form decides on every field.
Write(r, state, amount, late) ==
  /\ status' = [status EXCEPT ![r] = state]
  /\ sum' = [sum EXCEPT ![r] = amount]
  /\ expired' = IF late THEN expired \cup {r} ELSE expired \ {r}
  /\ UNCHANGED <<archiving, useVars>>

Create(r, state, amount, late) ==
  /\ status[r] = "absent"
  /\ \A q \in Rows : ~Present(q)
  /\ Write(r, state, amount, late)
  /\ UNCHANGED usedBy

Edit(r, state, amount, late) ==
  /\ Present(r)
  /\ Write(r, state, amount, late)
  /\ UNCHANGED usedBy

\* The connections go with the row.
Remove(r) ==
  /\ Present(r)
  /\ status' = [status EXCEPT ![r] = "deleted"]
  /\ usedBy' = [usedBy EXCEPT ![r] = {}]
  /\ UNCHANGED <<sum, expired, archiving, useVars>>

(***************************************************************************)
(* checkPromoExp: the updates of one run go off together and nothing waits *)
(* for them.                                                               *)
(***************************************************************************)
\* Mutant: the comparison with dateEnd is the wrong way round.
JobFindCurrent ==
  /\ archiving' = archiving \cup {r \in Rows \ expired : status[r] = "ACTIVE"}
  /\ UNCHANGED <<rowVars, useVars>>

JobFind ==
  /\ archiving' = archiving \cup {r \in expired : status[r] = "ACTIVE"}
  /\ UNCHANGED <<rowVars, useVars>>

\* Mutant: a word that is not a PromocodeStatus.
JobArchiveWrongWord(r) ==
  /\ r \in archiving
  /\ Present(r)
  /\ status' = [status EXCEPT ![r] = "ARCHIVED"]
  /\ archiving' = archiving \ {r}
  /\ UNCHANGED <<sum, usedBy, expired, useVars>>

\* Whatever the CRM has made of the row since.
JobArchive(r) ==
  /\ r \in archiving
  /\ Present(r)
  /\ status' = [status EXCEPT ![r] = "ARCHIVE"]
  /\ archiving' = archiving \ {r}
  /\ UNCHANGED <<sum, usedBy, expired, useVars>>

\* The end of the process, which the rejected update of a removed row brings
\* about too, since nothing catches it.
Crash ==
  /\ archiving' = {}
  /\ call' = [k \in Calls |->
       [call[k] EXCEPT !.pc = CASE @ = "checked" -> "failed"
                                [] @ = "granted" -> "unbooked"
                                [] OTHER -> @]]
  /\ UNCHANGED <<rowVars, bonuses, booked, overlapped>>

\* dateEnd passes.
Lapse(r) ==
  /\ Present(r)
  /\ expired' = expired \cup {r}
  /\ UNCHANGED <<status, sum, usedBy, archiving, useVars>>

UseNext(k) ==
  \/ \E u \in Users, r \in Rows : UseFind(k, u, r)
  \/ \E u \in Users : UseRefuse(k, u)
  \/ UseGrant(k) \/ UseBook(k) \/ UseFail(k)

RowNext(r) ==
  \/ \E state \in {"ACTIVE", "ARCHIVE"}, amount \in Sums, late \in BOOLEAN :
       Create(r, state, amount, late) \/ Edit(r, state, amount, late)
  \/ Remove(r) \/ JobArchive(r) \/ Lapse(r)

Next ==
  \/ \E k \in Calls : UseNext(k)
  \/ \E r \in Rows : RowNext(r)
  \/ JobFind \/ Crash

Spec == Init /\ [][Next]_vars

\* The job runs every twelve hours.  An update may be lost with the process,
\* but not every one of them for ever.
Fairness == WF_vars(JobFind) /\ \A r \in Rows : SF_vars(JobArchive(r))

FairSpec == Spec /\ Fairness

(***************************************************************************)
(* Properties.                                                             *)
(***************************************************************************)
TypeOK ==
  /\ status \in [Rows -> {"absent", "ACTIVE", "ARCHIVE", "deleted"}]
  /\ sum \in [Rows -> Nat]
  /\ usedBy \in [Rows -> SUBSET Users]
  /\ expired \subseteq Rows
  /\ archiving \subseteq Rows
  /\ bonuses \in [Users -> Nat]
  /\ booked \in [Calls -> Nat]
  /\ call \in [Calls -> [pc : CallPcs, user : Users \cup {NoUser},
                         row : Rows \cup {NoRow}, sum : Nat]]
  /\ overlapped \subseteq Users \X Rows

Granted(k) == call[k].pc \in {"granted", "booked", "unbooked"}

\* The user k acts for got the bonuses of k's row from another call too.
GrantedTwice(k, l) ==
  /\ k # l
  /\ Granted(k) /\ Granted(l)
  /\ call[k].user = call[l].user /\ call[k].row = call[l].row

\* "You have already used promocode" (promocode.service.ts:115): no user gets
\* the bonuses of a promocode twice.
OncePerUser == \A k, l \in Calls : ~GrantedTwice(k, l)

\* A user gets the bonuses of a promocode twice only when two of his calls
\* checked it side by side: failures after the grant, edits and archiving of
\* the row and repeats of a failed call do not give them again.
OnceUnlessOverlapped ==
  \A k, l \in Calls :
    GrantedTwice(k, l) => <<call[k].user, call[k].row>> \in overlapped

Booked(u) == SumOf([k \in {l \in Calls : call[l].user = u} |-> booked[k]])

Open(u) == {k \in Calls : call[k].user = u /\ call[k].pc \in {"granted", "unbooked"}}
Unbooked(u) == SumOf([k \in Open(u) |-> call[k].sum])

\* What the Payment rows of a user say and what he was granted differ by the
\* grants that are not booked, at the sum of the time of the check: an edit
\* of the sum while a call is under way does not make books and bonuses part.
BooksExplainBonuses == \A u \in Users : bonuses[u] = Booked(u) + Unbooked(u)

\* A row that is past its end and stays so is archived again and again,
\* however often the CRM makes it active, another row of the run fails or the
\* process ends in the middle of a run.
ExpiredIsArchived ==
  \A r \in Rows :
    <>[](r \in expired /\ Present(r)) => []<>(status[r] = "ARCHIVE")
=============================================================================
