------------------------------ MODULE Renewals ------------------------------
(***************************************************************************)
(* checkSubscriptionExp of src/src/payments/payments.service.ts: the       *)
(* midnight job that renews or drops the subscriptions of the day, while   *)
(* users switch the renewal and delete their accounts.                     *)
(*                                                                         *)
(* The job takes the rows that expire on the day that begins and works on  *)
(* all of them at once, each from its own copy of the row.  Every period   *)
(* has Period days.                                                        *)
(***************************************************************************)
EXTENDS Naturals, FiniteSets

CONSTANTS
  Options,   \* the UserSubscriptionsOptions rows, one per user
  Period,    \* Subscription.days
  LastDay    \* bound of the calendar

ASSUME RenewalsAssumption == Period \in Nat \ {0} /\ LastDay \in Nat

Days == 0 .. LastDay + Period

VARIABLES
  today,
  row,      \* each row: present or gone
  expDate, autoPayment,
  job,      \* the work on each row: where it stands, its copy of autoPayment
  charged,  \* the expirations that the user was charged for
  again,    \* the rows charged twice for one expiration
  extended, booked,   \* how often the row was extended, and a Payment stored
  missed    \* the rows on which a run failed

rowVars  == <<row, expDate, autoPayment>>
bookVars == <<charged, again, extended, booked>>
vars     == <<today, rowVars, job, bookVars, missed>>

Pcs  == {"idle", "selected", "looked", "paid", "refused", "extended"}
Idle == [pc |-> "idle", auto |-> FALSE]

Init ==
  /\ today = 0
  /\ row = [o \in Options |-> "present"]
  /\ expDate \in [Options -> 1 .. LastDay]
  /\ autoPayment \in [Options -> BOOLEAN]
  /\ job = [o \in Options |-> Idle]
  /\ charged = [o \in Options |-> {}] /\ again = {}
  /\ extended = [o \in Options |-> 0]
  /\ booked = [o \in Options |-> 0]
  /\ missed = {}

Present(o) == row[o] = "present"

Goto(o, from, to) ==
  /\ job[o].pc = from
  /\ job' = [job EXCEPT ![o].pc = to]

Return(o, from) ==
  /\ job[o].pc = from
  /\ job' = [job EXCEPT ![o] = Idle]

(***************************************************************************)
(* The job                                                                 *)
(***************************************************************************)
\* Mutant: what expired before is taken up again.
ExpiringOverdue(day) == {o \in Options : Present(o) /\ expDate[o] <= day}

\* expDate: gte today, lt tomorrow
Expiring(day) == {o \in Options : Present(o) /\ expDate[o] = day}

\* A run is over before the next midnight.
NextDay ==
  /\ today < LastDay /\ \A o \in Options : job[o] = Idle
  /\ today' = today + 1

Midnight ==
  /\ NextDay
  /\ job' = [o \in Options |-> IF o \in Expiring(today + 1)
                               THEN [pc |-> "selected", auto |-> autoPayment[o]] ELSE Idle]
  /\ UNCHANGED <<rowVars, bookVars, missed>>

\* The process is down at midnight, or the search fails.
MidnightMissed ==
  /\ NextDay
  /\ missed' = missed \cup Expiring(today + 1)
  /\ UNCHANGED <<rowVars, job, bookVars>>

\* Mutant: the row is only marked, by another word.
DeleteRowWrongWord(o) ==
  \/ /\ row' = [row EXCEPT ![o] = "deleted"]
     /\ UNCHANGED missed
  \/ /\ missed' = missed \cup {o}
     /\ UNCHANGED row

\* A deletion that fails, be it of a row that is gone, is logged.
DeleteRow(o) ==
  \/ /\ row' = [row EXCEPT ![o] = "gone"]
     /\ UNCHANGED missed
  \/ /\ missed' = missed \cup {o}
     /\ UNCHANGED row

Drop(o) ==
  /\ Return(o, "selected") /\ ~job[o].auto
  /\ DeleteRow(o)
  /\ UNCHANGED <<today, expDate, autoPayment, bookVars>>

\* The user with the active method, and the subscription.
Look(o) ==
  /\ job[o].auto /\ Goto(o, "selected", "looked")
  /\ UNCHANGED <<today, rowVars, bookVars, missed>>

\* The payment of YooKassa succeeds or is cancelled.  Pending, refused with an
\* error, or with its answer lost, it ends the work on the row.
ChargeEffect(o) ==
  /\ charged' = [charged EXCEPT ![o] = @ \cup {expDate[o]}]
  /\ again' = IF expDate[o] \in charged[o] THEN again \cup {o} ELSE again
  /\ UNCHANGED <<extended, booked>>

Charge(o) ==
  \/ /\ Goto(o, "looked", "paid") /\ ChargeEffect(o)
     /\ UNCHANGED <<today, rowVars, missed>>
  \/ /\ Goto(o, "looked", "refused")
     /\ UNCHANGED <<today, rowVars, bookVars, missed>>
  \/ /\ Return(o, "looked")
     /\ ChargeEffect(o) \/ UNCHANGED bookVars
     /\ missed' = missed \cup {o}
     /\ UNCHANGED <<today, rowVars>>

\* A failure, or a row deleted meanwhile, is logged; the row stays as it is.
Extend(o) ==
  /\ Goto(o, "paid", "extended")
  /\ \/ /\ Present(o)
        /\ expDate' = [expDate EXCEPT ![o] = today + Period]
        /\ extended' = [extended EXCEPT ![o] = @ + 1]
        /\ UNCHANGED missed
     \/ /\ missed' = missed \cup {o}
        /\ UNCHANGED <<expDate, extended>>
  /\ UNCHANGED <<today, row, autoPayment, charged, again, booked>>

Book(o) ==
  /\ Return(o, "extended")
  /\ booked' \in {booked, [booked EXCEPT ![o] = @ + 1]}
  /\ UNCHANGED <<today, rowVars, charged, again, extended, missed>>

\* Mutant: a cancelled payment leaves the row.
CancelKeeps(o) ==
  /\ Return(o, "refused")
  /\ UNCHANGED <<today, rowVars, bookVars, missed>>

Cancel(o) ==
  /\ Return(o, "refused")
  /\ DeleteRow(o)
  /\ UNCHANGED <<today, expDate, autoPayment, bookVars>>

\* The process ends, as when a row has no active method: nothing catches that.
Crash ==
  /\ \E o \in Options : job[o] # Idle
  /\ job' = [o \in Options |-> Idle]
  /\ missed' = missed \cup {o \in Options : job[o].pc \in {"selected", "looked", "paid", "refused"}}
  /\ UNCHANGED <<today, rowVars, bookVars>>

(***************************************************************************)
(* The users                                                               *)
(***************************************************************************)
UpdateOptions(o) ==
  /\ Present(o)
  /\ \E b \in BOOLEAN : autoPayment' = [autoPayment EXCEPT ![o] = b]
  /\ UNCHANGED <<today, row, expDate, job, bookVars, missed>>

DeleteUserAccount(o) ==
  /\ Present(o)
  /\ row' = [row EXCEPT ![o] = "gone"]
  /\ UNCHANGED <<today, expDate, autoPayment, job, bookVars, missed>>

JobNext(o) == Drop(o) \/ Look(o) \/ Charge(o) \/ Extend(o) \/ Book(o) \/ Cancel(o)

Next ==
  \/ Midnight \/ MidnightMissed \/ Crash
  \/ \E o \in Options : JobNext(o) \/ UpdateOptions(o) \/ DeleteUserAccount(o)

Spec == Init /\ [][Next]_vars

(***************************************************************************)
(* Properties.                                                             *)
(***************************************************************************)
TypeOK ==
  /\ today \in 0 .. LastDay
  /\ row \in [Options -> {"present", "gone"}]
  /\ expDate \in [Options -> Days]
  /\ autoPayment \in [Options -> BOOLEAN]
  /\ job \in [Options -> [pc : Pcs, auto : BOOLEAN]]
  /\ charged \in [Options -> SUBSET Days] /\ again \subseteq Options
  /\ extended \in [Options -> Nat] /\ booked \in [Options -> Nat]
  /\ missed \subseteq Options

\* No period is charged for twice (checkSubscriptionExp), though the run is not
\* told what an earlier one did before it failed: what it could not extend it
\* never selects again.
OneChargePerPeriod == again = {}

\* Every extension and every Payment of a renewal has its charge.
RenewalIsPaid ==
  \A o \in Options : /\ extended[o] <= Cardinality(charged[o])
                     /\ booked[o] <= Cardinality(charged[o])

\* A subscription past its date is one on which a run failed: any other was
\* renewed or dropped on its day, whatever the user switched meanwhile.
OverdueHasCause ==
  \A o \in Options :
    Present(o) /\ expDate[o] <= today /\ job[o] = Idle => o \in missed
=============================================================================
