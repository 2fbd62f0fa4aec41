--------------------------- MODULE PaymentMethods ---------------------------
(***************************************************************************)
(* src/src/payment-method/payment-method.service.ts and the webhooks of    *)
(* src/src/acquiring/acquiring.controller.ts: how the cards of one user    *)
(* get bound, and which of them a charge uses.                             *)
(*                                                                         *)
(* YooKassa: the row is created inactive before the user pays, and the     *)
(* webhook confirms it and removes an older row of the same card.          *)
(* CloudPayments: the webhook of a hold of 10 rubles creates the row, and  *)
(* the handler then voids the hold.  Both gateways may deliver a webhook   *)
(* late, repeatedly and in parallel.                                       *)
(***************************************************************************)
EXTENDS Naturals, FiniteSets

CONSTANTS
  Yoo, Cloud,   \* the PaymentMethod rows of the user, by gateway
  Foreign,      \* rows of other users
  Cards,
  Calls,        \* handlers under way
  NoMethod, NoCard

Methods == Yoo \cup Cloud

ASSUME PaymentMethodsAssumption ==
  /\ Yoo \cap Cloud = {} /\ Methods \cap Foreign = {}
  /\ NoMethod \notin Methods \cup Foreign
  /\ NoCard \notin Cards

VARIABLES
  state,      \* of each row
  paidWith,   \* the card the user typed in for each row, or NoCard
  card,       \* the card that each row shows, or NoCard
  hold,       \* of each row of CloudPayments: none, held, voided
  active,     \* User.activePaymentMethod
  call,       \* each handler: where it stands, its row, a second row, a finding
  bound,      \* the cards of the rows that ever became active
  overlapped  \* the cards of which two rows were confirmed side by side

rowVars == <<state, paidWith, card, hold, active>>
vars    == <<rowVars, call, bound, overlapped>>

CallPcs == {"idle", "found", "updated", "duplicate", "deleted",
            "sought", "created", "agreed", "asked", "paying"}

Idle == [pc |-> "idle", m |-> NoMethod, other |-> NoMethod, any |-> FALSE]

Init ==
  /\ state = [m \in Methods |-> "absent"]
  /\ paidWith = [m \in Methods |-> NoCard]
  /\ card = [m \in Methods |-> NoCard]
  /\ hold = [m \in Cloud |-> "none"]
  /\ active = NoMethod
  /\ call = [k \in Calls |-> Idle]
  /\ bound = {} /\ overlapped = {}

Present(m) == state[m] \in {"inactive", "active"}

Goto(k, from, to) ==
  /\ call[k].pc = from
  /\ call' = [call EXCEPT ![k].pc = to]

Return(k, from) ==
  /\ call[k].pc = from
  /\ call' = [call EXCEPT ![k] = Idle]

(***************************************************************************)
(* YooKassa                                                                *)
(***************************************************************************)
\* savePaymentMethod: the row of a payment that its webhook will confirm.
SavePaymentMethod(m, c) ==
  /\ state' = [state EXCEPT ![m] = "inactive"]
  /\ paidWith' = [paidWith EXCEPT ![m] = c]

\* saveAcquiringMethod: YooKassa opens the payment, the row is created, and the
\* user gets the page to pay on only with the answer.
SaveMethod(m, c) ==
  /\ m \in Yoo /\ paidWith[m] = NoCard
  /\ SavePaymentMethod(m, c)
  /\ UNCHANGED <<card, hold, active, call, bound, overlapped>>

\* agreementPaymentMethodPhase.  A webhook whose row is gone throws.
ConfirmFind(k, m) ==
  /\ m \in Yoo /\ Present(m)
  /\ call[k].pc = "idle"
  /\ call' = [call EXCEPT ![k] = [Idle EXCEPT !.pc = "found", !.m = m]]
  /\ UNCHANGED <<rowVars, bound, overlapped>>

\* Another handler is between the update and the deletion for the same card.
Overlaps(k) ==
  \E l \in Calls \ {k} : /\ call[l].pc \in {"updated", "duplicate"}
                         /\ call[l].m # call[k].m
                         /\ paidWith[call[l].m] = paidWith[call[k].m]

ConfirmUpdate(k) ==
  LET m == call[k].m IN
  /\ Goto(k, "found", "updated")
  /\ Present(m)
  /\ state' = [state EXCEPT ![m] = "active"]
  /\ card' = [card EXCEPT ![m] = paidWith[m]]
  /\ bound' = bound \cup {paidWith[m]}
  /\ overlapped' = IF Overlaps(k) THEN overlapped \cup {paidWith[m]} ELSE overlapped
  /\ UNCHANGED <<paidWith, hold, active>>

\* The update fails: the row was deleted meanwhile, or the database failed.
ConfirmFail(k) ==
  /\ Return(k, "found")
  /\ UNCHANGED <<rowVars, bound, overlapped>>

SameCard(m) == {n \in Methods : Present(n) /\ card[n] = paidWith[m]}

\* Mutant: the row just confirmed counts as an older one too.
ConfirmListOwn(k) ==
  LET m == call[k].m IN
  /\ call[k].pc = "updated"
  /\ \/ SameCard(m) = {} /\ call' = [call EXCEPT ![k] = Idle]
     \/ \E n \in SameCard(m) :
          call' = [call EXCEPT ![k].pc = "duplicate", ![k].other = n]
  /\ UNCHANGED <<rowVars, bound, overlapped>>

\* checkIsCardAlreadyExist: the list comes in no particular order, and the
\* first row of the card counts, be it the one just confirmed.
ConfirmList(k) ==
  LET m == call[k].m IN
  /\ call[k].pc = "updated"
  /\ \/ /\ SameCard(m) \subseteq {m} \/ m \in SameCard(m)
        /\ call' = [call EXCEPT ![k] = Idle]
     \/ \E n \in SameCard(m) \ {m} :
          call' = [call EXCEPT ![k].pc = "duplicate", ![k].other = n]
  /\ UNCHANGED <<rowVars, bound, overlapped>>

\* The deletion of the older row; its failure is logged.
ConfirmDelete(k) ==
  /\ Goto(k, "duplicate", "deleted")
  /\ state' \in {state, [state EXCEPT ![call[k].other] =
                           IF Present(call[k].other) THEN "deleted" ELSE @]}
  /\ UNCHANGED <<paidWith, card, hold, active, bound, overlapped>>

ConfirmActivate(k) ==
  /\ Return(k, "deleted")
  /\ active' \in {active, call[k].m}
  /\ UNCHANGED <<state, paidWith, card, hold, bound, overlapped>>

(***************************************************************************)
(* CloudPayments                                                           *)
(***************************************************************************)
\* createAuthorizedPaymentMethod: 10 rubles, not captured yet.
Reserve(m, c) ==
  /\ hold' = [hold EXCEPT ![m] = "held"]
  /\ paidWith' = [paidWith EXCEPT ![m] = c]

\* createPaymentMethodCloudPayments: the server keeps nothing of the order.
Order(m, c) ==
  /\ m \in Cloud /\ hold[m] = "none"
  /\ Reserve(m, c)
  /\ UNCHANGED <<state, card, active, call, bound, overlapped>>

\* cassirPaymentInfo, agreementPaymentMehodCloudPayments: the webhook comes
\* once or more, and any row of the user counts, confirmed or not.
BindSeek(k, m) ==
  /\ m \in Cloud /\ hold[m] # "none"
  /\ call[k].pc = "idle"
  /\ call' = [call EXCEPT ![k] =
       [Idle EXCEPT !.pc = "sought", !.m = m, !.any = \E n \in Methods : Present(n)]]
  /\ UNCHANGED <<rowVars, bound, overlapped>>

\* Mutant: a create that fails ends the handler.
BindCreateStrict(k) ==
  LET m == call[k].m IN
  /\ \/ /\ Goto(k, "sought", "created")
        /\ ~Present(m)
        /\ state' = [state EXCEPT ![m] = "active"]
        /\ card' = [card EXCEPT ![m] = paidWith[m]]
        /\ bound' = bound \cup {paidWith[m]}
     \/ /\ Return(k, "sought")
        /\ UNCHANGED <<state, card, bound>>
  /\ UNCHANGED <<paidWith, hold, active, overlapped>>

\* The token is unique, so a repeat creates nothing; nor does a failure.  Both
\* are logged, and the handler goes on to the void.
BindCreate(k) ==
  LET m == call[k].m IN
  /\ \/ /\ Goto(k, "sought", "created")
        /\ ~Present(m)
        /\ state' = [state EXCEPT ![m] = "active"]
        /\ card' = [card EXCEPT ![m] = paidWith[m]]
        /\ bound' = bound \cup {paidWith[m]}
     \/ /\ Goto(k, "sought", "agreed")
        /\ UNCHANGED <<state, card, bound>>
  /\ UNCHANGED <<paidWith, hold, active, overlapped>>

\* The first row of the user becomes the active one; a failure is logged.
BindActivate(k) ==
  /\ Goto(k, "created", "agreed")
  /\ active' \in IF call[k].any THEN {active} ELSE {active, call[k].m}
  /\ UNCHANGED <<state, paidWith, card, hold, bound, overlapped>>

BindVoid(k) ==
  /\ Return(k, "agreed")
  /\ hold' = [hold EXCEPT ![call[k].m] = "voided"]
  /\ UNCHANGED <<state, paidWith, card, active, bound, overlapped>>

\* findCurrentFranchise or voidPayment throws.
BindFail(k) ==
  /\ Return(k, "agreed")
  /\ UNCHANGED <<rowVars, bound, overlapped>>

(***************************************************************************)
(* The use of the methods                                                  *)
(***************************************************************************)
\* UserService.update with any number.
Choose(m) ==
  /\ active' = m
  /\ UNCHANGED <<state, paidWith, card, hold, call, bound, overlapped>>

\* getActivePaymentMethod: the user is read, then the row.
Ask(k) ==
  /\ call[k].pc = "idle" /\ active # NoMethod
  /\ call' = [call EXCEPT ![k] = [Idle EXCEPT !.pc = "asked", !.m = active]]
  /\ UNCHANGED <<rowVars, bound, overlapped>>

\* Mutant: an unconfirmed row will do.
GetUnconfirmed(k) ==
  /\ Goto(k, "asked", "paying")
  /\ call[k].m \in Methods /\ Present(call[k].m)
  /\ UNCHANGED <<rowVars, bound, overlapped>>

Get(k) ==
  /\ Goto(k, "asked", "paying")
  /\ call[k].m \in Methods /\ state[call[k].m] = "active"
  /\ UNCHANGED <<rowVars, bound, overlapped>>

GetRefuse(k) ==
  /\ Return(k, "asked")
  /\ ~(call[k].m \in Methods /\ state[call[k].m] = "active")
  /\ UNCHANGED <<rowVars, bound, overlapped>>

Paid(k) ==
  /\ Return(k, "paying")
  /\ UNCHANGED <<rowVars, bound, overlapped>>

Crash ==
  /\ call' = [k \in Calls |-> Idle]
  /\ UNCHANGED <<rowVars, bound, overlapped>>

CallNext(k) ==
  \/ \E m \in Methods : ConfirmFind(k, m) \/ BindSeek(k, m)
  \/ ConfirmUpdate(k) \/ ConfirmFail(k) \/ ConfirmList(k)
  \/ ConfirmDelete(k) \/ ConfirmActivate(k)
  \/ BindCreate(k) \/ BindActivate(k) \/ BindVoid(k) \/ BindFail(k)
  \/ Ask(k) \/ Get(k) \/ GetRefuse(k) \/ Paid(k)

Next ==
  \/ \E k \in Calls : CallNext(k)
  \/ \E m \in Methods, c \in Cards : SaveMethod(m, c) \/ Order(m, c)
  \/ \E m \in Methods \cup Foreign : Choose(m)
  \/ Crash

Spec == Init /\ [][Next]_vars

\* What a handler does next, whatever comes of it.
Proceed(k) ==
  \/ ConfirmUpdate(k) \/ ConfirmFail(k) \/ ConfirmList(k)
  \/ ConfirmDelete(k) \/ ConfirmActivate(k)
  \/ Get(k) \/ GetRefuse(k) \/ Paid(k)

\* CloudPayments repeats the webhook of a hold until the handler succeeds.
\* Handlers go on unless the process ends, and neither that nor a failing void
\* happens every time.
Fairness ==
  /\ \A m \in Cloud : SF_vars(hold[m] = "held" /\ \E k \in Calls : BindSeek(k, m))
  /\ \A k \in Calls :
       /\ SF_vars(BindCreate(k)) /\ SF_vars(BindActivate(k)) /\ SF_vars(BindVoid(k))
       /\ WF_vars(Proceed(k))

FairSpec == Spec /\ Fairness

(***************************************************************************)
(* Properties.                                                             *)
(***************************************************************************)
TypeOK ==
  /\ state \in [Methods -> {"absent", "inactive", "active", "deleted"}]
  /\ paidWith \in [Methods -> Cards \cup {NoCard}]
  /\ card \in [Methods -> Cards \cup {NoCard}]
  /\ hold \in [Cloud -> {"none", "held", "voided"}]
  /\ active \in Methods \cup Foreign \cup {NoMethod}
  /\ call \in [Calls -> [pc : CallPcs, m : Methods \cup Foreign \cup {NoMethod},
                         other : Methods \cup {NoMethod}, any : BOOLEAN]]
  /\ bound \subseteq Cards /\ overlapped \subseteq Cards

\* A charge is made with a row of this user that a gateway has confirmed,
\* whatever number the profile form wrote (getActivePaymentMethod).  It may
\* have been removed since, never unconfirmed.
PaysWithConfirmedOwn ==
  \A k \in Calls : call[k].pc = "paying" =>
    /\ call[k].m \in Methods
    /\ state[call[k].m] \in {"active", "deleted"}
    /\ card[call[k].m] \in Cards

\* A card once bound can be paid with from then on: the removal of the older
\* row of a card (checkIsCardAlreadyExist) leaves the newer one, however often
\* its webhooks come.  Only two rows of one card that are confirmed side by
\* side can remove each other.
BoundStaysPayable ==
  \A c \in bound \ overlapped : \E m \in Methods : state[m] = "active" /\ card[m] = c

\* The 10 rubles held to bind a card are given back, though handlers die
\* between the row and the void: the repeat of the webhook, which finds the
\* token taken, goes on to the void all the same.
HoldIsReleased == \A m \in Cloud : hold[m] = "held" ~> hold[m] = "voided"
=============================================================================
