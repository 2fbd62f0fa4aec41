----------------------------- MODULE MCProgress -----------------------------
(***************************************************************************)
(* What must happen at last in PaymentMethods, and beside it in            *)
(* Promocodes and Receipts.  They share no state: a behaviour runs one of  *)
(* them, named by part, and the others stay at their start.  Of            *)
(* PaymentMethods there are two kinds: a row of each gateway and two of    *)
(* YooKassa.                                                               *)
(***************************************************************************)
EXTENDS PaymentMethods

CONSTANTS
  a, b,    \* the members of every set
  y1, y2   \* the rows of YooKassa

VARIABLES
  part,
  status, sum, usedBy, expired, archiving, bonuses, booked, use, raced,
  end, cached, riding, stored, url, gone, hook, acked

Two == {a, b}

Codes == INSTANCE Promocodes WITH
  Users <- {a}, Rows <- Two, Calls <- {a}, Sums <- {1}, NoUser <- NoCard, NoRow <- NoCard,
  call <- use, overlapped <- raced

Receipt == INSTANCE Receipts WITH
  Trips <- {a}, Ends <- Two, Hooks <- Two, None <- NoCard

codeVars    == <<status, sum, usedBy, expired, archiving, bonuses, booked, use, raced>>
receiptVars == <<end, cached, riding, stored, url, gone, hook, acked>>
allVars     == <<part, vars, codeVars, receiptVars>>

RunInit ==
  /\ part \in {"gateways", "twins", "codes", "receipts"}
  /\ Init /\ Codes!Init /\ Receipt!Init

\* A step A of one part is no step of the others.
MethodStep(A) ==
  part \in {"gateways", "twins"} /\ A /\ UNCHANGED <<part, codeVars, receiptVars>>
CodeStep(A)    == part = "codes" /\ A /\ UNCHANGED <<part, vars, receiptVars>>
ReceiptStep(A) == part = "receipts" /\ A /\ UNCHANGED <<part, vars, codeVars>>

\* The row that is not of the kind is not made.
MethodNext == Next /\ IF part = "twins" THEN hold' = hold ELSE paidWith'[y2] = NoCard

RunNext ==
  MethodStep(MethodNext) \/ CodeStep(Codes!Next) \/ ReceiptStep(Receipt!Next)

(***************************************************************************)
(* The fairness of the FairSpecs.  Since part never changes, fairness of a *)
(* disjunction with one action of each part is that of the action whose    *)
(* part runs.                                                              *)
(***************************************************************************)
Goes(x) ==
  \/ MethodStep(Proceed(x))
  \/ x = a /\ CodeStep(Codes!JobFind)

\* A webhook is repeated until it is taken up.
Repeats(x) ==
  \/ MethodStep(x \in Cloud /\ hold[x] = "held" /\ \E k \in Calls : BindSeek(k, x))
  \/ ReceiptStep(\E k \in Two : Receipt!LookUp(k, x))

\* The writes of a handler or of a run of the job do not always fail.
Writes(x) ==
  \/ MethodStep(BindCreate(x))
  \/ CodeStep(Codes!JobArchive(x))
  \/ ReceiptStep(Receipt!Attach(x))

RunSpec ==
  /\ RunInit /\ [][RunNext]_allVars
  /\ \A x \in Two :
       /\ WF_allVars(Goes(x)) /\ SF_allVars(Repeats(x)) /\ SF_allVars(Writes(x))
       /\ SF_allVars(MethodStep(BindActivate(x))) /\ SF_allVars(MethodStep(BindVoid(x)))

(***************************************************************************)
(* Properties.  A part that does not run satisfies its own at its start.   *)
(***************************************************************************)
\* A row that is past its end and stays so is archived again and again, however
\* often the CRM makes it active, another row of the run fails or the process
\* ends in the middle of a run (checkPromoExp).
ExpiredIsArchived == Codes!ExpiredIsArchived

\* Once the row names its transaction, its receipt arrives, though the webhook
\* came too early and was refused, or its handler died; only the removal of the
\* row or a second end of the trip prevents it.
ReceiptArrives == Receipt!ReceiptArrives
=============================================================================
