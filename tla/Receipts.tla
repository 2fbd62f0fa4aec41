------------------------------ MODULE Receipts ------------------------------
(***************************************************************************)
(* How the receipt of a charge reaches its trip.  The tail of tripEnd in   *)
(* src/src/trip-process/trip-process.service.ts drops the trip from the    *)
(* cache, fetches the packets of the scooter and only then stores the      *)
(* transaction id; the webhook of src/src/acquiring/acquiring.controller.ts*)
(* looks the trip up by that id and refuses until it is there.  A trip may *)
(* be ended by two calls at once, the rider's and the CRM's.               *)
(***************************************************************************)
CONSTANTS
  Trips,
  Ends,      \* calls of tripEnd, each of which names its transaction
  Hooks,     \* webhook handlers under way
  None

ReceiptsAssumption == None \notin Trips \cup Ends

VARIABLES
  end,      \* each call: where it stands and its trip
  cached,   \* the trips of the cache
  riding,   \* the trips with an ActiveTrip row
  stored,   \* Trip.paymentData.transactionId of each trip, or None
  url,      \* Trip.receiptUrl: the transaction it is the receipt of, or None
  gone,     \* the trips whose row was removed
  hook,     \* each handler: the transaction and the trip it found
  acked     \* the receipts whose webhook was answered

tripVars == <<cached, riding, stored, url, gone>>
vars     == <<end, tripVars, hook, acked>>

EndPcs  == {"new", "charged", "dropped", "fetched", "closing", "over"}
NoHook  == [tx |-> None, trip |-> None]
Charged == {e \in Ends : end[e].pc # "new"}
EndsOf(t) == {e \in Ends : end[e].trip = t}
EndedTwice(t) == \E e, f \in EndsOf(t) : e # f

Init ==
  /\ end = [e \in Ends |-> [pc |-> "new", trip |-> None]]
  /\ cached = Trips /\ riding = Trips
  /\ stored = [t \in Trips |-> None]
  /\ url = [t \in Trips |-> None]
  /\ gone = {}
  /\ hook = [k \in Hooks |-> NoHook]
  /\ acked = {}

(***************************************************************************)
(* The tail of tripEnd                                                     *)
(***************************************************************************)
EndGoto(e, from, to) ==
  /\ end[e].pc = from
  /\ end' = [end EXCEPT ![e].pc = to]

\* The call found the trip in the cache and has charged its rider since.
Charge(e, t) ==
  /\ end[e].pc = "new" /\ t \in cached
  /\ end' = [end EXCEPT ![e] = [pc |-> "charged", trip |-> t]]
  /\ UNCHANGED <<tripVars, hook, acked>>

DropTrip(e) ==
  /\ EndGoto(e, "charged", "dropped")
  /\ cached' = cached \ {end[e].trip}
  /\ UNCHANGED <<riding, stored, url, gone, hook, acked>>

\* Without the packets the call ends here: the id is never stored.
FetchPackets(e) ==
  /\ EndGoto(e, "dropped", "fetched") \/ EndGoto(e, "dropped", "over")
  /\ UNCHANGED <<tripVars, hook, acked>>

\* Mutant: the id of the trip is stored instead.
StoreTripId(e) ==
  /\ EndGoto(e, "fetched", "closing")
  /\ stored' \in {stored, [stored EXCEPT ![end[e].trip] =
                             IF end[e].trip \in gone THEN @ ELSE end[e].trip]}
  /\ UNCHANGED <<cached, riding, url, gone, hook, acked>>

\* A failure becomes a text in the answer.
StoreTransaction(e) ==
  /\ EndGoto(e, "fetched", "closing")
  /\ stored' \in {stored, [stored EXCEPT ![end[e].trip] =
                             IF end[e].trip \in gone THEN @ ELSE e]}
  /\ UNCHANGED <<cached, riding, url, gone, hook, acked>>

\* The row of the running trip goes without being waited for.
DeleteActiveTrip(e) ==
  /\ EndGoto(e, "closing", "over")
  /\ riding' \in {riding, riding \ {end[e].trip}}
  /\ UNCHANGED <<cached, stored, url, gone, hook, acked>>

EndNext(e) ==
  \/ \E t \in Trips : Charge(e, t)
  \/ DropTrip(e) \/ FetchPackets(e) \/ StoreTransaction(e) \/ DeleteActiveTrip(e)

(***************************************************************************)
(* The webhook of the receipt                                              *)
(***************************************************************************)
\* Mutant: a receipt without a trip is answered like any other.
LookUpAnyway(k, x) ==
  /\ hook[k] = NoHook /\ x \in Charged \ acked
  /\ \/ \E t \in Trips : /\ stored[t] = x
                         /\ hook' = [hook EXCEPT ![k] = [tx |-> x, trip |-> t]]
                         /\ UNCHANGED acked
     \/ /\ \A t \in Trips : stored[t] # x
        /\ acked' = acked \cup {x}
        /\ UNCHANGED hook
  /\ UNCHANGED <<end, tripVars>>

\* Mutant: any trip that has been paid will do.
LookUpPaid(k, x) ==
  /\ hook[k] = NoHook /\ x \in Charged \ acked
  /\ \E t \in Trips : /\ stored[t] # None
                      /\ hook' = [hook EXCEPT ![k] = [tx |-> x, trip |-> t]]
  /\ UNCHANGED <<end, tripVars, acked>>

\* getEntityWhereTransactonIdEqual: without a trip the webhook is refused,
\* which changes nothing, and CloudPayments repeats it.
LookUp(k, x) ==
  /\ hook[k] = NoHook /\ x \in Charged \ acked
  /\ \E t \in Trips : /\ stored[t] = x
                      /\ hook' = [hook EXCEPT ![k] = [tx |-> x, trip |-> t]]
  /\ UNCHANGED <<end, tripVars, acked>>

\* updateEntityWhereTransactionIdEqual writes by the id of the trip.
Attach(k) ==
  LET t == hook[k].trip IN
  /\ hook[k] # NoHook /\ t \notin gone
  /\ url' = [url EXCEPT ![t] = hook[k].tx]
  /\ acked' = acked \cup {hook[k].tx}
  /\ hook' = [hook EXCEPT ![k] = NoHook]
  /\ UNCHANGED <<end, cached, riding, stored, gone>>

AttachFail(k) ==
  /\ hook[k] # NoHook
  /\ hook' = [hook EXCEPT ![k] = NoHook]
  /\ UNCHANGED <<end, tripVars, acked>>

\* TripService.remove
RemoveTrip(t) ==
  /\ t \notin gone
  /\ gone' = gone \cup {t}
  /\ stored' = [stored EXCEPT ![t] = None]
  /\ url' = [url EXCEPT ![t] = None]
  /\ UNCHANGED <<end, cached, riding, hook, acked>>

Crash ==
  /\ end' = [e \in Ends |-> IF end[e].pc = "new" THEN end[e]
                            ELSE [end[e] EXCEPT !.pc = "over"]]
  /\ hook' = [k \in Hooks |-> NoHook]
  /\ UNCHANGED <<tripVars, acked>>

Next ==
  \/ \E e \in Ends : EndNext(e)
  \/ \E k \in Hooks : (\E x \in Ends : LookUp(k, x)) \/ Attach(k) \/ AttachFail(k)
  \/ \E t \in Trips : RemoveTrip(t)
  \/ Crash

Spec == Init /\ [][Next]_vars

\* CloudPayments repeats a webhook until it is answered, and not every handler
\* fails.
Fairness ==
  /\ \A x \in Ends : SF_vars(\E k \in Hooks : LookUp(k, x))
  /\ \A k \in Hooks : SF_vars(Attach(k))

FairSpec == Spec /\ Fairness

(***************************************************************************)
(* Properties.                                                             *)
(***************************************************************************)
TypeOK ==
  /\ end \in [Ends -> [pc : EndPcs, trip : Trips \cup {None}]]
  /\ cached \subseteq Trips /\ riding \subseteq Trips /\ gone \subseteq Trips
  /\ stored \in [Trips -> Ends \cup {None}]
  /\ url \in [Trips -> Ends \cup {None}]
  /\ hook \in [Hooks -> [tx : Ends \cup {None}, trip : Trips \cup {None}]]
  /\ acked \subseteq Ends

\* A trip shows the receipt of a charge of that very trip, however late the
\* webhook writes (updateEntityWhereTransactionIdEqual), and it is the charge
\* the row names unless two calls ended the trip.
ReceiptOfOwnCharge ==
  \A t \in Trips : url[t] # None =>
    /\ url[t] \in EndsOf(t)
    /\ url[t] = stored[t] \/ EndedTwice(t)

\* Once the row names its transaction, its receipt arrives, though the webhook
\* came too early and was refused, or its handler died; only the removal of the
\* row or a second end of the trip prevents it.
ReceiptArrives ==
  \A t \in Trips, x \in Ends :
    stored[t] = x ~> url[t] = x \/ stored[t] # x \/ EndedTwice(t)
=============================================================================
