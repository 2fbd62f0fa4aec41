----------------------------- MODULE MobileAuth -----------------------------
(***************************************************************************)
(* Signing in from the mobile application: authMobile and                  *)
(* confirmMobileAuth of src/src/auth/auth.service.ts over the cache of     *)
(* sessions, and the users of src/src/user/user.service.ts that they find  *)
(* or create, that edit their profile and delete their accounts.           *)
(*                                                                         *)
(* A session belongs to a device and lasts 50 seconds; a code is named by  *)
(* the call it was dictated in.  Sign-in looks for a user by his phone     *)
(* alone, so his status is left out: a deleted account is one whose phone  *)
(* was renamed to Gone, and a profile form may write a phone there again.  *)
(***************************************************************************)
EXTENDS Naturals, Sequences

CONSTANTS
  Devices,   \* fingerprints
  Phones, Emails,
  Users,     \* the rows that may be created
  Requests,  \* handlers under way
  MaxCalls,  \* bound of the flash calls
  Gone,      \* the renamed phone of a deleted account
  None

MaxRequests == 3

MobileAuthAssumption ==
  /\ MaxCalls \in Nat
  /\ None \notin Phones \cup Emails \cup Users \cup Devices \cup {Gone}
  /\ Gone \notin Phones

VARIABLES
  session,   \* ClientFingerPrint of each device
  req,       \* each handler
  calls,     \* the phones called, in order
  phone,     \* of each user, or None without a row
  email,     \* of each user, or None
  typed,     \* the phones that a profile form wrote
  rung,      \* the calls answered to the handlers of each device in its session
  lapped,    \* the devices with two requests at once in a session
  raced      \* the phones and emails on which two handlers worked at once

userVars == <<phone, email, typed>>
vars == <<session, req, calls, userVars, rung, lapped, raced>>

NoSession == [phone |-> None, code |-> 0, count |-> 0]
Idle == [pc |-> "idle", device |-> None, user |-> None, what |-> None, number |-> None,
         seen |-> 0, code |-> 0]
Pcs == {"idle", "calling", "called", "confirmed", "creating", "checked"}

Created(u)  == phone[u] # None
OwnerOf(p)  == {u \in Users : phone[u] = p}
HolderOf(e) == {u \in Users : email[u] = e}

Init ==
  /\ session = [d \in Devices |-> NoSession]
  /\ req = [k \in Requests |-> Idle]
  /\ calls = <<>>
  /\ phone = [u \in Users |-> None] /\ email = [u \in Users |-> None] /\ typed = {}
  /\ rung = [d \in Devices |-> 0] /\ lapped = {} /\ raced = {}

Begin(k, r)  == req[k] = Idle /\ req' = [req EXCEPT ![k] = r]
Goto(k, from, to) == req[k].pc = from /\ req' = [req EXCEPT ![k].pc = to]
Return(k, from)   == req[k].pc = from /\ req' = [req EXCEPT ![k] = Idle]

Calling(d) == {k \in Requests : req[k].pc \in {"calling", "called"} /\ req[k].device = d}

(***************************************************************************)
(* authMobile                                                              *)
(***************************************************************************)
\* Mutant: a session that had its three calls may ask again.
AskReadAgain(k, d, p) ==
  /\ Begin(k, [Idle EXCEPT !.pc = "calling", !.device = d, !.what = p,
                           !.seen = session[d].count])
  /\ lapped' = IF Calling(d) # {} THEN lapped \cup {d} ELSE lapped
  /\ UNCHANGED <<session, calls, userVars, rung, raced>>

AskRead(k, d, p) ==
  /\ session[d].count # MaxRequests
  /\ Begin(k, [Idle EXCEPT !.pc = "calling", !.device = d, !.what = p,
                           !.seen = session[d].count])
  /\ lapped' = IF Calling(d) # {} THEN lapped \cup {d} ELSE lapped
  /\ UNCHANGED <<session, calls, userVars, rung, raced>>

\* sendCode: the provider chooses the code and answers with it.
AskCall(k) ==
  /\ Len(calls) < MaxCalls
  /\ req[k].pc = "calling"
  /\ calls' = Append(calls, req[k].what)
  /\ rung' = [rung EXCEPT ![req[k].device] = @ + 1]
  /\ req' = [req EXCEPT ![k].pc = "called", ![k].code = Len(calls) + 1]
  /\ UNCHANGED <<session, userVars, lapped, raced>>

\* Without an answer the handler ends before the session is written, whether
\* the phone rang or not: that call is counted nowhere.
AskFail(k) ==
  /\ Return(k, "calling")
  /\ \/ calls' = calls
     \/ Len(calls) < MaxCalls /\ calls' = Append(calls, req[k].what)
  /\ UNCHANGED <<session, userVars, rung, lapped, raced>>

\* Mutant: the count is that of the session as read.
AskStoreUncounted(k) ==
  /\ Return(k, "called")
  /\ session' = [session EXCEPT ![req[k].device] =
       [phone |-> req[k].what, code |-> req[k].code,
        count |-> IF req[k].seen = 0 THEN 1 ELSE req[k].seen]]
  /\ UNCHANGED <<calls, userVars, rung, lapped, raced>>

\* Mutant: the session keeps the phone it was opened with.
AskStorePhone(k) ==
  LET d == req[k].device IN
  /\ Return(k, "called")
  /\ session' = [session EXCEPT ![d] =
       [phone |-> IF @.phone = None THEN req[k].what ELSE @.phone,
        code |-> req[k].code, count |-> req[k].seen + 1]]
  /\ UNCHANGED <<calls, userVars, rung, lapped, raced>>

\* The session is written anew from what was read before the call.
AskStore(k) ==
  /\ Return(k, "called")
  /\ session' = [session EXCEPT ![req[k].device] =
       [phone |-> req[k].what, code |-> req[k].code, count |-> req[k].seen + 1]]
  /\ UNCHANGED <<calls, userVars, rung, lapped, raced>>

\* The cache drops the session, whatever handler works on what it read there.
Expire(d) ==
  /\ session[d] # NoSession
  /\ session' = [session EXCEPT ![d] = NoSession]
  /\ rung' = [rung EXCEPT ![d] = 0]
  /\ lapped' = IF \E k, l \in Calling(d) : k # l THEN lapped ELSE lapped \ {d}
  /\ UNCHANGED <<req, calls, userVars, raced>>

(***************************************************************************)
(* confirmMobileAuth and UserService.create                                *)
(***************************************************************************)
Confirm(k, d, c) ==
  /\ session[d] # NoSession /\ session[d].code = c
  /\ Begin(k, [Idle EXCEPT !.pc = "confirmed", !.device = d, !.what = session[d].phone])
  /\ UNCHANGED <<session, calls, userVars, rung, lapped, raced>>

\* authorizeMobileTestCase
AuthorizeTest(k, p) ==
  /\ Begin(k, [Idle EXCEPT !.pc = "confirmed", !.what = p])
  /\ UNCHANGED <<session, calls, userVars, rung, lapped, raced>>

\* Mutant: the user is always a new one.
FindNobody(k) ==
  /\ Goto(k, "confirmed", "creating")
  /\ UNCHANGED <<session, calls, userVars, rung, lapped, raced>>

\* The user who is found gets his token, which changes nothing.
FindUser(k) ==
  /\ \/ OwnerOf(req[k].what) # {} /\ Return(k, "confirmed")
     \/ OwnerOf(req[k].what) = {} /\ Goto(k, "confirmed", "creating")
  /\ UNCHANGED <<session, calls, userVars, rung, lapped, raced>>

Beside(k, pc) == \E l \in Requests \ {k} : req[l].pc = pc /\ req[l].what = req[k].what

\* The id of a removed row is not given again while a handler refers to it.
CreateUser(k) ==
  /\ Return(k, "creating")
  /\ \E u \in Users :
       /\ ~Created(u) /\ \A l \in Requests : req[l].user # u
       /\ phone' = [phone EXCEPT ![u] = req[k].what]
  /\ raced' = IF Beside(k, "creating") THEN raced \cup {req[k].what} ELSE raced
  /\ UNCHANGED <<session, calls, email, typed, rung, lapped>>

CreateFail(k) ==
  /\ Return(k, "creating")
  /\ UNCHANGED <<session, calls, userVars, rung, lapped, raced>>

(***************************************************************************)
(* The profile                                                             *)
(***************************************************************************)
\* UserService.update, of a form with an address, a phone or both: the address
\* must be free, even of the user himself, and nobody looks for the phone.
ProfileCheck(k, u, e, p) ==
  /\ Created(u)
  /\ e # None => HolderOf(e) = {}
  /\ Begin(k, [Idle EXCEPT !.pc = "checked", !.user = u, !.what = e, !.number = p])
  /\ UNCHANGED <<session, calls, userVars, rung, lapped, raced>>

\* The whole form is written as it came.
ProfileWrite(k) ==
  LET r == req[k]
      beside == r.what # None /\ Beside(k, "checked")
  IN
  /\ Return(k, "checked")
  /\ Created(r.user)
  /\ email' = IF r.what # None THEN [email EXCEPT ![r.user] = r.what] ELSE email
  /\ phone' = IF r.number # None THEN [phone EXCEPT ![r.user] = r.number] ELSE phone
  /\ typed' = typed \cup ({r.number} \ {None})
  /\ raced' = IF beside THEN raced \cup {r.what} ELSE raced
  /\ UNCHANGED <<session, calls, rung, lapped>>

\* The error of the write, of a removed row too, is caught.
ProfileFail(k) ==
  /\ Return(k, "checked")
  /\ UNCHANGED <<session, calls, userVars, rung, lapped, raced>>

\* The number is renamed with the status, so that it is free again.
DeleteUserAccount(u) ==
  /\ Created(u) /\ phone[u] # Gone
  /\ phone' = [phone EXCEPT ![u] = Gone]
  /\ UNCHANGED <<session, req, calls, email, typed, rung, lapped, raced>>

\* UserService.remove.
RemoveUser(u) ==
  /\ Created(u)
  /\ phone' = [phone EXCEPT ![u] = None] /\ email' = [email EXCEPT ![u] = None]
  /\ UNCHANGED <<session, req, calls, typed, rung, lapped, raced>>

RequestNext(k) ==
  \/ \E d \in Devices, p \in Phones : AskRead(k, d, p)
  \/ \E d \in Devices, c \in 1 .. MaxCalls : Confirm(k, d, c)
  \/ \E p \in Phones : AuthorizeTest(k, p)
  \/ \E u \in Users, e \in Emails \cup {None}, p \in Phones \cup {None} : ProfileCheck(k, u, e, p)
  \/ AskCall(k) \/ AskFail(k) \/ AskStore(k)
  \/ FindUser(k) \/ CreateUser(k) \/ CreateFail(k)
  \/ ProfileWrite(k) \/ ProfileFail(k)

Next ==
  \/ \E k \in Requests : RequestNext(k)
  \/ \E d \in Devices : Expire(d)
  \/ \E u \in Users : DeleteUserAccount(u) \/ RemoveUser(u)

Spec == Init /\ [][Next]_vars

(***************************************************************************)
(* Properties.                                                             *)
(***************************************************************************)
TypeOK ==
  /\ session \in [Devices -> [phone : Phones \cup {None}, code : 0 .. MaxCalls,
                              count : 0 .. MaxRequests]]
  /\ req \in [Requests -> [pc : Pcs, device : Devices \cup {None},
                           user : Users \cup {None}, what : Phones \cup Emails \cup {None},
                           number : Phones \cup {None},
                           seen : 0 .. MaxRequests, code : 0 .. MaxCalls]]
  /\ calls \in Seq(Phones) /\ Len(calls) <= MaxCalls
  /\ phone \in [Users -> Phones \cup {None, Gone}] /\ typed \subseteq Phones
  /\ email \in [Users -> Emails \cup {None}]
  /\ rung \in [Devices -> Nat] /\ lapped \subseteq Devices
  /\ raced \subseteq Phones \cup Emails

\* Whatever two requests of a device overwrite of each other, the code of a
\* session was dictated to the phone of that session (authMobile writes both).
CodeOfItsPhone ==
  \A d \in Devices : session[d] # NoSession => calls[session[d].code] = session[d].phone

\* A session gets three codes and no more, unless its requests overlapped: the
\* count is written after the answer from what was read before the call.  Calls
\* that rang while their answer was lost come on top: nothing counts them.
ThreeCalls == \A d \in Devices \ lapped : rung[d] <= MaxRequests

\* A phone has one account and an address one user, unless two handlers looked
\* for it side by side or a profile form wrote that phone: neither column is
\* unique, and the form is not checked for the phone.
OneAccount ==
  /\ \A p \in Phones \ (raced \cup typed) : \A u, v \in OwnerOf(p) : u = v
  /\ \A e \in Emails \ raced : \A u, v \in HolderOf(e) : u = v
=============================================================================
