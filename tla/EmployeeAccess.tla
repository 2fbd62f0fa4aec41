--------------------------- MODULE EmployeeAccess ---------------------------
(***************************************************************************)
(* The access of employees to the CRM: register, login, logout,            *)
(* refreshTokens, forgotPassword and resetPassword of                      *)
(* src/src/auth/auth.service.ts, and the accounts of                       *)
(* src/src/erp-user/erp-user.service.ts they work on.                      *)
(*                                                                         *)
(* A refresh token belongs to an employee and the agent he signed in with; *)
(* tokens and letters of reset are numbered in the order they are issued.  *)
(***************************************************************************)
EXTENDS Naturals, FiniteSets

CONSTANTS
  Employees,   \* the rows that may be created
  Emails, Agents,
  Requests,    \* handlers under way
  MaxTokens, MaxResets,   \* bounds of what is issued
  None

EmployeeAccessAssumption ==
  /\ MaxTokens \in Nat /\ MaxResets \in Nat
  /\ None \notin Employees \cup Emails \cup Agents

VARIABLES
  email,      \* of each employee, or None without an account
  tokens,     \* TokenErp: rows [id, user, agent, stale]
  issued,     \* the refresh tokens issued so far
  letter,     \* ForgotPasswordModel of each employee: [id, stale], or NoLetter
  written,    \* the letters written so far
  req,        \* each handler
  exchanged,  \* how often each token was exchanged for a new one
  resets,     \* how often the password was set with each letter
  told,       \* how often that was answered with success
  raced,      \* emails that two handlers, or a failed look, gave away
  overlapped, \* employee and agent with two grants at once
  loose       \* letters used twice at once, or whose deletion failed

accountVars == <<email, raced>>
tokenVars   == <<tokens, issued, exchanged, overlapped>>
letterVars  == <<letter, written, resets, told, loose>>
vars == <<accountVars, tokenVars, letterVars, req>>

TokenIds == 1 .. MaxTokens
LetterIds == 1 .. MaxResets
NoLetter == [id |-> 0, stale |-> FALSE]
Idle == [pc |-> "idle", user |-> None, what |-> None, seen |-> 0]
Pcs == {"idle", "creating", "granting", "upserting", "found",
        "dropping", "making", "resetting", "done"}

Holders(m)   == {e \in Employees : email[e] = m}
Exists(e)    == e \in Employees /\ email[e] # None
RowsOf(e, a) == {t \in tokens : t.user = e /\ t.agent = a}
Row(i)       == {t \in tokens : t.id = i}

Init ==
  /\ email = [e \in Employees |-> None]
  /\ tokens = {} /\ issued = 0
  /\ letter = [e \in Employees |-> NoLetter] /\ written = 0
  /\ req = [k \in Requests |-> Idle]
  /\ exchanged = [i \in TokenIds |-> 0]
  /\ resets = [r \in LetterIds |-> 0] /\ told = [r \in LetterIds |-> 0]
  /\ raced = {} /\ overlapped = {} /\ loose = {}

\* The counts of use stop at two, which is once too often.
MaxUses == 2
More(n)      == IF n < MaxUses THEN n + 1 ELSE n

At(k, pc)    == req[k].pc = pc
Begin(k, r)  == req[k] = Idle /\ req' = [req EXCEPT ![k] = r]
Goto(k, pc)  == req' = [req EXCEPT ![k].pc = pc]
Return(k)    == req' = [req EXCEPT ![k] = Idle]
Beside(k)    == \E l \in Requests \ {k} : req[l] = [req[k] EXCEPT !.seen = req[l].seen]

(***************************************************************************)
(* Accounts                                                                *)
(***************************************************************************)
\* Mutant: the address is not looked up.
RegisterUnlooked(k, m) ==
  /\ Begin(k, [Idle EXCEPT !.pc = "creating", !.what = m])
  /\ UNCHANGED <<accountVars, tokenVars, letterVars>>

\* findByEmail answers null for a failed query as for a free address.
RegisterFind(k, m) ==
  /\ Begin(k, [Idle EXCEPT !.pc = "creating", !.what = m])
  /\ \/ Holders(m) = {} /\ UNCHANGED raced
     \/ raced' = raced \cup {m}
  /\ UNCHANGED <<email, tokenVars, letterVars>>

\* The password is mailed first; the row is created then, or not.
RegisterCreate(k) ==
  /\ At(k, "creating") /\ Return(k)
  /\ raced' = IF Beside(k) THEN raced \cup {req[k].what} ELSE raced
  /\ \/ UNCHANGED email
     \/ \E e \in Employees : ~Exists(e) /\ email' = [email EXCEPT ![e] = req[k].what]
  /\ UNCHANGED <<tokenVars, letterVars>>

\* ErpUserService.update writes whatever address it is given.
UpdateEmail(e, m) ==
  /\ Exists(e)
  /\ email' = [email EXCEPT ![e] = m]
  /\ raced' = IF Holders(m) \subseteq {e} /\ \A k \in Requests : req[k].what # m
              THEN raced ELSE raced \cup {m}
  /\ UNCHANGED <<tokenVars, letterVars, req>>

\* Mutant: the tokens are left behind.
RemoveEmployeeOnly(e) ==
  /\ Exists(e) /\ letter[e] = NoLetter
  /\ email' = [email EXCEPT ![e] = None]
  /\ UNCHANGED <<raced, tokenVars, letterVars, req>>

\* remove and leaveUser: the tokens go with the row; a letter holds it.
RemoveEmployee(e) ==
  /\ Exists(e) /\ letter[e] = NoLetter
  /\ email' = [email EXCEPT ![e] = None]
  /\ tokens' = {t \in tokens : t.user # e}
  /\ UNCHANGED <<raced, issued, exchanged, overlapped, letterVars, req>>

(***************************************************************************)
(* Refresh tokens                                                          *)
(***************************************************************************)
Login(k, e, a) ==
  /\ Exists(e)
  /\ Begin(k, [Idle EXCEPT !.pc = "granting", !.user = e, !.what = a])
  /\ UNCHANGED <<accountVars, tokenVars, letterVars>>

Logout(i) ==
  /\ Row(i) # {} /\ tokens' = tokens \ Row(i)
  /\ UNCHANGED <<accountVars, issued, exchanged, overlapped, letterVars, req>>

RefreshFind(k, i, a) ==
  /\ Row(i) # {}
  /\ \E t \in Row(i) :
        Begin(k, [pc |-> "found", user |-> t.user, what |-> a, seen |-> i])
  /\ UNCHANGED <<accountVars, tokenVars, letterVars>>

\* Mutant: a row that is gone is no error.
RefreshDeleteQuietly(k) ==
  /\ At(k, "found")
  /\ tokens' = tokens \ Row(req[k].seen)
  /\ exchanged' = [exchanged EXCEPT ![req[k].seen] = More(@)]
  /\ Goto(k, "granting")
  /\ UNCHANGED <<accountVars, issued, overlapped, letterVars>>

\* The deletion throws if the row is gone; a stale token buys nothing more.
RefreshDelete(k) ==
  /\ At(k, "found")
  /\ \/ Row(req[k].seen) = {} /\ Return(k) /\ UNCHANGED <<tokens, exchanged>>
     \/ \E t \in Row(req[k].seen) :
          /\ tokens' = tokens \ {t}
          /\ \/ t.stale /\ Return(k) /\ UNCHANGED exchanged
             \/ /\ ~t.stale /\ Goto(k, "granting")
                /\ exchanged' = [exchanged EXCEPT ![t.id] = More(@)]
  /\ UNCHANGED <<accountVars, issued, overlapped, letterVars>>

\* Mutant: each grant has a row of its own.
TokenLookNot(k) ==
  /\ At(k, "granting") /\ Goto(k, "upserting")
  /\ UNCHANGED <<accountVars, tokenVars, letterVars>>

\* The first row of this employee and agent, if there is one.
TokenLook(k) ==
  LET rows == RowsOf(req[k].user, req[k].what) IN
  /\ At(k, "granting")
  /\ \E i \in IF rows = {} THEN {0} ELSE {t.id : t \in rows} :
       req' = [req EXCEPT ![k] = [@ EXCEPT !.pc = "upserting", !.seen = i]]
  /\ UNCHANGED <<accountVars, tokenVars, letterVars>>

\* The row seen gets a new token; if it is gone, or none was seen, a row is
\* created, which fails without the employee.
TokenUpsert(k) ==
  LET seen == Row(req[k].seen)
      pair == <<req[k].user, req[k].what>>
      t    == [id |-> issued + 1, user |-> req[k].user, agent |-> req[k].what, stale |-> FALSE]
  IN /\ At(k, "upserting") /\ Return(k)
     /\ IF seen = {} /\ ~Exists(req[k].user)
        THEN UNCHANGED <<tokens, issued>>
        ELSE /\ issued < MaxTokens
             /\ tokens' = (tokens \ seen) \cup {t}
             /\ issued' = issued + 1
     /\ overlapped' = IF Beside(k) THEN overlapped \cup {pair} ELSE overlapped
     /\ UNCHANGED <<accountVars, exchanged, letterVars>>

\* A month passes for a token.
TokenLapses(i) ==
  /\ \E t \in Row(i) : ~t.stale /\ tokens' = (tokens \ {t}) \cup {[t EXCEPT !.stale = TRUE]}
  /\ UNCHANGED <<accountVars, issued, exchanged, overlapped, letterVars, req>>

(***************************************************************************)
(* Letters of reset                                                        *)
(***************************************************************************)
\* generateResetToken: a live letter is sent again.
ForgotPassword(k, e) ==
  /\ Exists(e) /\ (letter[e] = NoLetter \/ letter[e].stale)
  /\ Begin(k, [Idle EXCEPT !.pc = IF letter[e].stale THEN "dropping" ELSE "making",
                           !.user = e, !.seen = letter[e].id])
  /\ UNCHANGED <<accountVars, tokenVars, letterVars>>

LetterIs(e, r) == r # 0 /\ letter[e].id = r

LetterDrop(k) ==
  /\ At(k, "dropping")
  /\ \/ /\ LetterIs(req[k].user, req[k].seen) /\ Goto(k, "making")
        /\ letter' = [letter EXCEPT ![req[k].user] = NoLetter]
     \/ ~LetterIs(req[k].user, req[k].seen) /\ Return(k) /\ UNCHANGED letter
  /\ UNCHANGED <<accountVars, tokenVars, written, resets, told, loose>>

\* userId is unique, and a foreign key.
LetterMake(k) ==
  LET e == req[k].user IN
  /\ At(k, "making") /\ Return(k)
  /\ \/ /\ Exists(e) /\ letter[e] = NoLetter /\ written < MaxResets
        /\ letter' = [letter EXCEPT ![e] = [id |-> written + 1, stale |-> FALSE]]
        /\ written' = written + 1
     \/ /\ ~Exists(e) \/ letter[e] # NoLetter
        /\ UNCHANGED <<letter, written>>
  /\ UNCHANGED <<accountVars, tokenVars, resets, told, loose>>

LetterLapses(e) ==
  /\ letter[e] # NoLetter /\ ~letter[e].stale
  /\ letter' = [letter EXCEPT ![e].stale = TRUE]
  /\ UNCHANGED <<accountVars, tokenVars, written, resets, told, loose, req>>

\* resetPassword: the letter is there, its employee too, and it is not stale.
ResetRead(k, e) ==
  /\ letter[e] # NoLetter /\ ~letter[e].stale
  /\ Begin(k, [Idle EXCEPT !.pc = "resetting", !.user = e, !.seen = letter[e].id])
  /\ loose' = IF \E l \in Requests : req[l].pc \in {"resetting", "done"} /\ req[l].seen = letter[e].id
              THEN loose \cup {letter[e].id} ELSE loose
  /\ UNCHANGED <<accountVars, tokenVars, letter, written, resets, told>>

ResetWrite(k) ==
  /\ At(k, "resetting")
  /\ \/ /\ Exists(req[k].user) /\ Goto(k, "done")
        /\ resets' = [resets EXCEPT ![req[k].seen] = More(@)]
     \/ ~Exists(req[k].user) /\ Return(k) /\ UNCHANGED resets
  /\ UNCHANGED <<accountVars, tokenVars, letter, written, told, loose>>

\* Mutant: the letter stays until it lapses.
ResetKeep(k) ==
  /\ At(k, "done") /\ Return(k)
  /\ told' = [told EXCEPT ![req[k].seen] = More(@)]
  /\ UNCHANGED <<accountVars, tokenVars, letter, written, resets, loose>>

\* The deletion throws if the letter is gone, and may fail: the password is set.
ResetDrop(k) ==
  /\ At(k, "done") /\ Return(k)
  /\ \/ /\ LetterIs(req[k].user, req[k].seen)
        /\ letter' = [letter EXCEPT ![req[k].user] = NoLetter]
        /\ told' = [told EXCEPT ![req[k].seen] = More(@)]
        /\ UNCHANGED loose
     \/ loose' = loose \cup {req[k].seen} /\ UNCHANGED <<letter, told>>
  /\ UNCHANGED <<accountVars, tokenVars, written, resets>>

RequestNext(k) ==
  \/ \E m \in Emails : RegisterFind(k, m)
  \/ \E e \in Employees, a \in Agents : Login(k, e, a)
  \/ \E i \in TokenIds, a \in Agents : RefreshFind(k, i, a)
  \/ \E e \in Employees : ForgotPassword(k, e) \/ ResetRead(k, e)
  \/ RegisterCreate(k) \/ RefreshDelete(k) \/ TokenLook(k) \/ TokenUpsert(k)
  \/ LetterDrop(k) \/ LetterMake(k) \/ ResetWrite(k) \/ ResetDrop(k)

Next ==
  \/ \E k \in Requests : RequestNext(k)
  \/ \E e \in Employees, m \in Emails : UpdateEmail(e, m)
  \/ \E e \in Employees : RemoveEmployee(e) \/ LetterLapses(e)
  \/ \E i \in TokenIds : Logout(i) \/ TokenLapses(i)

Spec == Init /\ [][Next]_vars

(***************************************************************************)
(* Properties.                                                             *)
(***************************************************************************)
\* Types, and the references of tokens and letters to their employees.
TypeOK ==
  /\ email \in [Employees -> Emails \cup {None}]
  /\ tokens \subseteq [id : TokenIds, user : Employees, agent : Agents, stale : BOOLEAN]
  /\ \A t \in tokens : Exists(t.user)
  /\ \A e \in Employees : letter[e] # NoLetter => Exists(e)
  /\ issued \in 0 .. MaxTokens /\ written \in 0 .. MaxResets
  /\ letter \in [Employees -> [id : 0 .. MaxResets, stale : BOOLEAN]]
  /\ req \in [Requests -> [pc : Pcs, user : Employees \cup {None},
                           what : Agents \cup Emails \cup {None},
                           seen : 0 .. MaxTokens + MaxResets]]
  /\ exchanged \in [TokenIds -> 0 .. MaxUses]
  /\ resets \in [LetterIds -> 0 .. MaxUses] /\ told \in [LetterIds -> 0 .. MaxUses]
  /\ raced \subseteq Emails /\ overlapped \subseteq Employees \X Agents
  /\ loose \subseteq LetterIds

\* A refresh token buys one pair of tokens, however many refreshes carry it
\* at once and whatever logins renew its row meanwhile (refreshTokens).
ExchangedOnce == \A i \in TokenIds : exchanged[i] <= 1

\* An employee has one row per agent, unless two grants to him overlapped
\* (getRefreshToken looks the row up before the upsert).
OneRowPerAgent ==
  \A t, u \in tokens :
    t.user = u.user /\ t.agent = u.agent => t = u \/ <<t.user, t.agent>> \in overlapped

\* A letter is answered with success once at most, and sets the password once,
\* unless it was used twice at once or its deletion failed (resetPassword).
ResetOnce ==
  \A r \in LetterIds : /\ told[r] <= 1 /\ told[r] <= resets[r]
                       /\ r \notin loose => resets[r] <= 1

\* Two employees with one address only after an update, a failed look or a race
\* gave it away.
AccountPerEmail ==
  \A e, f \in Employees : email[e] = email[f] => e = f \/ email[e] \in raced \cup {None}
=============================================================================
