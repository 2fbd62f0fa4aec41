---------------------------- MODULE MCBackOffice ----------------------------
(***************************************************************************)
(* Obligations, and beside it what else the employees of the CRM do:       *)
(* EmployeeAccess and FranchiseSetup.  They share no state: a behaviour    *)
(* runs one of them, named by part.                                        *)
(***************************************************************************)
EXTENDS MCObligations

CONSTANTS
  Employees, Emails, Agents, MaxTokens, MaxResets,   \* of EmployeeAccess
  Cities, Franchises, Owners, Slugs, MaxBatches, MaxEdits   \* of FranchiseSetup

VARIABLES
  part,
  email, tokens, issued, letter, written, req, exchanged, resets, answered,
  raced, overlapped, loose,
  city, cityOf, owner, account, types, work, batches, creating, edits, broken, torn

Access == INSTANCE EmployeeAccess WITH
  Requests <- Calls, None <- NoUser, told <- answered

Setup == INSTANCE FranchiseSetup WITH
  Requests <- Calls, None <- NoUser, req <- creating

accessVars == <<email, tokens, issued, letter, written, req, exchanged, resets, answered,
                raced, overlapped, loose>>
setupVars  == <<city, cityOf, owner, account, types, work, batches, creating, edits,
                broken, torn>>

ASSUME MCBackOfficeAssumption ==
  Access!EmployeeAccessAssumption /\ Setup!FranchiseSetupAssumption

RunInit ==
  /\ part \in {"obligations", "accounts", "tokens", "letters", "franchises", "types"}
  /\ Init /\ Access!Init /\ Setup!Init

\* Each bounds what the part is not about.
OneEmployee ==
  /\ raced = {}
  /\ \A e \in Employees : Access!Exists(e) =>
       /\ \A f \in Employees : Access!Exists(f) => e = f
       /\ \A k \in Calls : req[k].pc # "creating"
OneOrder == edits = 0 /\ \A f \in Franchises : batches[f] <= 1
OneFranchise ==
  /\ \A c, d \in Cities : city[c] # "new" /\ city[d] # "new" => c = d
  /\ \A o \in Owners : account[o] = "new"

AccessNext ==
  /\ part \in {"accounts", "tokens", "letters"} /\ Access!Next
  /\ \/ part = "accounts" /\ \A k \in Calls : req'[k].pc \in {"idle", "creating"}
     \/ part = "tokens" /\ OneEmployee' /\ \A k \in Calls : req'[k].pc # "making"
     \/ part = "letters" /\ OneEmployee' /\ \A k \in Calls : req'[k].what \notin Agents

SetupNext ==
  /\ part \in {"franchises", "types"} /\ Setup!Next
  /\ \/ part = "franchises" /\ OneOrder'
     \/ part = "types" /\ OneFranchise'

\* Only the obligations go on for ever.
RunNext ==
  /\ UNCHANGED part
  /\ \/ part = "obligations" /\ Next /\ UNCHANGED <<accessVars, setupVars>>
     \/ AccessNext /\ UNCHANGED <<vars, setupVars>>
     \/ SetupNext /\ UNCHANGED <<vars, accessVars>>
     \/ part # "obligations" /\ UNCHANGED <<vars, accessVars, setupVars>>

RunSpec == RunInit /\ [][RunNext]_<<part, vars, accessVars, setupVars>>

RunSymmetry == Symmetry \cup Permutations(Emails)

(***************************************************************************)
(* Properties of the parts beside Obligations.                             *)
(***************************************************************************)
\* The types of the three, and the rows that tokens, letters, franchises and
\* their types refer to.
TypesOK == TypeOK /\ Access!TypeOK /\ Setup!TypeOK

\* One employee with an address: two only after an update, a failed look or a
\* race gave it away (ErpUserService).  One row of an employee for an agent,
\* unless two grants to him overlapped (getRefreshToken looks the row up before
\* the upsert).
RowsUnique == Access!AccountPerEmail /\ Access!OneRowPerAgent

\* A refresh token buys one pair of tokens, however many refreshes carry it at
\* once and whatever logins renew its row meanwhile (refreshTokens); a letter
\* sets the password once and is answered with success once, unless it was used
\* twice at once or its deletion failed (resetPassword).
ServesOnce == Access!ExchangedOnce /\ Access!ResetOnce

\* A franchise has every type with its parameters, or its insert is under way,
\* unless the process died on them, and the route that orders types repairs
\* that (createGeofenceType); the row of a type and its parameters come from the
\* same edit, unless edits overlapped or one failed between the two updates
\* (updateGeofenceType).
TypesWhole == Setup!TypesComplete /\ Setup!EditsAgree
=============================================================================
