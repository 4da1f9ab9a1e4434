-------------------------------- MODULE Users --------------------------------
(***************************************************************************)
(* The users table and the requests that write it: POST /auth/register and *)
(* the admin's PATCH /admin/users/{id}, one action per SQL statement.      *)
(* Each request is one transaction at READ COMMITTED that locks nothing:   *)
(* what a statement has read may be stale at the next one.                 *)
(*                                                                         *)
(* Requests are used once.  pc[r] names the statement that request r has   *)
(* reached.  Sessions extends this module with the login requests.         *)
(***************************************************************************)
EXTENDS Integers, FiniteSets

CONSTANTS Users,          \* ids of accounts, those not created yet included
          Emails,         \* normalised addresses
          Requests,
          Edits,          \* the requests that write this table
          Registrations,  \* bodies of POST /auth/register, a set of forms
          Patches,        \* bodies of PATCH /admin/users/{id}, a set of forms
          Tables,         \* the contents of the table that a run may start from
          MaxInFlight,    \* how many requests may be under way at once
          Keep,           \* a field the body leaves out
          NoUser          \* an id without a row

Roles == {"customer", "merchant", "admin"}
UserRow == [email : Emails, role : Roles, active : BOOLEAN]
Form == [email : Emails \cup {Keep}, role : Roles \cup {Keep},
         active : BOOLEAN \cup {Keep}]

ASSUME KeepAssumption   == Keep \notin Emails /\ Keep \notin Roles /\ Keep \notin BOOLEAN
ASSUME NoUserAssumption == NoUser \notin UserRow
ASSUME FormAssumption   == /\ Patches \subseteq Form
                           /\ Registrations \subseteq
                                [email : Emails, role : Roles \ {"admin"}, active : {Keep}]
ASSUME TableAssumption  ==
  \A t \in Tables :
    /\ t \in [Users -> UserRow \cup {NoUser}]
    /\ \A u, v \in Users :
         t[u] # NoUser /\ t[v] # NoUser /\ t[u].email = t[v].email => u = v
ASSUME UsersFinite      == IsFiniteSet(Users) /\ MaxInFlight \in Nat /\ Edits \subseteq Requests

VARIABLES
  user,     \* user[u]: the row of u; active stands for deleted_at IS NULL
  pc,       \* where the handler of r stands
  who,      \* the account r acts for
  target,   \* the account a PATCH is about
  form,     \* the body of r
  seen,     \* the target row as the ORM has loaded it
  overtaken \* history: requests about to write an address that another has just written

userVars == <<user, pc, who, target, form, seen, overtaken>>

Accounts == {u \in Users : user[u] # NoUser}
ActiveAdmins == {u \in Accounts : user[u].role = "admin" /\ user[u].active}
Taken(e, others) == \E u \in others : user[u].email = e

NoForm == [email |-> Keep, role |-> Keep, active |-> Keep]

PatchPoints == {"load", "count", "clash", "commit"}
Ended == {"done", "refused", "failed", "crashed", "signed_out"}
Busy == {r \in Requests : pc[r] \notin Ended \cup {"idle"}}
MayBegin(r) == pc[r] = "idle" /\ Cardinality(Busy) < MaxInFlight

Goto(r, to) == pc' = [pc EXCEPT ![r] = to]

\* The answer: the request ends, and what it had in memory is gone.
Answer(r, how) ==
  /\ Goto(r, how)
  /\ who' = [who EXCEPT ![r] = NoUser]
  /\ target' = [target EXCEPT ![r] = NoUser]
  /\ form' = [form EXCEPT ![r] = NoForm]
  /\ seen' = [seen EXCEPT ![r] = NoUser]

\* The next statement of the same request.
Proceed(r, to) == Goto(r, to) /\ UNCHANGED <<who, target, form, seen>>

UsersInit ==
  /\ user \in Tables
  /\ pc = [r \in Requests |-> "idle"]
  /\ who \in [Requests -> {NoUser}]
  /\ target \in [Requests -> {NoUser}]
  /\ form = [r \in Requests |-> NoForm]
  /\ seen = [r \in Requests |-> NoUser]
  /\ overtaken = {}

\* The others that have looked for the address that r writes now, and write it next.
Rivals(r, e) == {q \in Requests \ {r} : pc[q] \in {"insert", "commit"} /\ form[q].email = e}

-----------------------------------------------------------------------------
(* POST /auth/register *)

\* The address is looked up among all rows, deactivated ones included (409) ...
CheckRegisterActive(r, f) ==  \* Mutant: deactivated accounts are not looked at
  /\ MayBegin(r)
  /\ ~Taken(f.email, {u \in Accounts : user[u].active})
  /\ form' = [form EXCEPT ![r] = f]
  /\ Goto(r, "insert")
  /\ UNCHANGED <<user, overtaken, who, target, seen>>

CheckRegister(r, f) ==
  /\ MayBegin(r)
  /\ ~Taken(f.email, Accounts)
  /\ form' = [form EXCEPT ![r] = f]
  /\ Goto(r, "insert")
  /\ UNCHANGED <<user, overtaken, who, target, seen>>

\* ... and inserted later, if the unique index still allows it.
InsertUser(r, u) ==
  /\ pc[r] = "insert"
  /\ ~Taken(form[r].email, Accounts)
  /\ u \notin Accounts
  /\ user' = [user EXCEPT ![u] = [email |-> form[r].email, role |-> form[r].role,
                                  active |-> TRUE]]
  /\ overtaken' = overtaken \cup Rivals(r, form[r].email)
  /\ Answer(r, "done")

-----------------------------------------------------------------------------
(* PATCH /admin/users/{id} *)

\* get_current_user and require_roles: one SELECT of the caller.  Callers who are
\* not active admins are turned away and change nothing.
Authorize(r, a, u, f) ==
  /\ MayBegin(r)
  /\ a \in ActiveAdmins
  /\ who' = [who EXCEPT ![r] = a]
  /\ target' = [target EXCEPT ![r] = u]
  /\ form' = [form EXCEPT ![r] = f]
  /\ seen' = [seen EXCEPT ![r] = user[a]]
  /\ Goto(r, "load")
  /\ UNCHANGED <<user, overtaken>>

\* The session already holds the caller's own row and does not read it again.
Loaded(r) == IF target[r] = who[r] THEN seen[r] ELSE user[target[r]]

LosesAdmin(row, f) == /\ row.role = "admin"
                      /\ \/ f.role \notin {Keep, "admin"}
                         \/ f.active = FALSE /\ row.active

\* An admin about to demote or deactivate himself.
OwnRightsAllowed(r) == FALSE  \* Mutant: the guard on one's own account is gone

OwnRights(r) == target[r] = who[r] /\ LosesAdmin(seen[r], form[r])

ChangesEmail(row, f) == f.email \notin {Keep, row.email}
AfterGuards(row, f) == IF ChangesEmail(row, f) THEN "clash" ELSE "commit"

\* db.get of the target, and the guard on one's own account.
LoadTarget(r) ==
  /\ pc[r] = "load"
  /\ target[r] \in Accounts
  /\ ~OwnRights(r)
  /\ seen' = [seen EXCEPT ![r] = Loaded(r)]
  /\ Goto(r, IF LosesAdmin(Loaded(r), form[r]) THEN "count"
             ELSE AfterGuards(Loaded(r), form[r]))
  /\ UNCHANGED <<user, overtaken, who, target, form>>

\* 404 without a row, 403 for an admin who would demote or deactivate himself.
RefuseTarget(r) ==
  /\ pc[r] = "load"
  /\ target[r] \notin Accounts \/ OwnRights(r)
  /\ Answer(r, "refused")
  /\ UNCHANGED <<user, overtaken>>

\* The backstop: SELECT count(*) of the active admins, 409 if there is but one.
CountAdmins(r) ==
  /\ pc[r] = "count"
  /\ Cardinality(ActiveAdmins) > 1
  /\ Proceed(r, AfterGuards(seen[r], form[r]))
  /\ UNCHANGED <<user, overtaken>>

RefuseCount(r) ==
  /\ pc[r] = "count"
  /\ Cardinality(ActiveAdmins) <= 1
  /\ Answer(r, "refused")
  /\ UNCHANGED <<user, overtaken>>

\* Another row with the new address is a 409.
CheckEmail(r) ==
  /\ pc[r] = "clash"
  /\ ~Taken(form[r].email, Accounts \ {target[r]})
  /\ Proceed(r, "commit")
  /\ UNCHANGED <<user, overtaken>>

RefuseEmail(r) ==
  /\ pc[r] = "clash"
  /\ Taken(form[r].email, Accounts \ {target[r]})
  /\ Answer(r, "refused")
  /\ UNCHANGED <<user, overtaken>>

\* The UPDATE sets the columns that differ from what was loaded and no others.
\* A deactivation always differs: its timestamp is new.
ColumnUnset(asked, loaded, now) == asked  \* Mutant: fields the body leaves out are assigned too

Column(asked, loaded, now) == IF asked \in {Keep, loaded} THEN now ELSE asked

Patched(r) ==
  LET now == user[target[r]]
  IN [email  |-> Column(form[r].email, seen[r].email, now.email),
      role   |-> Column(form[r].role, seen[r].role, now.role),
      active |-> IF form[r].active = FALSE THEN FALSE
                 ELSE Column(form[r].active, seen[r].active, now.active)]

CommitPatch(r) ==
  /\ pc[r] = "commit"
  /\ ~Taken(Patched(r).email, Accounts \ {target[r]})
  /\ user' = [user EXCEPT ![target[r]] = Patched(r)]
  /\ overtaken' = IF Patched(r).email = user[target[r]].email THEN overtaken
                  ELSE overtaken \cup Rivals(r, Patched(r).email)
  /\ Answer(r, "done")

Clashes(r) == \/ pc[r] = "insert" /\ Taken(form[r].email, Accounts)
              \/ pc[r] = "commit" /\ Taken(Patched(r).email, Accounts \ {target[r]})

\* The unique index refuses what the check had let pass: IntegrityError, a 500.
ViolateUnique(r) ==
  /\ Clashes(r)
  /\ Answer(r, "failed")
  /\ UNCHANGED <<user, overtaken>>

UserStep(r) ==
  \/ LoadTarget(r) \/ RefuseTarget(r) \/ CountAdmins(r) \/ RefuseCount(r)
  \/ CheckEmail(r) \/ RefuseEmail(r) \/ CommitPatch(r) \/ ViolateUnique(r)
  \/ \E u \in Users : InsertUser(r, u)

UserBegin(r) ==
  /\ r \in Edits
  /\ \/ \E f \in Registrations : CheckRegister(r, f)
     \/ \E a, u \in Users, f \in Patches : Authorize(r, a, u, f)
=============================================================================
