---------------------------- MODULE SessionsProofs ----------------------------
(***************************************************************************)
(* Accounts and refresh tokens, for every number of requests, accounts and *)
(* families.                                                               *)
(*                                                                         *)
(* None of the invariants is inductive.  AInv adds to the types what the   *)
(* handler of a PATCH or a registration knows at each statement.  TInv     *)
(* adds where a token can be: a token that was sent to a client is the     *)
(* work of a request that has ended, so that it is never added to a family *)
(* again, and if it is not in its family, something took it out.           *)
(***************************************************************************)
EXTENDS Sessions, TLAPS, FiniteSetTheorems

\* What a write to the users table has made sure of by the point where it stands.
AccountInStep(r) ==
  /\ pc[r] = "insert" => form[r].email \in Emails /\ form[r].role \in Roles
  /\ pc[r] \in PatchPoints => target[r] \in Users /\ who[r] \in Users
  /\ pc[r] \in PatchPoints \ {"load"} => target[r] \in Accounts
  /\ pc[r] = "load" \/ (pc[r] \in PatchPoints /\ target[r] = who[r]) =>
       seen[r] \in UserRow /\ seen[r].role = "admin" /\ seen[r].active = TRUE
  /\ pc[r] \in PatchPoints \ {"load"} /\ target[r] = who[r] =>
       form[r].role \in {Keep, "admin"} /\ form[r].active # FALSE

\* The unique index on users.email.
EmailsUnique == \A u, v \in Accounts : user[u].email = user[v].email => u = v

\* A commit that changes the address has looked for the new one, and so has an INSERT:
\* nobody has it, unless another request has written it since.
AInv == /\ TypeOK
        /\ EmailsUnique
        /\ \A r \in Requests : AccountInStep(r)
        /\ ConflictsAreRaces

LEMMA InitAInv == Init => AInv
<1> SUFFICES ASSUME Init PROVE AInv
  OBVIOUS
<1> USE DEF Init, UsersInit
<1>1. TypeOK
  BY TableAssumption DEF TypeOK, Form, NoForm
<1>2. EmailsUnique
  BY TableAssumption DEF EmailsUnique, Accounts
<1>3. \A r \in Requests : AccountInStep(r)
  BY DEF AccountInStep, PatchPoints
<1>4. ConflictsAreRaces
  BY DEF ConflictsAreRaces, Clashes
<1> QED
  BY <1>1, <1>2, <1>3, <1>4 DEF AInv

-----------------------------------------------------------------------------
(* Writes to the users table *)

Same(q) == UNCHANGED <<pc[q], target[q], form[q], seen[q]>>

\* A step of r that writes no row.
LEMMA ReadAInv ==
  ASSUME AInv, TypeOK', UNCHANGED <<user, overtaken>>, \A q \in Requests : AccountInStep(q)',
         NEW r \in Requests, \A q \in Requests \ {r} : Same(q),
         Clashes(r)' => r \in overtaken
  PROVE  AInv'
<1>1. EmailsUnique'
  BY DEF AInv, EmailsUnique, Accounts
<1>2. \A q \in Requests \ {r} : Clashes(q)' => Clashes(q)
  BY DEF Same, Clashes, Taken, Accounts, Patched
<1>3. ConflictsAreRaces'
  BY <1>2 DEF AInv, ConflictsAreRaces
<1> QED
  BY <1>1, <1>3 DEF AInv

LEMMA AnswerType ==
  ASSUME TypeOK, NEW r \in Requests, NEW how \in Ended, Answer(r, how)
  PROVE  /\ pc' \in [Requests -> {"idle", "insert"} \cup PatchPoints \cup SessionPoints \cup Ended]
         /\ who' \in [Requests -> Users \cup {NoUser}]
         /\ target' \in [Requests -> Users \cup {NoUser}]
         /\ form' \in [Requests -> Form]
         /\ seen' \in [Requests -> UserRow \cup {NoUser}]
BY DEF TypeOK, Answer, Goto, NoForm, Form

\* The end of a request leaves the others as they were.
LEMMA AnswerAInv ==
  ASSUME AInv, NEW r \in Requests, NEW how \in Ended, Answer(r, how),
         UNCHANGED <<user, overtaken, tokenVars>>
  PROVE  AInv'
<1>1. TypeOK'
  BY AnswerType DEF AInv, TypeOK, tokenVars
<1>2. \A q \in Requests : AccountInStep(q)'
  BY DEF AInv, TypeOK, AccountInStep, Answer, Goto, Ended, PatchPoints, Accounts
<1>3. ~Clashes(r)' /\ \A q \in Requests \ {r} : Same(q)
  BY DEF AInv, TypeOK, Answer, Goto, Ended, Clashes, Same
<1> QED
  BY <1>1, <1>2, <1>3, ReadAInv

\* What a PATCH writes in the column is the address it asks for or the one in the row.
LEMMA PatchedEmail ==
  ASSUME NEW r \in Requests
  PROVE  \/ Patched(r).email = user[target[r]].email
         \/ Patched(r).email = form[r].email /\ ChangesEmail(seen[r], form[r])
BY DEF Patched, Column, ChangesEmail

\* It depends on the request and on the row it is for.
LEMMA SamePatch ==
  ASSUME NEW q \in Requests, user'[target[q]] = user[target[q]],
         form'[q] = form[q], seen'[q] = seen[q], target'[q] = target[q]
  PROVE  Patched(q)' = Patched(q)
BY DEF Patched, Column

\* A PATCH that keeps the address cannot clash.
LEMMA KeptEmail ==
  ASSUME EmailsUnique, NEW r \in Requests, target[r] \in Accounts,
         Patched(r).email = user[target[r]].email
  PROVE  ~Taken(Patched(r).email, Accounts \ {target[r]})
BY DEF EmailsUnique, Taken

\* Another statement of the same request, which has read but not written.
LEMMA ProceedAInv ==
  ASSUME AInv, NEW r \in Requests, UNCHANGED <<user, overtaken, tokenVars>>,
         NEW to \in PatchPoints \ {"load"}, pc[r] \in PatchPoints \ {"load"}, Proceed(r, to),
         to = "commit" /\ ChangesEmail(seen[r], form[r]) =>
           ~Taken(form[r].email, Accounts \ {target[r]})
  PROVE  AInv'
<1>1. TypeOK'
  BY DEF AInv, TypeOK, tokenVars, Proceed, Goto, PatchPoints
<1>2. \A q \in Requests : AccountInStep(q)'
  BY DEF AInv, TypeOK, AccountInStep, Proceed, Goto, PatchPoints, Accounts
<1>3. \A q \in Requests \ {r} : Same(q)
  BY DEF AInv, TypeOK, Proceed, Goto, Same
<1>4. ~Clashes(r)'
  <2>1. pc'[r] = to /\ Accounts' = Accounts /\ Patched(r)' = Patched(r) /\ target' = target
    BY DEF AInv, TypeOK, Proceed, Goto, Accounts, Patched
  <2>2. target[r] \in Accounts
    BY DEF AInv, AccountInStep
  <2>3. to = "commit" => ~Taken(Patched(r).email, Accounts \ {target[r]})
    BY <2>2, PatchedEmail, KeptEmail DEF AInv
  <2> QED
    BY <2>1, <2>3 DEF Clashes, PatchPoints, Taken
<1> QED
  BY <1>1, <1>2, <1>3, <1>4, ReadAInv

\* The new row has an address that no other row has.
LEMMA InsertUserAInv ==
  ASSUME AInv, NEW r \in Requests, NEW u \in Users, InsertUser(r, u), UNCHANGED tokenVars
  PROVE  AInv'
<1> USE DEF InsertUser, AInv
<1>1. user'[u] \in UserRow /\ user' = [user EXCEPT ![u] = user'[u]]
  BY DEF TypeOK, AccountInStep, UserRow
<1>2. TypeOK'
  BY <1>1, AnswerType DEF TypeOK, tokenVars, Ended, Rivals
<1>3. Accounts' = Accounts \cup {u}
  BY <1>1, NoUserAssumption DEF TypeOK, Accounts
<1>4. user'[u].email = form[r].email /\ \A v \in Accounts : v # u /\ user'[v] = user[v]
  BY DEF TypeOK, Accounts
<1>5. EmailsUnique'
  BY <1>3, <1>4 DEF EmailsUnique, Taken
<1>6. \A q \in Requests : AccountInStep(q)'
  BY <1>3 DEF TypeOK, AccountInStep, Answer, Goto, PatchPoints
<1>7. pc'[r] = "done" /\ \A q \in Requests \ {r} : Same(q)
  BY DEF TypeOK, Answer, Goto, Same
<1>8. ASSUME NEW q \in Requests \ {r}, Clashes(q)' PROVE q \in overtaken'
  <2>1. CASE pc[q] = "insert"
    <3>1. PICK v \in Accounts' : user'[v].email = form[q].email
      BY <1>7, <1>8, <2>1 DEF Clashes, Taken, Same
    <3> QED
      BY <1>3, <1>4, <2>1, <3>1 DEF ConflictsAreRaces, Clashes, Taken, Rivals
  <2>2. CASE pc[q] = "commit"
    <3>1. target[q] \in Accounts /\ target[q] # u
      BY <1>4, <2>2 DEF AccountInStep, PatchPoints
    <3>2. Patched(q)' = Patched(q)
      <4>1. user'[target[q]] = user[target[q]]
        BY <1>4, <3>1
      <4>2. form'[q] = form[q] /\ seen'[q] = seen[q] /\ target'[q] = target[q]
        BY <1>7 DEF Same
      <4> QED
        BY <4>1, <4>2, SamePatch
    <3>3. PICK v \in Accounts' \ {target[q]} : user'[v].email = Patched(q).email
      BY <1>7, <1>8, <2>2, <3>2 DEF Clashes, Taken, Same
    <3>4. CASE v # u
      BY <1>3, <1>4, <2>2, <3>3, <3>4 DEF ConflictsAreRaces, Clashes, Taken
    <3>5. CASE v = u
      <4>1. Patched(q).email = form[r].email /\ ~Taken(form[r].email, Accounts)
        BY <1>4, <3>3, <3>5
      <4>2. Patched(q).email = form[q].email
        BY <3>1, <4>1, PatchedEmail DEF Taken
      <4> QED
        BY <2>2, <4>1, <4>2 DEF Rivals
    <3> QED
      BY <3>4, <3>5
  <2> QED
    BY <1>7, <1>8, <2>1, <2>2 DEF Clashes, Same
<1>9. ConflictsAreRaces'
  BY <1>7, <1>8 DEF ConflictsAreRaces, Clashes
<1> QED
  BY <1>2, <1>5, <1>6, <1>9

LEMMA PatchedType ==
  ASSUME AInv, NEW r \in Requests, pc[r] = "commit"
  PROVE  Patched(r) \in UserRow
<1>1. user[target[r]] \in UserRow /\ form[r] \in Form
  BY DEF AInv, TypeOK, AccountInStep, Accounts, PatchPoints
<1>2. Column(form[r].email, seen[r].email, user[target[r]].email) \in Emails
  BY <1>1 DEF Column, UserRow, Form
<1>3. Column(form[r].role, seen[r].role, user[target[r]].role) \in Roles
  BY <1>1 DEF Column, UserRow, Form
<1>4. Column(form[r].active, seen[r].active, user[target[r]].active) \in BOOLEAN
  BY <1>1 DEF Column, UserRow, Form
<1> QED
  BY <1>2, <1>3, <1>4 DEF Patched, UserRow

LEMMA CommitPatchAInv ==
  ASSUME AInv, NEW r \in Requests, CommitPatch(r), UNCHANGED tokenVars
  PROVE  AInv'
<1> USE DEF CommitPatch, AInv
<1> DEFINE u == target[r]
<1>1. u \in Accounts /\ Patched(r) \in UserRow
  BY PatchedType DEF AccountInStep, PatchPoints
<1>2. TypeOK'
  BY <1>1, AnswerType DEF TypeOK, tokenVars, Ended, Accounts, Rivals
<1>3. Accounts' = Accounts
  BY <1>1, NoUserAssumption DEF TypeOK, Accounts
<1>4. user'[u] = Patched(r) /\ \A v \in Accounts \ {u} : user'[v] = user[v]
  BY <1>1 DEF TypeOK, Accounts
<1>5. EmailsUnique'
  BY <1>3, <1>4 DEF EmailsUnique, Taken
<1>6. \A q \in Requests : AccountInStep(q)'
  BY <1>3 DEF TypeOK, AccountInStep, Answer, Goto, PatchPoints
<1>7. pc'[r] = "done" /\ \A q \in Requests \ {r} : Same(q)
  BY DEF TypeOK, Answer, Goto, Same
<1> DEFINE e == Patched(r).email
<1>8. /\ user'[u].email = e /\ ~Taken(e, Accounts \ {u}) /\ overtaken \subseteq overtaken'
      /\ \A q \in Requests \ {r} :
           pc[q] \in {"insert", "commit"} /\ form[q].email = e =>
             q \in overtaken' \/ user[u].email = e
  BY <1>4 DEF Rivals
<1> HIDE DEF e
<1>9. ASSUME NEW q \in Requests \ {r}, Clashes(q)' PROVE q \in overtaken'
  <2>1. CASE pc[q] = "insert"
    <3>1. PICK v \in Accounts : user'[v].email = form[q].email
      BY <1>3, <1>7, <1>9, <2>1 DEF Clashes, Taken, Same
    <3>2. q \in overtaken' \/ Taken(form[q].email, Accounts)
      BY <1>1, <1>4, <1>8, <2>1, <3>1 DEF Taken
    <3> QED
      BY <1>8, <2>1, <3>2 DEF ConflictsAreRaces, Clashes
  <2>2. CASE pc[q] = "commit"
    <3> DEFINE t == target[q]
               d == Patched(q)'.email
    <3>1. t \in Accounts
      BY <2>2 DEF AccountInStep, PatchPoints
    <3>2. PICK v \in Accounts \ {t} : user'[v].email = d
      BY <1>3, <1>7, <1>9, <2>2 DEF Clashes, Taken, Same
    <3>3. \/ d = user'[t].email
          \/ d = form[q].email /\ Patched(q).email = d
      BY <1>7 DEF Patched, Column, Same
    <3>4. d # user'[t].email
      BY <1>3, <1>5, <3>1, <3>2 DEF EmailsUnique
    <3>5. d = form[q].email /\ Patched(q).email = d
      BY <3>3, <3>4
    <3> HIDE DEF d
    <3>6. q \in overtaken' \/ Taken(d, Accounts \ {t})
      <4>1. CASE v # u
        BY <1>4, <3>2, <4>1 DEF Taken
      <4>2. CASE v = u
        BY <1>1, <1>8, <2>2, <3>2, <3>5, <4>2 DEF Taken
      <4> QED
        BY <4>1, <4>2
    <3> QED
      BY <1>8, <2>2, <3>5, <3>6 DEF ConflictsAreRaces, Clashes
  <2> QED
    BY <1>7, <1>9, <2>1, <2>2 DEF Clashes, Same
<1>10. ConflictsAreRaces'
  BY <1>7, <1>9 DEF ConflictsAreRaces, Clashes
<1> QED
  BY <1>2, <1>5, <1>6, <1>10

LEMMA UserStepAInv ==
  ASSUME AInv, NEW r \in Requests, UserStep(r), UNCHANGED tokenVars
  PROVE  AInv'
<1> USE DEF PatchPoints, Ended
<1>1. ASSUME LoadTarget(r) PROVE AInv'
  <2>1. pc[r] = "load" /\ target[r] \in Accounts /\ Loaded(r) \in UserRow
    BY <1>1, NoUserAssumption DEF LoadTarget, Loaded, Accounts, AInv, TypeOK, AccountInStep
  <2>2. PICK to \in {"count", "clash", "commit"} : Goto(r, to)
    BY <1>1 DEF LoadTarget, AfterGuards
  <2>3. TypeOK'
    BY <1>1, <2>1, <2>2 DEF LoadTarget, AInv, TypeOK, Goto, tokenVars
  <2>4. AccountInStep(r)'
    BY <1>1, <2>1, <2>2 DEF LoadTarget, Loaded, OwnRights, LosesAdmin, AInv, TypeOK,
                            AccountInStep, Goto, Accounts, Form
  <2>5. \A q \in Requests \ {r} : AccountInStep(q)'
    BY <1>1, <2>2 DEF LoadTarget, AInv, TypeOK, AccountInStep, Goto, Accounts
  <2>6. \A q \in Requests \ {r} : Same(q)
    BY <1>1, <2>2 DEF LoadTarget, AInv, TypeOK, Goto, Same
  <2>7. ~Clashes(r)'
    <3>1. pc'[r] = to /\ (to = "commit" => ~ChangesEmail(seen'[r], form'[r]))
      BY <1>1, <2>2 DEF LoadTarget, AfterGuards, AInv, TypeOK, Goto
    <3>2. Accounts' = Accounts /\ target' = target /\ user' = user
      BY <1>1 DEF LoadTarget, Accounts
    <3>3. to = "commit" => Patched(r)'.email = user[target[r]].email
      BY <3>1, <3>2 DEF Patched, Column, ChangesEmail
    <3>4. to = "commit" => ~Taken(Patched(r)'.email, Accounts \ {target[r]})
      BY <2>1, <3>3 DEF AInv, EmailsUnique, Taken
    <3> QED
      BY <2>2, <3>1, <3>2, <3>4 DEF Clashes, Taken
  <2> QED
    BY <1>1, <2>3, <2>4, <2>5, <2>6, <2>7, ReadAInv DEF LoadTarget
<1>2. ASSUME RefuseTarget(r) \/ RefuseCount(r) \/ RefuseEmail(r) \/ ViolateUnique(r) PROVE AInv'
  BY <1>2, AnswerAInv DEF RefuseTarget, RefuseCount, RefuseEmail, ViolateUnique
<1>3. ASSUME CountAdmins(r) PROVE AInv'
  <2>1. PICK to \in {"clash", "commit"} : Proceed(r, to) /\ to = AfterGuards(seen[r], form[r])
    BY <1>3 DEF CountAdmins, AfterGuards
  <2>2. to = "commit" => ~ChangesEmail(seen[r], form[r])
    BY <2>1 DEF AfterGuards
  <2> QED
    BY <1>3, <2>1, <2>2, ProceedAInv DEF CountAdmins
<1>4. ASSUME CheckEmail(r) PROVE AInv'
  BY <1>4, ProceedAInv DEF CheckEmail
<1> QED
  BY <1>1, <1>2, <1>3, <1>4, CommitPatchAInv, InsertUserAInv DEF UserStep

LEMMA UserBeginAInv ==
  ASSUME AInv, NEW r \in Requests, UserBegin(r), UNCHANGED tokenVars
  PROVE  AInv'
<1> USE DEF PatchPoints
<1>1. ASSUME NEW f \in Registrations, CheckRegister(r, f) PROVE AInv'
  <2>1. f \in Form /\ f.email \in Emails /\ f.role \in Roles
    BY FormAssumption DEF Form
  <2>2. TypeOK'
    BY <1>1, <2>1 DEF CheckRegister, AInv, TypeOK, Goto, tokenVars
  <2>3. \A q \in Requests : AccountInStep(q)'
    BY <1>1, <2>1 DEF CheckRegister, AInv, TypeOK, AccountInStep, Goto, Accounts
  <2>4. ~Clashes(r)' /\ \A q \in Requests \ {r} : Same(q)
    BY <1>1 DEF CheckRegister, AInv, TypeOK, Goto, Same, Clashes, Taken, Accounts
  <2> QED
    BY <1>1, <2>2, <2>3, <2>4, ReadAInv DEF CheckRegister
<1>2. ASSUME NEW a \in Users, NEW u \in Users, NEW f \in Patches, Authorize(r, a, u, f)
      PROVE  AInv'
  <2>1. f \in Form /\ a \in ActiveAdmins /\ user[a] \in UserRow
    BY <1>2, FormAssumption DEF Authorize, ActiveAdmins, Accounts, AInv, TypeOK
  <2>2. user[a].role = "admin" /\ user[a].active = TRUE
    BY <2>1 DEF ActiveAdmins, UserRow
  <2>3. TypeOK'
    BY <1>2, <2>1 DEF Authorize, AInv, TypeOK, Goto, tokenVars
  <2>4. \A q \in Requests : AccountInStep(q)'
    BY <1>2, <2>1, <2>2 DEF Authorize, AInv, TypeOK, AccountInStep, Goto, Accounts
  <2>5. ~Clashes(r)' /\ \A q \in Requests \ {r} : Same(q)
    BY <1>2 DEF Authorize, AInv, TypeOK, Goto, Same, Clashes
  <2> QED
    BY <1>2, <2>3, <2>4, <2>5, ReadAInv DEF Authorize
<1> QED
  BY <1>1, <1>2 DEF UserBegin

-----------------------------------------------------------------------------
(* Where a token can be *)

TokenInStep(r) ==
  /\ pc[r] \in {"idle", "start"} => fid[r] = r /\ shown[r] = r
  /\ pc[r] \in {"idle", "start", "load_user", "srem", "burn", "revoke"} => r \notin minted
  /\ pc[r] \in SessionPoints \ {"start"} => fid[r] \in minted
  /\ pc[r] \in {"load_user", "srem", "burn"} => shown[r] \in issued /\ fid[r] = fid[shown[r]]
  /\ pc[r] = "burn" => shown[r] \notin family[fid[r]]
  /\ r \in issued => pc[r] = "done" /\ fid[r] \in minted
  /\ r \in Edits => pc[r] \notin SessionPoints
  /\ r \in minted /\ shown[r] # r => /\ shown[r] \in issued
                                    /\ shown[r] \notin family[fid[r]]
                                    /\ fid[r] = fid[shown[r]]

Members ==
  \A f \in Requests : \A m \in family[f] :
    /\ f \in minted /\ fid[m] = f
    /\ pc[m] \in {"expire", "done", "crashed"}

\* What may have taken a token out of its family.
Cause(t) ==
  \E q \in Requests :
    /\ fid[q] = fid[t]
    /\ (q \in minted /\ q # t /\ shown[q] = t) \/ pc[q] \in {"refused", "signed_out"}

Sent(t) == t \in issued \/ pc[t] = "expire"
LossHasCause == \A t \in Requests : Sent(t) => t \in family[fid[t]] \/ Cause(t)

TInv == /\ \A r \in Requests : TokenInStep(r)
        /\ Members
        /\ OneLiveToken
        /\ KeysExpire
        /\ LossHasCause

LEMMA InitTInv == Init => TInv
BY DEF Init, UsersInit, TInv, TokenInStep, Members, OneLiveToken, Exchangeable, Rotating,
       KeysExpire, LossHasCause, Sent, SessionPoints

\* A step that leaves the tokens alone and neither begins nor ends what concerns them.
LEMMA QuietTInv ==
  ASSUME TypeOK, TInv, NEW r \in Requests, NEW to, Goto(r, to), UNCHANGED tokenVars,
         pc[r] \notin {"sadd", "expire", "done", "crashed", "refused", "signed_out"},
         to \notin {"idle", "sadd", "expire", "load_user"},
         to = "start" => pc[r] = "idle",
         to = "srem" => pc[r] = "load_user",
         to = "revoke" => pc[r] = "load_user",
         to = "burn" => pc[r] = "srem" /\ shown[r] \notin family[fid[r]],
         to \in SessionPoints => r \notin Edits
  PROVE  TInv'
<1> USE DEF TypeOK, TInv, Goto, tokenVars, SessionPoints
<1>1. pc'[r] = to /\ \A q \in Requests \ {r} : pc'[q] = pc[q]
  OBVIOUS
<1>2. \A q \in Requests : TokenInStep(q)'
  BY <1>1 DEF TokenInStep
<1>3. Members'
  BY <1>1 DEF Members
<1>4. OneLiveToken'
  BY <1>1 DEF OneLiveToken, Exchangeable, Rotating
<1>5. KeysExpire'
  BY <1>1 DEF KeysExpire
<1>6. LossHasCause'
  BY <1>1 DEF LossHasCause, Sent, Cause
<1> QED
  BY <1>2, <1>3, <1>4, <1>5, <1>6

\* A family begins with no member, and nobody about to add one.
LEMMA StartFamilyTInv ==
  ASSUME TypeOK, TInv, NEW r \in Requests, StartFamily(r)
  PROVE  TInv'
<1> USE DEF TypeOK, TInv, StartFamily, SetFamily, Goto, SessionPoints
<1>1. fid[r] = r /\ shown[r] = r /\ r \notin minted /\ r \notin issued /\ r \notin Edits
  BY DEF TokenInStep
<1>2. family[r] = {} /\ Rotating(r) = {}
  BY <1>1 DEF TokenInStep, Members, Rotating
<1>3. pc'[r] = "expire" /\ \A q \in Requests \ {r} : pc'[q] = pc[q]
  OBVIOUS
<1>4. family' = [family EXCEPT ![r] = {r}] /\ armed' = armed
  BY <1>1, <1>2
<1>5. \A q \in Requests : TokenInStep(q)'
  BY <1>1, <1>3, <1>4 DEF TokenInStep
<1>6. Members'
  BY <1>1, <1>3, <1>4 DEF Members
<1>7. OneLiveToken'
  BY <1>1, <1>2, <1>3, <1>4 DEF OneLiveToken, Exchangeable, Rotating
<1>8. KeysExpire'
  BY <1>1, <1>3, <1>4 DEF KeysExpire
<1>9. LossHasCause'
  BY <1>1, <1>3, <1>4 DEF LossHasCause, Sent, Cause
<1> QED
  BY <1>5, <1>6, <1>7, <1>8, <1>9

LEMMA ArmFamilyTInv ==
  ASSUME TypeOK, TInv, NEW r \in Requests, ArmFamily(r)
  PROVE  TInv'
<1> USE DEF TypeOK, TInv, ArmFamily, Goto, SessionPoints
<1>1. fid[r] \in minted /\ r \notin Edits /\ r \notin issued
  BY DEF TokenInStep
<1>2. pc'[r] = "done" /\ \A q \in Requests \ {r} : pc'[q] = pc[q]
  OBVIOUS
<1>3. \A q \in Requests : TokenInStep(q)'
  BY <1>1, <1>2 DEF TokenInStep
<1>4. Members'
  BY <1>2 DEF Members
<1>5. OneLiveToken'
  BY <1>2 DEF OneLiveToken, Exchangeable, Rotating
<1>6. KeysExpire'
  BY <1>2 DEF KeysExpire
<1>7. LossHasCause'
  BY <1>2 DEF LossHasCause, Sent, Cause
<1> QED
  BY <1>3, <1>4, <1>5, <1>6, <1>7

\* A request that presents a token learns only what is known of tokens that were sent.
LEMMA PresentTInv ==
  ASSUME TypeOK, TInv, NEW r \in Requests, NEW t \in issued, pc[r] = "idle", r \notin Edits,
         fid' = [fid EXCEPT ![r] = fid[t]], shown' = [shown EXCEPT ![r] = t],
         Goto(r, "load_user"), UNCHANGED <<family, armed, issued, minted>>
  PROVE  TInv'
<1> USE DEF TypeOK, TInv, Goto, SessionPoints
<1>1. r \notin minted /\ r \notin issued /\ fid[r] = r /\ t # r /\ fid[t] \in minted /\ t \in Requests
  BY DEF TokenInStep
<1>2. pc'[r] = "load_user" /\ \A q \in Requests \ {r} : pc'[q] = pc[q]
  OBVIOUS
<1>3. fid'[r] = fid[t] /\ shown'[r] = t
      /\ \A q \in Requests \ {r} : fid'[q] = fid[q] /\ shown'[q] = shown[q]
  OBVIOUS
<1>4. \A q \in Requests : TokenInStep(q)'
  BY <1>1, <1>2, <1>3 DEF TokenInStep
<1>5. Members'
  BY <1>1, <1>2, <1>3 DEF Members
<1>6. OneLiveToken'
  BY <1>2, <1>3 DEF OneLiveToken, Exchangeable, Rotating
<1>7. KeysExpire'
  BY <1>2, <1>3 DEF KeysExpire
<1>8. LossHasCause'
  BY <1>1, <1>2, <1>3 DEF LossHasCause, Sent, Cause
<1> QED
  BY <1>4, <1>5, <1>6, <1>7, <1>8

\* The one live token of the family gives way to r, who is about to add its own.
LEMMA ConsumeTokenTInv ==
  ASSUME TypeOK, TInv, NEW r \in Requests, ConsumeToken(r), shown[r] \in family[fid[r]]
  PROVE  TInv'
<1> USE DEF TypeOK, TInv, ConsumeToken, SetFamily, Goto, SessionPoints
<1> DEFINE f == fid[r]
           t == shown[r]
<1>1. /\ r \notin minted /\ r \notin Edits /\ f \in minted
      /\ t \in issued /\ fid[t] = f /\ t # r /\ pc[t] = "done"
  BY DEF TokenInStep
<1>2. family[f] = {t} /\ Rotating(f) = {}
  BY <1>1 DEF OneLiveToken, Exchangeable, Rotating
<1>3. pc'[r] = "sadd" /\ \A q \in Requests \ {r} : pc'[q] = pc[q]
  OBVIOUS
<1>4. family' = [family EXCEPT ![f] = {}] /\ armed' = armed \ {f} /\ minted' = minted \cup {r}
  BY <1>2
<1>5. \A q \in Requests : TokenInStep(q)'
  BY <1>1, <1>3, <1>4 DEF TokenInStep
<1>6. Members'
  BY <1>3, <1>4 DEF Members
<1>7. OneLiveToken'
  BY <1>2, <1>3, <1>4 DEF OneLiveToken, Exchangeable, Rotating
<1>8. KeysExpire'
  BY <1>3, <1>4 DEF KeysExpire
<1>9. LossHasCause'
  <2>1. Cause(t)'
    BY <1>1, <1>4 DEF Cause
  <2>2. ASSUME NEW s \in Requests, Sent(s)', s # t PROVE s \in family'[fid'[s]] \/ Cause(s)'
    <3>1. Sent(s) /\ s \notin family[f]
      BY <1>2, <1>3, <2>2 DEF Sent
    <3> QED
      BY <1>3, <1>4, <3>1 DEF LossHasCause, Cause
  <2> QED
    BY <2>1, <2>2 DEF LossHasCause
<1> QED
  BY <1>5, <1>6, <1>7, <1>8, <1>9

LEMMA StoreTokenTInv ==
  ASSUME TypeOK, TInv, NEW r \in Requests, StoreToken(r)
  PROVE  TInv'
<1> USE DEF TypeOK, TInv, StoreToken, SetFamily, Goto, SessionPoints
<1> DEFINE f == fid[r]
<1>1. r \notin Edits /\ f \in minted /\ r \notin issued /\ r \in Rotating(f)
  BY DEF TokenInStep, Rotating
<1>2. pc'[r] = "expire" /\ \A q \in Requests \ {r} : pc'[q] = pc[q]
  OBVIOUS
<1>3. family' = [family EXCEPT ![f] = @ \cup {r}] /\ armed' = armed
  OBVIOUS
<1>4. \A q \in Requests : TokenInStep(q)'
  BY <1>1, <1>2, <1>3 DEF TokenInStep
<1>5. Members'
  BY <1>1, <1>2, <1>3 DEF Members
<1>6. OneLiveToken'
  BY <1>1, <1>2, <1>3 DEF OneLiveToken, Exchangeable, Rotating
<1>7. KeysExpire'
  BY <1>2, <1>3 DEF KeysExpire
<1>8. LossHasCause'
  BY <1>2, <1>3 DEF LossHasCause, Sent, Cause
<1> QED
  BY <1>4, <1>5, <1>6, <1>7, <1>8

\* Whoever deletes a family is the cause of the loss of its token.
LEMMA DeleteTInv ==
  ASSUME TypeOK, TInv, NEW r \in Requests, NEW f \in Requests, NEW how \in {"refused", "signed_out"},
         pc[r] \in {"idle", "burn", "revoke"}, Goto(r, how), SetFamily(f, {}),
         fid' = [fid EXCEPT ![r] = f], shown' = [shown EXCEPT ![r] = shown'[r]],
         UNCHANGED <<issued, minted>>
  PROVE  TInv'
<1> USE DEF TypeOK, TInv, SetFamily, Goto, SessionPoints
<1>1. r \notin minted /\ r \notin issued
  BY DEF TokenInStep
<1>2. pc'[r] = how /\ \A q \in Requests \ {r} : pc'[q] = pc[q]
  OBVIOUS
<1>3. fid'[r] = f /\ \A q \in Requests \ {r} : fid'[q] = fid[q] /\ shown'[q] = shown[q]
  OBVIOUS
<1>4. family' = [family EXCEPT ![f] = {}] /\ armed' = armed \ {f}
  OBVIOUS
<1>5. \A q \in Requests : TokenInStep(q)'
  <2>1. TokenInStep(r)'
    BY <1>1, <1>2 DEF TokenInStep
  <2>2. \A q \in Requests \ {r} : shown[q] \in issued => fid'[shown[q]] = fid[shown[q]]
    BY <1>1, <1>3
  <2>3. \A q \in Requests \ {r} : TokenInStep(q)'
    BY <1>2, <1>3, <1>4, <2>2 DEF TokenInStep
  <2> QED
    BY <2>1, <2>3
<1>6. Members'
  BY <1>2, <1>3, <1>4 DEF Members
<1>7. OneLiveToken'
  BY <1>2, <1>3, <1>4 DEF OneLiveToken, Exchangeable, Rotating
<1>8. KeysExpire'
  BY <1>2, <1>3, <1>4 DEF KeysExpire
<1>9. LossHasCause'
  BY <1>1, <1>2, <1>3, <1>4 DEF LossHasCause, Sent, Cause
<1> QED
  BY <1>5, <1>6, <1>7, <1>8, <1>9

LEMMA CrashTInv ==
  ASSUME TypeOK, TInv, NEW r \in Requests, Crash(r)
  PROVE  TInv'
<1> USE DEF TypeOK, TInv, Goto, SessionPoints, tokenVars
<1>1. CASE pc[r] \in {"sadd", "expire"}
  <2>1. r \notin Edits
    BY <1>1 DEF TokenInStep
  <2>2. pc'[r] = (IF pc[r] = "expire" THEN "crashed" ELSE "failed")
        /\ \A q \in Requests \ {r} : pc'[q] = pc[q]
    BY <2>1 DEF Crash
  <2>3. UNCHANGED tokenVars
    BY DEF Crash
  <2>4. \A q \in Requests : TokenInStep(q)'
    BY <1>1, <2>2, <2>3 DEF TokenInStep
  <2>5. Members'
    BY <1>1, <2>2, <2>3 DEF Members
  <2>6. OneLiveToken'
    BY <2>2, <2>3 DEF OneLiveToken, Exchangeable, Rotating
  <2>7. KeysExpire'
    BY <1>1, <2>2, <2>3 DEF KeysExpire
  <2>8. LossHasCause'
    BY <1>1, <2>2, <2>3 DEF LossHasCause, Sent, Cause
  <2> QED
    BY <2>4, <2>5, <2>6, <2>7, <2>8
<1>2. CASE pc[r] \notin {"sadd", "expire"}
  BY <1>2, QuietTInv DEF Crash, Answer, Busy, Ended
<1> QED
  BY <1>1, <1>2

\* The requests that write the users table do not come near the tokens.
LEMMA UserTInv ==
  ASSUME TypeOK, TInv, NEW r \in Requests, UserBegin(r) \/ UserStep(r), UNCHANGED tokenVars
  PROVE  TInv'
<1> USE DEF PatchPoints, SessionPoints
<1>1. ASSUME NEW f \in Registrations, CheckRegister(r, f) PROVE TInv'
  BY <1>1, QuietTInv DEF CheckRegister, MayBegin
<1>2. ASSUME NEW a \in Users, NEW u \in Users, NEW f \in Patches, Authorize(r, a, u, f)
      PROVE  TInv'
  BY <1>2, QuietTInv DEF Authorize, MayBegin
<1>3. ASSUME LoadTarget(r) \/ CountAdmins(r) \/ CheckEmail(r) PROVE TInv'
  <2>1. PICK to \in {"count", "clash", "commit"} : Goto(r, to)
    BY <1>3 DEF LoadTarget, CountAdmins, CheckEmail, AfterGuards, Proceed
  <2>2. pc[r] \in PatchPoints
    BY <1>3 DEF LoadTarget, CountAdmins, CheckEmail
  <2> QED
    BY <2>1, <2>2, QuietTInv
<1>4. ASSUME RefuseTarget(r) \/ RefuseCount(r) \/ RefuseEmail(r) \/ CommitPatch(r)
               \/ ViolateUnique(r) \/ \E u \in Users : InsertUser(r, u)
      PROVE  TInv'
  <2>1. PICK to \in {"refused", "done", "failed"} : Goto(r, to)
    BY <1>4 DEF RefuseTarget, RefuseCount, RefuseEmail, CommitPatch, ViolateUnique, InsertUser,
                Answer
  <2>2. pc[r] \in PatchPoints \cup {"insert"}
    BY <1>4 DEF RefuseTarget, RefuseCount, RefuseEmail, CommitPatch, ViolateUnique, InsertUser,
                Clashes
  <2> QED
    BY <2>1, <2>2, QuietTInv
<1> QED
  BY <1>1, <1>2, <1>3, <1>4 DEF UserBegin, UserStep

LEMMA SessionTInv ==
  ASSUME TypeOK, TInv, NEW r \in Requests, SessionBegin(r) \/ SessionStep(r)
  PROVE  TInv'
<1>1. ASSUME NEW u \in Users, Login(r, u), r \notin Edits PROVE TInv'
  BY <1>1, QuietTInv DEF Login, MayBegin
<1>2. ASSUME NEW t \in Requests, Refresh(r, t), r \notin Edits PROVE TInv'
  BY <1>2, PresentTInv DEF Refresh, MayBegin
<1>3. ASSUME NEW t \in Requests, Logout(r, t), r \notin Edits PROVE TInv'
  <2>1. fid[t] \in Requests /\ shown'[r] = t
    BY <1>3 DEF Logout, TypeOK
  <2> QED
    BY <1>3, <2>1, DeleteTInv DEF Logout, MayBegin
<1>4. ASSUME LoadUser(r) PROVE TInv'
  <2>1. r \notin Edits
    BY <1>4 DEF LoadUser, TInv, TokenInStep, SessionPoints
  <2>2. PICK to \in {"srem", "revoke"} : Goto(r, to)
    BY <1>4 DEF LoadUser
  <2> QED
    BY <1>4, <2>1, <2>2, QuietTInv DEF LoadUser
<1>5. ASSUME ConsumeToken(r), shown[r] \notin family[fid[r]] PROVE TInv'
  <2>1. r \notin Edits
    BY <1>5 DEF ConsumeToken, TInv, TokenInStep, SessionPoints
  <2>2. Goto(r, "burn") /\ UNCHANGED tokenVars
    BY <1>5 DEF ConsumeToken, tokenVars
  <2> QED
    BY <1>5, <2>1, <2>2, QuietTInv DEF ConsumeToken
<1>6. ASSUME DeleteFamily(r) PROVE TInv'
  <2>1. fid' = [fid EXCEPT ![r] = fid[r]] /\ shown' = [shown EXCEPT ![r] = shown'[r]]
    BY <1>6 DEF DeleteFamily, TypeOK
  <2> QED
    BY <1>6, <2>1, DeleteTInv DEF DeleteFamily, TypeOK
<1> QED
  BY <1>1, <1>2, <1>3, <1>4, <1>5, <1>6, StartFamilyTInv, ArmFamilyTInv, ConsumeTokenTInv,
     StoreTokenTInv DEF SessionBegin, SessionStep

-----------------------------------------------------------------------------
(* Both invariants together *)

\* A step of a session writes no account and is no concern of those who do.
LEMMA SessionAInv ==
  ASSUME AInv, TypeOK', NEW r \in Requests, NEW to, to \notin PatchPoints \cup {"insert"}, Goto(r, to),
         UNCHANGED <<user, target, form, seen, overtaken>>,
         \A q \in Requests \ {r} : who'[q] = who[q]
  PROVE  AInv'
<1>1. \A q \in Requests : AccountInStep(q)'
  BY DEF AInv, TypeOK, AccountInStep, Goto, PatchPoints, Accounts
<1>2. ~Clashes(r)' /\ \A q \in Requests \ {r} : Same(q)
  BY DEF AInv, TypeOK, Goto, Same, Clashes, PatchPoints
<1> QED
  BY <1>1, <1>2, ReadAInv

LEMMA SessionBeginAInv ==
  ASSUME AInv, NEW r \in Requests, SessionBegin(r)
  PROVE  AInv'
<1> USE DEF AInv, TypeOK, Goto, SetFamily, SessionPoints, PatchPoints, Ended
<1>1. ASSUME NEW u \in Users, Login(r, u) PROVE AInv'
  <2>1. TypeOK'
    BY <1>1 DEF Login, tokenVars
  <2> QED
    BY <1>1, <2>1, SessionAInv DEF Login
<1>2. ASSUME NEW t \in Requests, Refresh(r, t) PROVE AInv'
  <2>1. TypeOK'
    BY <1>2 DEF Refresh
  <2> QED
    BY <1>2, <2>1, SessionAInv DEF Refresh
<1>3. ASSUME NEW t \in Requests, Logout(r, t) PROVE AInv'
  <2>1. TypeOK'
    BY <1>3 DEF Logout
  <2> QED
    BY <1>3, <2>1, SessionAInv DEF Logout
<1> QED
  BY <1>1, <1>2, <1>3 DEF SessionBegin

LEMMA SessionStepAInv ==
  ASSUME AInv, NEW r \in Requests, SessionStep(r)
  PROVE  AInv'
<1> USE DEF StartFamily, ArmFamily, LoadUser, ConsumeToken, StoreToken, DeleteFamily
<1>1. PICK to \in {"expire", "done", "srem", "revoke", "sadd", "burn", "refused"} : Goto(r, to)
  BY DEF SessionStep
<1>2. UNCHANGED <<user, who, target, form, seen, overtaken>>
  BY DEF SessionStep
<1>3. /\ family' \in [Requests -> SUBSET Requests] /\ armed' \subseteq Requests
      /\ issued' \subseteq Requests /\ minted' \subseteq Requests
      /\ UNCHANGED <<fid, shown>>
  <2> USE DEF AInv, TypeOK, SetFamily
  <2>1. CASE StartFamily(r) \/ StoreToken(r)
    BY <2>1
  <2>2. CASE ArmFamily(r) \/ LoadUser(r)
    BY <2>2 DEF tokenVars
  <2>3. CASE ConsumeToken(r)
    BY <2>3
  <2>4. CASE DeleteFamily(r)
    BY <2>4
  <2> QED
    BY <2>1, <2>2, <2>3, <2>4 DEF SessionStep
<1>4. TypeOK'
  BY <1>1, <1>2, <1>3 DEF AInv, TypeOK, Goto, SessionPoints, Ended
<1> QED
  BY <1>1, <1>2, <1>4, SessionAInv DEF PatchPoints

LEMMA CrashAInv ==
  ASSUME AInv, NEW r \in Requests, Crash(r)
  PROVE  AInv'
<1>1. CASE r \in Edits
  BY <1>1, AnswerAInv DEF Crash, Ended
<1>2. CASE r \notin Edits
  <2>1. TypeOK'
    BY <1>2 DEF Crash, AInv, TypeOK, Goto, tokenVars, Ended
  <2>2. PICK to \in {"crashed", "failed"} : Goto(r, to)
    BY <1>2 DEF Crash
  <2> QED
    BY <1>2, <2>1, <2>2, SessionAInv DEF Crash, PatchPoints
<1> QED
  BY <1>1, <1>2

LEMMA NextInv == AInv /\ TInv /\ [Next]_vars => AInv' /\ TInv'
<1> SUFFICES ASSUME AInv, TInv, [Next]_vars PROVE AInv' /\ TInv'
  OBVIOUS
<1>1. TypeOK
  BY DEF AInv
<1>2. ASSUME NEW r \in Requests, UserBegin(r) \/ UserStep(r), UNCHANGED tokenVars
      PROVE  AInv' /\ TInv'
  BY <1>1, <1>2, UserBeginAInv, UserStepAInv, UserTInv
<1>3. ASSUME NEW r \in Requests, SessionBegin(r) \/ SessionStep(r) PROVE AInv' /\ TInv'
  BY <1>1, <1>3, SessionBeginAInv, SessionStepAInv, SessionTInv
<1>4. ASSUME NEW r \in Requests, Crash(r) PROVE AInv' /\ TInv'
  BY <1>1, <1>4, CrashAInv, CrashTInv
<1>5. CASE UNCHANGED vars
  <2> USE <1>5 DEF vars, userVars, tokenVars
  <2>1. AInv'
    <3>1. TypeOK' /\ EmailsUnique' /\ \A q \in Requests : AccountInStep(q)'
      BY DEF AInv, TypeOK, EmailsUnique, Accounts, AccountInStep
    <3>2. ConflictsAreRaces'
      BY DEF AInv, ConflictsAreRaces, Clashes, Taken, Accounts, Patched
    <3> QED
      BY <3>1, <3>2 DEF AInv
  <2>2. TInv'
    BY DEF TInv, TokenInStep, Members, OneLiveToken, Exchangeable, Rotating, KeysExpire,
           LossHasCause, Sent, Cause
  <2> QED
    BY <2>1, <2>2
<1> QED
  BY <1>2, <1>3, <1>4, <1>5 DEF Next, Rest

LEMMA Invariance == Spec => [](AInv /\ TInv)
BY InitAInv, InitTInv, NextInv, PTL DEF Spec

-----------------------------------------------------------------------------
(* Theorems: tokens *)

\* Every variable keeps its type; what a PATCH writes is a row, whatever columns it
\* leaves out and however stale what it has read (update_user).
THEOREM TypeCorrect == Spec => []TypeOK
<1>1. AInv => TypeOK
  BY DEF AInv
<1> QED
  BY <1>1, Invariance, PTL

\* A family has one token at the most that is live or about to be, for any number of
\* tabs, replays and logouts (rotate).
THEOREM OneTokenLives == Spec => []OneLiveToken
<1>1. TInv => OneLiveToken
  BY DEF TInv
<1> QED
  BY <1>1, Invariance, PTL

\* Whoever loses his session to reuse detection has presented a token for which another
\* request than the one that minted it was granted a new one, or the family had been
\* ended before (the DEL in rotate).
THEOREM BurnsHaveCause == Spec => []BurnHasCause
<1>1. AInv /\ TInv => BurnHasCause
  <2> SUFFICES ASSUME AInv, TInv, NEW r \in Requests, pc[r] = "burn"
               PROVE  \E q \in Requests \ {r, shown[r]} :
                        /\ fid[q] = fid[r]
                        /\ \/ q \in minted /\ shown[q] = shown[r]
                           \/ pc[q] \in {"refused", "signed_out"}
    BY DEF BurnHasCause
  <2>1. /\ shown[r] \in issued /\ fid[r] = fid[shown[r]]
        /\ shown[r] \notin family[fid[r]] /\ r \notin minted
    BY DEF TInv, TokenInStep
  <2>2. pc[shown[r]] = "done" /\ shown[r] \in Requests
    BY <2>1 DEF AInv, TypeOK, TInv, TokenInStep
  <2>3. PICK q \in Requests :
          /\ fid[q] = fid[shown[r]]
          /\ \/ q \in minted /\ q # shown[r] /\ shown[q] = shown[r]
             \/ pc[q] \in {"refused", "signed_out"}
    BY <2>1, <2>2 DEF TInv, LossHasCause, Sent, Cause
  <2>4. q \notin {r, shown[r]}
    BY <2>1, <2>2, <2>3
  <2> QED
    BY <2>1, <2>3, <2>4
<1> QED
  BY <1>1, Invariance, PTL

\* A family key without a TTL has a handler about to set it, or one that died there.
THEOREM FamiliesExpire == Spec => []KeysExpire
<1>1. TInv => KeysExpire
  BY DEF TInv
<1> QED
  BY <1>1, Invariance, PTL

LEMMA InitExchanged == Init => ExchangedOnce
BY DEF Init, ExchangedOnce

\* A token that a request was granted another one for is in no family any more.
LEMMA NextExchanged ==
  AInv /\ TInv /\ ExchangedOnce /\ [Next]_vars => ExchangedOnce'
<1> SUFFICES ASSUME AInv, TInv, ExchangedOnce, [Next]_vars PROVE ExchangedOnce'
  OBVIOUS
<1> USE DEF AInv, TypeOK, ExchangedOnce
<1>1. ASSUME NEW r \in Requests, StartFamily(r) PROVE ExchangedOnce'
  BY <1>1 DEF StartFamily, TInv, TokenInStep
<1>2. ASSUME NEW r \in Requests, ConsumeToken(r) PROVE ExchangedOnce'
  <2>1. CASE shown[r] \in family[fid[r]]
    <3>1. shown[r] \in issued /\ fid[r] = fid[shown[r]]
      BY <1>2 DEF ConsumeToken, TInv, TokenInStep
    <3>2. \A q \in minted : shown[q] = shown[r] => shown[q] = q
      BY <2>1, <3>1 DEF TInv, TokenInStep
    <3> QED
      BY <1>2, <2>1, <3>2 DEF ConsumeToken
  <2>2. CASE shown[r] \notin family[fid[r]]
    BY <1>2, <2>2 DEF ConsumeToken
  <2> QED
    BY <2>1, <2>2
<1>3. ASSUME NEW r \in Requests, SessionBegin(r) PROVE ExchangedOnce'
  <2>1. r \notin minted
    BY <1>3 DEF SessionBegin, Login, Refresh, Logout, MayBegin, TInv, TokenInStep
  <2>2. UNCHANGED minted /\ \A q \in Requests \ {r} : shown'[q] = shown[q]
    BY <1>3 DEF SessionBegin, Login, Refresh, Logout, tokenVars
  <2> QED
    BY <2>1, <2>2
<1>4. ASSUME UNCHANGED <<shown, minted>> PROVE ExchangedOnce'
  BY <1>4
<1>5. ASSUME NEW r \in Requests,
             ArmFamily(r) \/ LoadUser(r) \/ StoreToken(r) \/ DeleteFamily(r) \/ Crash(r)
      PROVE  ExchangedOnce'
  BY <1>4, <1>5 DEF ArmFamily, LoadUser, StoreToken, DeleteFamily, Crash, tokenVars
<1> QED
  BY <1>1, <1>2, <1>3, <1>4, <1>5 DEF Next, Rest, SessionStep, vars, tokenVars

\* No refresh token is exchanged twice, neither by requests that overlap nor later
\* ("concurrent refreshes can't both succeed", token_store).
THEOREM NothingExchangedTwice == Spec => []ExchangedOnce
BY InitExchanged, NextExchanged, Invariance, PTL DEF Spec

-----------------------------------------------------------------------------
(* Theorems: accounts *)

\* A registration or a change of address that the unique index refuses was overtaken
\* between its look and its write, for any number of them at once (register_user,
\* update_user).
THEOREM ConflictsRaced == Spec => []ConflictsAreRaces
<1>1. AInv => ConflictsAreRaces
  BY DEF AInv
<1> QED
  BY <1>1, Invariance, PTL

\* A PATCH of an admin who still is one leaves an admin: himself.
LEMMA ActorStays ==
  ASSUME AInv, NEW r \in Requests, CommitPatch(r), who[r] \in ActiveAdmins
  PROVE  ActiveAdmins' # {}
<1> DEFINE a == who[r]
<1>1. a \in Accounts /\ user[a] \in UserRow /\ user[a].role = "admin" /\ user[a].active = TRUE
  BY DEF ActiveAdmins, Accounts, AInv, TypeOK, UserRow
<1>2. CASE target[r] # a
  <2>1. user'[a] = user[a]
    BY <1>1, <1>2 DEF CommitPatch, AInv, TypeOK, Accounts
  <2>2. a \in ActiveAdmins'
    BY <1>1, <2>1 DEF ActiveAdmins, Accounts
  <2> QED
    BY <2>2
<1>3. CASE target[r] = a
  <2>1. /\ seen[r].role = "admin" /\ seen[r].active = TRUE
        /\ form[r].role \in {Keep, "admin"} /\ form[r].active # FALSE /\ form[r] \in Form
    BY <1>3 DEF CommitPatch, AInv, TypeOK, AccountInStep, PatchPoints
  <2>2. Patched(r).role = "admin"
    BY <1>1, <1>3, <2>1 DEF Patched, Column
  <2>3. Patched(r).active = TRUE
    BY <1>1, <1>3, <2>1 DEF Patched, Column, Form
  <2>4. user'[a] = Patched(r) /\ Patched(r) \in UserRow
    BY <1>1, <1>3, PatchedType DEF CommitPatch, AInv, TypeOK, Accounts
  <2>5. a \in ActiveAdmins'
    BY <1>1, <2>2, <2>3, <2>4, NoUserAssumption DEF ActiveAdmins, Accounts
  <2> QED
    BY <2>5
<1> QED
  BY <1>2, <1>3

LEMMA NextAdmins ==
  ASSUME AInv, [Next]_vars, ActiveAdmins # {}, ActiveAdmins' = {}
  PROVE  \E r \in Requests : /\ pc[r] = "commit" /\ pc'[r] = "done"
                             /\ who[r] \notin ActiveAdmins
<1>1. ASSUME NEW r \in Requests, CommitPatch(r)
      PROVE  pc[r] = "commit" /\ pc'[r] = "done" /\ who[r] \notin ActiveAdmins
  BY <1>1, ActorStays DEF CommitPatch, Answer, Goto, AInv, TypeOK
<1>2. ASSUME NEW r \in Requests, NEW u \in Users, InsertUser(r, u) PROVE FALSE
  <2>1. \A v \in Accounts : v # u /\ user'[v] = user[v]
    BY <1>2 DEF InsertUser, AInv, TypeOK, Accounts
  <2> QED
    BY <2>1 DEF ActiveAdmins, Accounts
<1>3. ASSUME UNCHANGED user PROVE FALSE
  BY <1>3 DEF ActiveAdmins, Accounts
<1>4. ASSUME NEW r \in Requests, UserBegin(r) \/ SessionBegin(r) \/ SessionStep(r) \/ Crash(r)
      PROVE  FALSE
  BY <1>3, <1>4 DEF UserBegin, CheckRegister, Authorize, SessionBegin, Login, Refresh, Logout,
                    SessionStep, StartFamily, ArmFamily, LoadUser, ConsumeToken, StoreToken,
                    DeleteFamily, Crash
<1>5. ASSUME NEW r \in Requests, UserStep(r), ~CommitPatch(r), \A u \in Users : ~InsertUser(r, u)
      PROVE  FALSE
  BY <1>3, <1>5 DEF UserStep, LoadTarget, RefuseTarget, CountAdmins, RefuseCount, CheckEmail,
                    RefuseEmail, ViolateUnique
<1> QED
  BY <1>1, <1>2, <1>3, <1>4, <1>5 DEF Next, Rest, vars, userVars

\* Only the commit of an admin who has lost his rights since he was authorized removes
\* the last active admin (the guards of update_user).
THEOREM LastAdminGuarded == Spec => LastAdminOnlyByStaleActor
<1>1. AInv /\ [Next]_vars =>
        [ActiveAdmins # {} /\ ActiveAdmins' = {} =>
           \E r \in Requests : /\ pc[r] = "commit" /\ pc'[r] = "done"
                               /\ who[r] \notin ActiveAdmins]_vars
  BY NextAdmins
<1> QED
  BY <1>1, Invariance, PTL DEF Spec, LastAdminOnlyByStaleActor

-----------------------------------------------------------------------------
(* An admin remains unless two PATCHes decide at once *)

\* Between the read of the target and the commit that relies on it.
Deciding == PatchPoints \ {"load"}

\* No two PATCHes are there at once, as if each had locked the admins' rows when it read
\* its target.  The code does not ensure it.
PatchesApart == \A q, r \in Requests : pc[q] \in Deciding /\ pc[r] \in Deciding => q = r

\* What a PATCH of somebody else's account has seen is still so.
RightsInStep(r) ==
  pc[r] \in Deciding /\ target[r] # who[r] =>
    /\ seen[r] = user[target[r]]
    /\ pc[r] # "count" /\ LosesAdmin(seen[r], form[r]) =>
         \E b \in ActiveAdmins : b # target[r]

ARInv == AdminRemains /\ \A r \in Requests : RightsInStep(r)

\* A step of r that writes no row.
LEMMA ReadAR ==
  ASSUME ARInv, UNCHANGED user, NEW r \in Requests, RightsInStep(r)',
         \A q \in Requests \ {r} : /\ pc'[q] = pc[q] /\ target'[q] = target[q]
                                   /\ who'[q] = who[q] /\ seen'[q] = seen[q]
                                   /\ form'[q] = form[q]
  PROVE  ARInv'
<1>1. ActiveAdmins' = ActiveAdmins
  BY DEF ActiveAdmins, Accounts
<1>2. \A q \in Requests \ {r} : RightsInStep(q)'
  BY <1>1 DEF ARInv, RightsInStep
<1> QED
  BY <1>1, <1>2 DEF ARInv, AdminRemains

\* The commit of a PATCH leaves an active admin: its own target was not the only one.
LEMMA CommitLeavesAdmin ==
  ASSUME AInv, ARInv, NEW r \in Requests, CommitPatch(r)
  PROVE  AdminRemains'
<1> USE DEF AInv, TypeOK
<1> DEFINE t == target[r]
<1>1. /\ pc[r] = "commit" /\ t \in Accounts /\ user' = [user EXCEPT ![t] = Patched(r)]
      /\ Patched(r) \in UserRow
  BY PatchedType DEF CommitPatch, AccountInStep, PatchPoints
<1>2. ASSUME NEW b \in ActiveAdmins, b # t PROVE b \in ActiveAdmins'
  BY <1>1, <1>2 DEF ActiveAdmins, Accounts
<1>3. ASSUME t \in ActiveAdmins, t \notin ActiveAdmins'
      PROVE  \E b \in ActiveAdmins : b # t
  <2>1. user[t] \in UserRow /\ user[t].role = "admin" /\ user[t].active = TRUE
    BY <1>1, <1>3 DEF ActiveAdmins, Accounts, UserRow
  <2>2. Patched(r).role # "admin" \/ Patched(r).active # TRUE
    BY <1>1, <1>3, NoUserAssumption DEF ActiveAdmins, Accounts, UserRow
  <2>3. CASE t = who[r]
    <3>1. /\ seen[r].role = "admin" /\ seen[r].active = TRUE /\ form[r] \in Form
          /\ form[r].role \in {Keep, "admin"} /\ form[r].active # FALSE
      BY <1>1, <2>3 DEF AccountInStep, PatchPoints
    <3>2. Patched(r).role = "admin"
      BY <2>1, <3>1 DEF Patched, Column
    <3>3. Patched(r).active = TRUE
      BY <2>1, <3>1 DEF Patched, Column, Form
    <3> QED
      BY <2>2, <3>2, <3>3
  <2>4. CASE t # who[r]
    <3>1. seen[r] = user[t]
      BY <1>1, <2>4 DEF ARInv, RightsInStep, Deciding, PatchPoints
    <3>2. form[r].role \notin {Keep, "admin"} => LosesAdmin(seen[r], form[r])
      BY <2>1, <3>1 DEF LosesAdmin
    <3>3. form[r].active = FALSE => LosesAdmin(seen[r], form[r])
      BY <2>1, <3>1 DEF LosesAdmin
    <3>4. form[r].role \in {Keep, "admin"} => Patched(r).role = "admin"
      BY <2>1, <3>1 DEF Patched, Column
    <3>5. form[r].active # FALSE => Patched(r).active = TRUE
      BY <2>1, <3>1 DEF Patched, Column, Form
    <3>6. LosesAdmin(seen[r], form[r])
      BY <2>2, <3>2, <3>3, <3>4, <3>5
    <3> QED
      BY <1>1, <2>4, <3>6 DEF ARInv, RightsInStep, Deciding, PatchPoints
  <2> QED
    BY <2>3, <2>4
<1> QED
  BY <1>2, <1>3 DEF ARInv, AdminRemains

\* A new account takes no row of another one, and is nobody's target.
LEMMA InsertAR ==
  ASSUME AInv, ARInv, NEW r \in Requests, NEW u \in Users, InsertUser(r, u)
  PROVE  ARInv'
<1> USE DEF AInv, TypeOK
<1>1. \A v \in Accounts : v # u /\ user'[v] = user[v]
  BY DEF InsertUser, Accounts
<1>2. ActiveAdmins \subseteq ActiveAdmins'
  BY <1>1 DEF ActiveAdmins, Accounts
<1>3. /\ pc'[r] \notin Deciding
      /\ \A q \in Requests \ {r} : /\ pc'[q] = pc[q] /\ target'[q] = target[q]
                                   /\ who'[q] = who[q] /\ seen'[q] = seen[q]
                                   /\ form'[q] = form[q]
  BY DEF InsertUser, Answer, Goto, Deciding, PatchPoints
<1>4. ASSUME NEW q \in Requests, pc[q] \in Deciding PROVE target[q] \in Accounts
  BY <1>4 DEF AccountInStep, Deciding
<1>5. \A q \in Requests : RightsInStep(q)'
  BY <1>1, <1>2, <1>3, <1>4 DEF ARInv, RightsInStep
<1> QED
  BY <1>2, <1>5 DEF ARInv, AdminRemains

LEMMA NextAR ==
  ASSUME PatchesApart, AInv, ARInv, [Next]_vars
  PROVE  ARInv'
<1> USE DEF AInv, TypeOK, Deciding, PatchPoints
<1>1. ASSUME NEW r \in Requests, NEW how \in Ended, Answer(r, how), UNCHANGED user
      PROVE  ARInv'
  BY <1>1, ReadAR DEF Answer, Goto, RightsInStep, Ended
<1>2. ASSUME NEW r \in Requests, NEW to, to \notin Deciding, Goto(r, to), UNCHANGED user,
             \A q \in Requests \ {r} : /\ target'[q] = target[q] /\ who'[q] = who[q]
                                       /\ seen'[q] = seen[q] /\ form'[q] = form[q]
      PROVE  ARInv'
  BY <1>2, ReadAR DEF Goto, RightsInStep
<1>3. ASSUME NEW r \in Requests, LoadTarget(r) PROVE ARInv'
  <2>1. target[r] # who[r] => seen'[r] = user[target[r]]
    BY <1>3 DEF LoadTarget, Loaded
  <2>2. LosesAdmin(seen'[r], form[r]) => pc'[r] = "count"
    BY <1>3 DEF LoadTarget, Goto
  <2>3. RightsInStep(r)'
    BY <1>3, <2>1, <2>2 DEF LoadTarget, RightsInStep, LosesAdmin
  <2> QED
    BY <1>3, <2>3, ReadAR DEF LoadTarget, Goto
<1>4. ASSUME NEW r \in Requests, CountAdmins(r) PROVE ARInv'
  <2>1. IsFiniteSet(ActiveAdmins)
    BY UsersFinite, FS_Subset DEF ActiveAdmins, Accounts
  <2>2. ~(ActiveAdmins \subseteq {target[r]})
    <3> SUFFICES ASSUME ActiveAdmins \subseteq {target[r]} PROVE FALSE
      OBVIOUS
    <3>1. Cardinality({target[r]}) = 1 /\ IsFiniteSet({target[r]})
      BY FS_Singleton
    <3>2. Cardinality(ActiveAdmins) <= 1
      BY <3>1, FS_Subset
    <3> QED
      BY <1>4, <2>1, <3>2, FS_CardinalityType DEF CountAdmins
  <2>3. ActiveAdmins' = ActiveAdmins
    BY <1>4 DEF CountAdmins, ActiveAdmins, Accounts
  <2>4. RightsInStep(r)'
    BY <1>4, <2>2, <2>3 DEF CountAdmins, Proceed, ARInv, RightsInStep
  <2> QED
    BY <1>4, <2>4, ReadAR DEF CountAdmins, Proceed, Goto
<1>5. ASSUME NEW r \in Requests, CheckEmail(r) PROVE ARInv'
  <2>1. ActiveAdmins' = ActiveAdmins
    BY <1>5 DEF CheckEmail, ActiveAdmins, Accounts
  <2>2. RightsInStep(r)'
    BY <1>5, <2>1 DEF CheckEmail, Proceed, ARInv, RightsInStep, LosesAdmin
  <2> QED
    BY <1>5, <2>2, ReadAR DEF CheckEmail, Proceed, Goto
<1>6. ASSUME NEW r \in Requests, CommitPatch(r) PROVE ARInv'
  <2>1. \A q \in Requests : pc'[q] \notin Deciding
    BY <1>6 DEF CommitPatch, Answer, Goto, PatchesApart
  <2> QED
    BY <1>6, <2>1, CommitLeavesAdmin DEF ARInv, RightsInStep
<1>7. ASSUME NEW r \in Requests, UserStep(r) PROVE ARInv'
  BY <1>1, <1>3, <1>4, <1>5, <1>6, <1>7, InsertAR
     DEF UserStep, RefuseTarget, RefuseCount, RefuseEmail, ViolateUnique, Ended
<1>8. ASSUME NEW r \in Requests, UserBegin(r) PROVE ARInv'
  BY <1>2, <1>8 DEF UserBegin, CheckRegister, Authorize
<1>9. ASSUME NEW r \in Requests, SessionBegin(r) PROVE ARInv'
  BY <1>2, <1>9 DEF SessionBegin, Login, Refresh, Logout
<1>10. ASSUME NEW r \in Requests, SessionStep(r) PROVE ARInv'
  BY <1>2, <1>10 DEF SessionStep, StartFamily, ArmFamily, LoadUser, ConsumeToken, StoreToken,
                     DeleteFamily
<1>11. ASSUME NEW r \in Requests, Crash(r) PROVE ARInv'
  BY <1>1, <1>2, <1>11 DEF Crash, Ended
<1>12. CASE UNCHANGED vars
  BY <1>12 DEF vars, userVars, ARInv, RightsInStep, LosesAdmin, AdminRemains, ActiveAdmins, Accounts
<1> QED
  BY <1>7, <1>8, <1>9, <1>10, <1>11, <1>12 DEF Next, Rest

\* A table that starts with an active admin always has one, unless two PATCHes decide at
\* once: what update_user lacks is a lock on what its guards have read.
THEOREM AdminStays ==
  ASSUME \A t \in Tables : \E u \in Users : /\ t[u] # NoUser
                                            /\ t[u].role = "admin" /\ t[u].active
  PROVE  Spec /\ []PatchesApart => []AdminRemains
<1>1. Init => ARInv
  <2> SUFFICES ASSUME Init PROVE ARInv
    OBVIOUS
  <2>1. \A r \in Requests : RightsInStep(r)
    BY DEF Init, UsersInit, RightsInStep, Deciding, PatchPoints
  <2>2. PICK u \in Users : user[u] # NoUser /\ user[u].role = "admin" /\ user[u].active
    BY DEF Init, UsersInit
  <2>3. AdminRemains
    BY <2>2 DEF AdminRemains, ActiveAdmins, Accounts
  <2> QED
    BY <2>1, <2>3 DEF ARInv
<1>2. PatchesApart /\ AInv /\ ARInv /\ [Next]_vars => ARInv'
  BY NextAR
<1>3. ARInv => AdminRemains
  BY DEF ARInv
<1> QED
  BY <1>1, <1>2, <1>3, Invariance, PTL DEF Spec

-----------------------------------------------------------------------------
(* Rotation implements TokenChain *)

LEMMA ChooseOnly == \A S, x : S = {x} => (CHOOSE y \in S : TRUE) = x
OBVIOUS

LEMMA SameOnly ==
  ASSUME NEW S, NEW T, S = T
  PROVE  Only(S) = Only(T)
BY Zenon

LEMMA OnlyOne ==
  ASSUME NEW x \in Requests
  PROVE  Only({x}) = x /\ Only({x}) # NoToken
BY ChooseOnly, TokenAssumption DEF Only

Live == [f \in Requests |-> Only(family[f])]
Coming == [f \in Requests |-> Only(Rotating(f))]

\* A step that concerns one family at the most.
LEMMA OneFamily ==
  ASSUME NEW f \in Requests
  PROVE  /\ (\A g \in Requests \ {f} : family'[g] = family[g]) =>
              Live' = [Live EXCEPT ![f] = Only(family'[f])]
         /\ (\A g \in Requests \ {f} : Rotating(g)' = Rotating(g)) =>
              Coming' = [Coming EXCEPT ![f] = Only(Rotating(f)')]
<1>1. ASSUME \A g \in Requests \ {f} : family'[g] = family[g]
      PROVE  Live' = [Live EXCEPT ![f] = Only(family'[f])]
  <2>1. \A g \in Requests \ {f} : Only(family'[g]) = Only(family[g])
    BY <1>1, SameOnly
  <2> QED
    BY <2>1 DEF Live
<1>2. ASSUME \A g \in Requests \ {f} : Rotating(g)' = Rotating(g)
      PROVE  Coming' = [Coming EXCEPT ![f] = Only(Rotating(f)')]
  <2>1. \A g \in Requests \ {f} : Only(Rotating(g)') = Only(Rotating(g))
    BY <1>2, SameOnly
  <2> QED
    BY <2>1 DEF Coming
<1> QED
  BY <1>1, <1>2

\* A step that leaves the families, or the rotations under way, as they are.
LEMMA SameLive == (\A g \in Requests : family'[g] = family[g]) => Live' = Live
<1> SUFFICES ASSUME \A g \in Requests : family'[g] = family[g] PROVE Live' = Live
  OBVIOUS
<1>1. \A g \in Requests : Only(family'[g]) = Only(family[g])
  BY SameOnly
<1> QED
  BY <1>1 DEF Live

LEMMA SameComing == (\A g \in Requests : Rotating(g)' = Rotating(g)) => Coming' = Coming
<1> SUFFICES ASSUME \A g \in Requests : Rotating(g)' = Rotating(g) PROVE Coming' = Coming
  OBVIOUS
<1>1. \A g \in Requests : Only(Rotating(g)') = Only(Rotating(g))
  BY SameOnly
<1> QED
  BY <1>1 DEF Coming

\* A set of tokens of a family that has but one is empty or has one member.
LEMMA FewTokens ==
  ASSUME AInv, TInv, NEW f \in Requests
  PROVE  /\ family[f] = {} \/ \E t \in Requests : family[f] = {t} /\ Rotating(f) = {}
         /\ Rotating(f) = {} \/ \E t \in Requests : Rotating(f) = {t} /\ family[f] = {}
<1>1. family[f] \subseteq Requests /\ Rotating(f) \subseteq Requests
  BY DEF AInv, TypeOK, Rotating
<1>2. family[f] \cap Rotating(f) = {}
  BY DEF TInv, Members, Rotating
<1>3. \A q, r \in family[f] \cup Rotating(f) : q = r
  BY DEF TInv, OneLiveToken, Exchangeable
<1>4. ASSUME family[f] # {}
      PROVE  \E t \in Requests : family[f] = {t} /\ Rotating(f) = {}
  <2>1. PICK t \in family[f] : TRUE
    BY <1>4
  <2>2. family[f] = {t} /\ Rotating(f) = {}
    BY <1>2, <1>3, <2>1
  <2> QED
    BY <1>1, <2>1, <2>2
<1>5. ASSUME Rotating(f) # {}
      PROVE  \E t \in Requests : Rotating(f) = {t} /\ family[f] = {}
  <2>1. PICK t \in Rotating(f) : TRUE
    BY <1>5
  <2>2. Rotating(f) = {t} /\ family[f] = {}
    BY <1>2, <1>3, <2>1
  <2> QED
    BY <1>1, <2>1, <2>2
<1> QED
  BY <1>4, <1>5

LEMMA StartChains ==
  ASSUME AInv, TInv, NEW r \in Requests, StartFamily(r)
  PROVE  Chain!Start(r)
<1> USE DEF AInv, TypeOK, StartFamily, SetFamily, Goto
<1>1. fid[r] = r /\ r \notin minted
  BY DEF TInv, TokenInStep
<1>2. family[r] = {}
  BY <1>1 DEF TInv, Members
<1>3. family'[r] = {r} /\ \A g \in Requests \ {r} : family'[g] = family[g]
  BY <1>1, <1>2
<1>4. Live' = [Live EXCEPT ![r] = r]
  BY <1>3, OneFamily, OnlyOne
<1>5. Coming' = Coming
  <2>1. \A g \in Requests : Rotating(g)' = Rotating(g)
    BY DEF Rotating
  <2> QED
    BY <2>1, SameComing
<1> QED
  BY <1>1, <1>4, <1>5 DEF Chain!Start, Live, Coming

LEMMA ConsumeChains ==
  ASSUME AInv, TInv, NEW r \in Requests, ConsumeToken(r), shown[r] \in family[fid[r]]
  PROVE  Chain!Take(fid[r], r)
<1> USE DEF AInv, TypeOK, ConsumeToken, SetFamily, Goto
<1> DEFINE f == fid[r]
           t == shown[r]
<1>1. r \notin minted
  BY DEF TInv, TokenInStep
<1>2. family[f] = {t} /\ Rotating(f) = {}
  BY FewTokens
<1>3. Live[f] # NoToken
  BY <1>2, OnlyOne DEF Live
<1>4. Live' = [Live EXCEPT ![f] = NoToken]
  <2>1. family'[f] = {} /\ \A g \in Requests \ {f} : family'[g] = family[g]
    BY <1>2
  <2> QED
    BY <2>1, OneFamily DEF Only
<1>5. Coming' = [Coming EXCEPT ![f] = r]
  <2>1. Rotating(f)' = {r} /\ \A g \in Requests \ {f} : Rotating(g)' = Rotating(g)
    BY <1>2 DEF Rotating
  <2> QED
    BY <2>1, OneFamily, OnlyOne
<1> QED
  BY <1>1, <1>3, <1>4, <1>5 DEF Chain!Take, Live, Coming

LEMMA StoreChains ==
  ASSUME AInv, TInv, NEW r \in Requests, StoreToken(r)
  PROVE  Chain!Put(fid[r])
<1> USE DEF AInv, TypeOK, StoreToken, SetFamily, Goto
<1> DEFINE f == fid[r]
<1>1. Rotating(f) = {r} /\ family[f] = {}
  <2>1. r \in Rotating(f)
    BY DEF Rotating
  <2> QED
    BY <2>1, FewTokens
<1>2. Coming[f] = r /\ Coming[f] # NoToken /\ Live[f] = NoToken
  BY <1>1, OnlyOne DEF Coming, Live, Only
<1>3. Live' = [Live EXCEPT ![f] = r]
  <2>1. family'[f] = {r} /\ \A g \in Requests \ {f} : family'[g] = family[g]
    BY <1>1
  <2> QED
    BY <2>1, OneFamily, OnlyOne
<1>4. Coming' = [Coming EXCEPT ![f] = NoToken]
  <2>1. Rotating(f)' = {} /\ \A g \in Requests \ {f} : Rotating(g)' = Rotating(g)
    BY <1>1 DEF Rotating
  <2> QED
    BY <2>1, OneFamily DEF Only
<1> QED
  BY <1>2, <1>3, <1>4 DEF Chain!Put, Live, Coming

\* A DEL ends what is live, and leaves what is under way.
LEMMA EndChains ==
  ASSUME AInv, TInv, NEW f \in Requests, SetFamily(f, {}), UNCHANGED minted,
         \A g \in Requests : Rotating(g)' = Rotating(g)
  PROVE  Chain!End(f) \/ UNCHANGED Chain!chainVars
<1> USE DEF AInv, TypeOK, SetFamily
<1>1. Coming' = Coming
  BY SameComing
<1>2. CASE family[f] = {}
  <2>1. Live' = Live
    BY <1>2, SameLive
  <2> QED
    BY <1>1, <2>1 DEF Chain!chainVars, Live, Coming
<1>3. CASE family[f] # {}
  <2>1. Live[f] # NoToken
    BY <1>3, FewTokens, OnlyOne DEF Live
  <2>2. Live' = [Live EXCEPT ![f] = NoToken]
    <3>1. family'[f] = {} /\ \A g \in Requests \ {f} : family'[g] = family[g]
      OBVIOUS
    <3> QED
      BY <3>1, OneFamily DEF Only
  <2> QED
    BY <1>1, <2>1, <2>2 DEF Chain!End, Live, Coming
<1> QED
  BY <1>2, <1>3

\* A step that is no concern of the families.
LEMMA NoFamily ==
  ASSUME UNCHANGED <<minted, family>>, \A g \in Requests : Rotating(g)' = Rotating(g)
  PROVE  UNCHANGED Chain!chainVars
<1>1. Live' = Live /\ Coming' = Coming
  BY SameLive, SameComing
<1> QED
  BY <1>1 DEF Chain!chainVars, Live, Coming

LEMMA SessionChains ==
  ASSUME AInv, TInv, NEW r \in Requests, SessionBegin(r) \/ SessionStep(r)
  PROVE  [Chain!ChainNext]_(Chain!chainVars)
<1> USE DEF AInv, TypeOK, Goto
<1>1. ASSUME LoadUser(r) \/ ArmFamily(r) PROVE UNCHANGED Chain!chainVars
  BY <1>1, NoFamily DEF LoadUser, ArmFamily, Rotating, tokenVars
<1>2. ASSUME NEW u \in Users, Login(r, u) PROVE UNCHANGED Chain!chainVars
  BY <1>2, NoFamily DEF Login, MayBegin, Rotating, tokenVars
<1>3. ASSUME NEW t \in Requests, Refresh(r, t) PROVE UNCHANGED Chain!chainVars
  BY <1>3, NoFamily DEF Refresh, MayBegin, Rotating
<1>4. ASSUME ConsumeToken(r), shown[r] \notin family[fid[r]] PROVE UNCHANGED Chain!chainVars
  BY <1>4, NoFamily DEF ConsumeToken, Rotating
<1>5. ASSUME NEW t \in Requests, Logout(r, t)
      PROVE  Chain!End(fid[t]) \/ UNCHANGED Chain!chainVars
  <2>1. \A g \in Requests : Rotating(g)' = Rotating(g)
    BY <1>5 DEF Logout, MayBegin, Rotating
  <2> QED
    BY <1>5, <2>1, EndChains DEF Logout
<1>6. ASSUME DeleteFamily(r)
      PROVE  Chain!End(fid[r]) \/ UNCHANGED Chain!chainVars
  <2>1. \A g \in Requests : Rotating(g)' = Rotating(g)
    BY <1>6 DEF DeleteFamily, Rotating
  <2> QED
    BY <1>6, <2>1, EndChains DEF DeleteFamily
<1>7. \A t \in Requests : fid[t] \in Requests
  OBVIOUS
<1> QED
  BY <1>1, <1>2, <1>3, <1>4, <1>5, <1>6, <1>7, StartChains, ConsumeChains, StoreChains
  DEF SessionBegin, SessionStep, Chain!ChainNext

\* A step of pc alone: a request that dies before its SADD loses its token.
LEMMA PcChains ==
  ASSUME AInv, TInv, NEW r \in Requests, NEW to, to # "sadd", Goto(r, to), UNCHANGED tokenVars
  PROVE  [Chain!ChainNext]_(Chain!chainVars)
<1> USE DEF AInv, TypeOK, Goto, tokenVars
<1> DEFINE f == fid[r]
<1>1. CASE pc[r] # "sadd"
  <2>1. \A g \in Requests : Rotating(g)' = Rotating(g)
    BY <1>1 DEF Rotating
  <2> QED
    BY <2>1, NoFamily
<1>2. CASE pc[r] = "sadd"
  <2>1. f \in Requests /\ Rotating(f) = {r}
    <3>1. r \in Rotating(f)
      BY <1>2 DEF Rotating
    <3> QED
      BY <3>1, FewTokens
  <2>2. Coming[f] # NoToken
    BY <2>1, OnlyOne DEF Coming
  <2>3. Coming' = [Coming EXCEPT ![f] = NoToken]
    <3>1. Rotating(f)' = {} /\ \A g \in Requests \ {f} : Rotating(g)' = Rotating(g)
      BY <2>1 DEF Rotating
    <3> QED
      BY <2>1, <3>1, OneFamily DEF Only
  <2>4. Live' = Live
    BY SameLive
  <2>5. Chain!Lose(f)
    BY <2>2, <2>3, <2>4 DEF Chain!Lose, Live, Coming
  <2> QED
    BY <2>1, <2>5 DEF Chain!ChainNext
<1> QED
  BY <1>1, <1>2

LEMMA NextChains == AInv /\ TInv /\ [Next]_vars => [Chain!ChainNext]_(Chain!chainVars)
<1> SUFFICES ASSUME AInv, TInv, [Next]_vars PROVE [Chain!ChainNext]_(Chain!chainVars)
  OBVIOUS
<1>1. ASSUME NEW r \in Requests, UserBegin(r) \/ UserStep(r), UNCHANGED tokenVars
      PROVE  [Chain!ChainNext]_(Chain!chainVars)
  <2>1. PICK to \in {"insert", "load", "count", "clash", "commit", "done", "refused", "failed"} :
             Goto(r, to)
    BY <1>1 DEF UserBegin, CheckRegister, Authorize, UserStep, LoadTarget, RefuseTarget,
                CountAdmins, RefuseCount, CheckEmail, RefuseEmail, CommitPatch, ViolateUnique,
                InsertUser, Answer, Proceed, AfterGuards
  <2> QED
    BY <1>1, <2>1, PcChains
<1>2. ASSUME NEW r \in Requests, Crash(r) PROVE [Chain!ChainNext]_(Chain!chainVars)
  <2>1. UNCHANGED tokenVars /\ \E to \in {"crashed", "failed"} : Goto(r, to)
    BY <1>2 DEF Crash, Answer
  <2> QED
    BY <2>1, PcChains
<1>3. CASE UNCHANGED vars
  BY <1>3, NoFamily DEF vars, userVars, tokenVars, Rotating
<1> QED
  BY <1>1, <1>2, <1>3, SessionChains DEF Next, Rest

\* Rotation with its two commands, replays, logouts and dying processes amounts to a
\* chain of single tokens: a token becomes live once, in the place of the one that was
\* taken for it, and never in a family that was ended with no rotation under way
\* (token_store).
THEOREM RotationChains == Spec => TokensChained
<1>1. Init => Chain!ChainInit
  BY DEF Init, UsersInit, Chain!ChainInit, Only, Rotating
<1>2. AInv /\ TInv /\ [Next]_vars => [Chain!ChainNext]_(Chain!chainVars)
  BY NextChains
<1> QED
  BY <1>1, <1>2, Invariance, PTL DEF Spec, TokensChained, Chain!ChainSpec
=============================================================================
