------------------------------ MODULE Sessions ------------------------------
(***************************************************************************)
(* Login, refresh and logout over the Redis sets refresh_family:{fid}, one *)
(* action per command, together with the requests that write the users     *)
(* table: an account may be deactivated at any point of a refresh.         *)
(*                                                                         *)
(* A request that mints a refresh token names it: token r is the jti minted*)
(* by request r, and the family begun by login r is family r.  Clients may *)
(* present any token that was ever sent to one, from any tab, twice.       *)
(***************************************************************************)
EXTENDS Users

CONSTANT NoToken     \* no token at all, for TokenChain

ASSUME TokenAssumption  == NoToken \notin Requests /\ IsFiniteSet(Requests)

VARIABLES
  family,   \* family[f]: members of refresh_family:{f}; an empty set is no key
  armed,    \* the families whose key has a TTL
  issued,   \* refresh tokens that a client has received in its cookie
  fid,      \* the family that r works on
  shown,    \* the token r presents; r itself when it presents none
  minted    \* history: tokens that are or were exchangeable

tokenVars == <<family, armed, issued, fid, shown, minted>>
vars == <<userVars, tokenVars>>

SessionPoints == {"start", "load_user", "srem", "sadd", "expire", "burn", "revoke"}

TypeOK ==
  /\ user \in [Users -> UserRow \cup {NoUser}]
  /\ pc \in [Requests -> {"idle", "insert"} \cup PatchPoints \cup SessionPoints \cup Ended]
  /\ who \in [Requests -> Users \cup {NoUser}]
  /\ target \in [Requests -> Users \cup {NoUser}]
  /\ form \in [Requests -> Form]
  /\ seen \in [Requests -> UserRow \cup {NoUser}]
  /\ overtaken \subseteq Requests
  /\ family \in [Requests -> SUBSET Requests]
  /\ armed \subseteq Requests
  /\ issued \subseteq Requests
  /\ fid \in [Requests -> Requests]
  /\ shown \in [Requests -> Requests]
  /\ minted \subseteq Requests

Init ==
  /\ UsersInit
  /\ family = [f \in Requests |-> {}]
  /\ armed = {}
  /\ issued = {}
  /\ fid = [r \in Requests |-> r]
  /\ shown = [r \in Requests |-> r]
  /\ minted = {}

\* The members of family f after a command.  Redis drops a set with its last
\* member, and the TTL with the key.
SetFamily(f, members) ==
  /\ family' = [family EXCEPT ![f] = members]
  /\ armed' = IF members = {} THEN armed \ {f} ELSE armed

-----------------------------------------------------------------------------
(* POST /auth/login *)

\* The account is read and the password verified.  A wrong password and an account
\* that is missing or deactivated are a 401 that changes nothing.
Login(r, u) ==
  /\ MayBegin(r)
  /\ u \in Accounts /\ user[u].active
  /\ who' = [who EXCEPT ![r] = u]
  /\ Goto(r, "start")
  /\ UNCHANGED <<user, overtaken, target, form, seen, tokenVars>>

\* SADD of the first jti.
StartFamily(r) ==
  /\ pc[r] = "start"
  /\ SetFamily(fid[r], family[fid[r]] \cup {r})
  /\ minted' = minted \cup {r}
  /\ Goto(r, "expire")
  /\ UNCHANGED <<user, overtaken, who, target, form, seen, issued, fid, shown>>

\* EXPIRE, which does nothing to a key that is gone, then the answer with the
\* new cookies.
ArmFamilyNever(r) ==  \* Mutant: the key is never given a TTL
  /\ pc[r] = "expire"
  /\ issued' = issued \cup {r}
  /\ Goto(r, "done")
  /\ UNCHANGED <<user, overtaken, who, target, form, seen, family, armed, fid, shown, minted>>

ArmFamily(r) ==
  /\ pc[r] = "expire"
  /\ armed' = IF family[fid[r]] = {} THEN armed ELSE armed \cup {fid[r]}
  /\ issued' = issued \cup {r}
  /\ Goto(r, "done")
  /\ UNCHANGED <<user, overtaken, who, target, form, seen, family, fid, shown, minted>>

-----------------------------------------------------------------------------
(* POST /auth/refresh *)

\* A well-formed token is presented; its claims name the account and the family.
Refresh(r, t) ==
  /\ MayBegin(r)
  /\ t \in issued
  /\ who' = [who EXCEPT ![r] = who[t]]
  /\ fid' = [fid EXCEPT ![r] = fid[t]]
  /\ shown' = [shown EXCEPT ![r] = t]
  /\ Goto(r, "load_user")
  /\ UNCHANGED <<user, overtaken, target, form, seen, family, armed, issued, minted>>

\* db.get of the account, which decides between rotating and revoking.
LoadUser(r) ==
  /\ pc[r] = "load_user"
  /\ Goto(r, IF who[r] \in Accounts /\ user[who[r]].active THEN "srem" ELSE "revoke")
  /\ UNCHANGED <<user, overtaken, who, target, form, seen, tokenVars>>

\* SREM of the presented jti.  Its answer tells whether this request consumed it.
ConsumeTokenChecked(r) ==  \* Mutant: SISMEMBER instead of SREM, the removal left out
  /\ pc[r] = "srem"
  /\ IF shown[r] \in family[fid[r]]
     THEN minted' = minted \cup {r} /\ Goto(r, "sadd")
     ELSE UNCHANGED minted /\ Goto(r, "burn")
  /\ UNCHANGED <<user, overtaken, who, target, form, seen, family, armed, issued, fid, shown>>

ConsumeTokenAlways(r) ==  \* Mutant: the answer of SREM is not looked at
  /\ pc[r] = "srem"
  /\ SetFamily(fid[r], family[fid[r]] \ {shown[r]})
  /\ minted' = minted \cup {r}
  /\ Goto(r, "sadd")
  /\ UNCHANGED <<user, overtaken, who, target, form, seen, issued, fid, shown>>

ConsumeToken(r) ==
  /\ pc[r] = "srem"
  /\ IF shown[r] \in family[fid[r]]
     THEN /\ SetFamily(fid[r], family[fid[r]] \ {shown[r]})
          /\ minted' = minted \cup {r}
          /\ Goto(r, "sadd")
     ELSE /\ Goto(r, "burn")
          /\ UNCHANGED <<family, armed, minted>>
  /\ UNCHANGED <<user, overtaken, who, target, form, seen, issued, fid, shown>>

\* SADD of the new jti.
StoreTokenTwin(r) ==  \* Mutant: the new jti is added under its own family id
  /\ pc[r] = "sadd"
  /\ SetFamily(r, family[r] \cup {r})
  /\ Goto(r, "expire")
  /\ UNCHANGED <<user, overtaken, who, target, form, seen, issued, fid, shown, minted>>

StoreToken(r) ==
  /\ pc[r] = "sadd"
  /\ SetFamily(fid[r], family[fid[r]] \cup {r})
  /\ Goto(r, "expire")
  /\ UNCHANGED <<user, overtaken, who, target, form, seen, issued, fid, shown, minted>>

\* DEL of the family: the token was not live, or the account is gone.
DeleteFamily(r) ==
  /\ pc[r] \in {"burn", "revoke"}
  /\ SetFamily(fid[r], {})
  /\ Goto(r, "refused")
  /\ UNCHANGED <<user, overtaken, who, target, form, seen, issued, fid, shown, minted>>

-----------------------------------------------------------------------------
(* DELETE /auth/logout *)

Logout(r, t) ==
  /\ MayBegin(r)
  /\ t \in issued
  /\ fid' = [fid EXCEPT ![r] = fid[t]]
  /\ shown' = [shown EXCEPT ![r] = t]
  /\ SetFamily(fid[t], {})
  /\ Goto(r, "signed_out")
  /\ UNCHANGED <<user, overtaken, who, target, form, seen, issued, minted>>

-----------------------------------------------------------------------------
\* The process dies, or the answer is lost.  Of a transaction on the users table nothing
\* is left; a command that Redis has executed stays executed.  "crashed" is the end of
\* a handler that died before its EXPIRE.
Crash(r) ==
  /\ r \in Busy
  /\ \/ r \in Edits /\ Answer(r, "failed")
     \/ /\ r \notin Edits
        /\ Goto(r, IF pc[r] = "expire" THEN "crashed" ELSE "failed")
        /\ UNCHANGED <<who, target, form, seen>>
  /\ UNCHANGED <<user, overtaken, tokenVars>>

SessionStep(r) ==
  \/ StartFamily(r) \/ ArmFamily(r) \/ LoadUser(r) \/ ConsumeToken(r)
  \/ StoreToken(r) \/ DeleteFamily(r)

SessionBegin(r) ==
  /\ r \notin Edits
  /\ \/ \E u \in Users : Login(r, u)
     \/ \E t \in Requests : Refresh(r, t) \/ Logout(r, t)

\* Nothing is under way, and nobody has to begin anything.
Rest == Busy = {} /\ UNCHANGED vars

Next ==
  \/ \E r \in Requests : (UserBegin(r) \/ UserStep(r)) /\ UNCHANGED tokenVars
  \/ \E r \in Requests : SessionBegin(r) \/ SessionStep(r) \/ Crash(r)
  \/ Rest

Spec == Init /\ [][Next]_vars

-----------------------------------------------------------------------------
(* Properties: tokens *)

Rotating(f) == {r \in Requests : fid[r] = f /\ pc[r] = "sadd"}
Exchangeable(f) == family[f] \cup Rotating(f)

\* A family never has more than one token that is live or about to be, whatever tabs,
\* replays and logouts do between the SREM of a rotation and its SADD (rotate).
OneLiveToken == \A f \in Requests : \A q, r \in Exchangeable(f) : q = r

\* "Concurrent refreshes can't both succeed" (module docstring of token_store): no two
\* requests were granted a new token for the same one, however far apart they came.
ExchangedOnce ==
  \A q, r \in minted :
    q # r /\ shown[q] = shown[r] => shown[q] = q \/ shown[r] = r

\* A client is logged out by reuse detection (the DEL in rotate) only for a cause: some
\* request other than itself and the one that minted its token was granted another
\* token for it, or ended the family.  A tab that refreshes alone keeps its session.
BurnHasCause ==
  \A r \in Requests :
    pc[r] = "burn" =>
      \E q \in Requests \ {r, shown[r]} :
        /\ fid[q] = fid[r]
        /\ (q \in minted /\ shown[q] = shown[r]) \/ pc[q] \in {"refused", "signed_out"}

\* A family key without a TTL (SADD and EXPIRE are two commands, and the SREM of the
\* only member drops the key with its TTL) has a handler between the two, or one
\* that died there.
KeysExpire ==
  \A f \in Requests :
    family[f] # {} /\ f \notin armed =>
      \E r \in Requests : fid[r] = f /\ pc[r] \in {"expire", "crashed"}

Only(S) == IF S = {} THEN NoToken ELSE CHOOSE r \in S : TRUE

Chain == INSTANCE TokenChain WITH
  Families <- Requests, Tokens <- Requests,
  live <- [f \in Requests |-> Only(family[f])],
  coming <- [f \in Requests |-> Only(Rotating(f))]

\* Rotation (token_store, refresh, logout) implements TokenChain: what is live is what
\* the set in Redis holds, and between its SREM and its SADD a rotation is under way.
TokensChained == Chain!ChainSpec

\* "Delete the whole family so every outstanding token in it is invalidated" and "Logout:
\* delete the family" (token_store): once a request has ended a family and has answered,
\* no token of it can be exchanged any more.
EndedStaysEnded ==
  \A q \in Requests : pc[q] \in {"refused", "signed_out"} => family[fid[q]] = {}

-----------------------------------------------------------------------------
(* Properties: accounts *)

\* Registration and PATCH look for the address before they write it: the unique index
\* refuses one (a 500 instead of the 409) only when another request has written that
\* address in between, never for an address that was there, on whatever account.
ConflictsAreRaces == \A r \in Requests : Clashes(r) => r \in overtaken

\* "This alone guarantees at least one admin always remains" (update_user).
AdminRemains == ActiveAdmins # {}

\* What the guards of update_user do guarantee: the last active admin is removed only
\* by a request whose own admin has lost his rights since get_current_user.
LastAdminOnlyByStaleActor ==
  [][ActiveAdmins # {} /\ ActiveAdmins' = {} =>
       \E r \in Requests : /\ pc[r] = "commit" /\ pc'[r] = "done"
                           /\ who[r] \notin ActiveAdmins]_vars
=============================================================================
