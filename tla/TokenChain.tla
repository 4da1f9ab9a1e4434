----------------------------- MODULE TokenChain -----------------------------
(***************************************************************************)
(* What refresh-token rotation promises.  A family is a chain of tokens of *)
(* which at most one is live.  An exchange takes the live token and later  *)
(* puts a new one in its place, unless it is lost on the way.  A token     *)
(* that has been taken never is live again, and a family that was ended    *)
(* while no exchange was under way stays ended.  An exchange under way     *)
(* survives the end of its family: its Put makes the family live again.    *)
(***************************************************************************)
CONSTANTS Families, Tokens, NoToken

VARIABLES live,     \* live[f]: the live token of family f, or NoToken
          coming,   \* coming[f]: the token an exchange under way will put, or NoToken
          minted    \* the tokens that are, have been or may become live

chainVars == <<live, coming, minted>>

ChainInit ==
  /\ live = [f \in Families |-> NoToken]
  /\ coming = [f \in Families |-> NoToken]
  /\ minted = {}

\* The first token of a family has the family's name.
Start(f) ==
  /\ f \notin minted
  /\ minted' = minted \cup {f}
  /\ live' = [live EXCEPT ![f] = f]
  /\ UNCHANGED coming

Take(f, t) ==
  /\ t \notin minted
  /\ minted' = minted \cup {t}
  /\ live[f] # NoToken
  /\ live' = [live EXCEPT ![f] = NoToken]
  /\ coming' = [coming EXCEPT ![f] = t]

Put(f) ==
  /\ coming[f] # NoToken
  /\ live[f] = NoToken
  /\ live' = [live EXCEPT ![f] = coming[f]]
  /\ coming' = [coming EXCEPT ![f] = NoToken]
  /\ UNCHANGED minted

Lose(f) ==
  /\ coming[f] # NoToken
  /\ coming' = [coming EXCEPT ![f] = NoToken]
  /\ UNCHANGED <<live, minted>>

End(f) ==
  /\ live[f] # NoToken
  /\ live' = [live EXCEPT ![f] = NoToken]
  /\ UNCHANGED <<coming, minted>>

ChainNext ==
  \/ \E f \in Families : Start(f) \/ Put(f) \/ Lose(f) \/ End(f)
  \/ \E f \in Families, t \in Tokens : Take(f, t)

ChainSpec == ChainInit /\ [][ChainNext]_chainVars
=============================================================================
