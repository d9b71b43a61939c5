----------------------------- MODULE SessionChain -----------------------------
(***************************************************************************)
(* What the session store of the API promises, without requests, clocks,   *)
(* transactions or failures: a login opens a session whose only refresh    *)
(* token is its first one; a refresh replaces the session's token by a     *)
(* token never used before; a session closes when its token is removed     *)
(* with no successor, and a closed session never opens again.              *)
(*                                                                         *)
(* AuthService implements this module (see AuthService!Chain).             *)
(***************************************************************************)
CONSTANT Tokens

VARIABLES
  live,   \* the refresh tokens that can be exchanged
  spent,  \* the refresh tokens that could be exchanged and no longer can
  chain   \* for every token ever live, the session it belongs to,
          \* named after the session's first token

vars == <<live, spent, chain>>

Used == live \cup spent

\* Sessions may already be open when the observation starts.
Init ==
  /\ live \subseteq Tokens
  /\ spent = {}
  /\ chain = [t \in live |-> t]

Open(t) ==
  /\ t \notin Used
  /\ live' = live \cup {t}
  /\ spent' = spent
  /\ chain' = [x \in Used \cup {t} |-> IF x = t THEN t ELSE chain[x]]

Rotate(old, new) ==
  /\ old \in live
  /\ new \notin Used
  /\ live' = (live \ {old}) \cup {new}
  /\ spent' = spent \cup {old}
  /\ chain' = [x \in Used \cup {new} |->
                 IF x = new THEN chain[old] ELSE chain[x]]

\* A logout closes every session of a user, an expiry closes one.
Close(S) ==
  /\ S # {}
  /\ live' = live \ S
  /\ spent' = spent \cup S
  /\ chain' = chain

Next ==
  \/ \E t \in Tokens : Open(t)
  \/ \E old, new \in Tokens : Rotate(old, new)
  \/ \E S \in SUBSET live : Close(S)

Spec == Init /\ [][Next]_vars

===============================================================================
