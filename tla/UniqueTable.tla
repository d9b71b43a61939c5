------------------------------ MODULE UniqueTable ------------------------------
(***************************************************************************)
(* What a table of users, profiles or permissions promises whoever looks   *)
(* at its rows only: a row is inserted with keys (an e-mail, a name, a     *)
(* chave) nobody holds, may later exchange them for other free keys, may be *)
(* deleted, and is then deleted for good.  A deleted row holds on to its   *)
(* keys.                                                                   *)
(*                                                                         *)
(* Cadastro implements it three times, once per table.                     *)
(***************************************************************************)
CONSTANTS
  Ids,
  KeySets  \* the sets of keys a row may hold, none of them empty

VARIABLES
  keys,  \* the keys each row holds; {} when there is no such row
  dead   \* the deleted rows

vars == <<keys, dead>>

Exists(i) == keys[i] # {}

\* No other row holds any of these keys.
Free(i, K) == \A j \in Ids \ {i} : K \cap keys[j] = {}

Init ==
  /\ keys \in [Ids -> KeySets \cup {{}}]
  /\ \A i \in Ids : Free(i, keys[i])
  /\ dead = {}

Insert(i, K) ==
  /\ ~Exists(i) /\ i \notin dead
  /\ Free(i, K)
  /\ keys' = [keys EXCEPT ![i] = K]
  /\ UNCHANGED dead

\* The row may have been deleted while the change was under way.
Rekey(i, K) ==
  /\ Exists(i)
  /\ Free(i, K)
  /\ keys' = [keys EXCEPT ![i] = K]
  /\ UNCHANGED dead

Delete(i) ==
  /\ Exists(i)
  /\ dead' = dead \cup {i}
  /\ UNCHANGED keys

\* Writing the keys a row has, or deleting a deleted row, is no step.
Next ==
  /\ vars' # vars
  /\ \E i \in Ids :
       \/ \E K \in KeySets : Insert(i, K) \/ Rekey(i, K)
       \/ Delete(i)

Spec == Init /\ [][Next]_vars

===============================================================================
