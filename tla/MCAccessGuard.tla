----------------------------- MODULE MCAccessGuard -----------------------------
(* Instances of AccessGuard for TLC. *)
EXTENDS AccessGuard, TLC

\* No token is signed yet.
MCSub0 == [t \in Tokens |-> None]

MCSymmetry == Permutations(Requests) \cup Permutations(Perfis)
===============================================================================
