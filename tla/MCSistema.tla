------------------------------ MODULE MCSistema -------------------------------
(* Instances of Sistema for TLC. *)
EXTENDS Sistema, TLC

CONSTANTS u1, t0, t1, r1, r2, v1

\* The open sessions are those of u1.
MCOwner0 == [t \in Sessions0 |-> u1]

MCSymmetry == Permutations(Tokens \ Sessions0) \cup Permutations(Requests)
===============================================================================
