----------------------------- MODULE MCRestaurantes -----------------------------
(* Instances of Restaurantes for TLC. *)
EXTENDS Restaurantes, TLC

\* Every body there is, but for the name, which nothing depends on here.
MCPatches == {p \in Patch : p.nome = None}

\* An empty table.
MCRows0 == {[c \in Cnpjs |-> None]}

MCSymmetry == Permutations(Requests) \cup Permutations(Cnpjs)
===============================================================================
