------------------------------- MODULE MCCadastro -------------------------------
(* Instances of Cadastro for TLC. *)
EXTENDS Cadastro, TLC

CONSTANTS ana, ANA, bia

\* "ANA" and "ana" are the same address.
MCCanonico == (ANA :> ana) @@ [e \in Enderecos |-> e]

MCSymmetry == Permutations(Requests) \cup Permutations(Ids) \cup Permutations(Nomes)
===============================================================================
