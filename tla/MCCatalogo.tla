------------------------------ MODULE MCCatalogo ------------------------------
(* Instances of Catalogo for TLC. *)
EXTENDS Catalogo, Cnpj, TLC

\* The CNPJs of test/domain/restaurante.entity.spec.ts, and two that differ in
\* their first digit, which the check digits 0 do not tell apart.
ASSUME CnpjExamples ==
  /\ validarCnpj(<<4, 5, 3, 8, 1, 7, 6, 3, 0, 0, 0, 1, 6, 8>>)
  /\ ~validarCnpj(<<1, 2, 3, 4, 5, 6, 7, 8, 9, 0, 1, 2, 3, 4>>)
  /\ ~validarCnpj([i \in 1..14 |-> 1])
  /\ validarCnpj(<<7, 1, 0, 4, 6, 5, 6, 3, 4, 1, 4, 8, 0, 0>>)
  /\ validarCnpj(<<5, 1, 0, 4, 6, 5, 6, 3, 4, 1, 4, 8, 0, 0>>)

\* One column at a time.
MCPatches ==
  {[NoPatch EXCEPT !.abertura = 1], [NoPatch EXCEPT !.fechamento = 1]}
    \cup {[NoPatch EXCEPT !.ativo = v] : v \in BOOLEAN}
    \cup {[NoPatch EXCEPT !.nome = n] : n \in Nomes}

\* Restaurants that exist already, active or not, or do not exist yet.
MCRows0 ==
  [Cnpjs -> {None} \cup {[nome |-> n, abertura |-> 0, fechamento |-> 2, ativo |-> v, deleted |-> FALSE]
                           : n \in Nomes, v \in BOOLEAN}]

MCSymmetry == Permutations(Requests) \cup Permutations(Cnpjs)
===============================================================================
