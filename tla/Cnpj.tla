--------------------------------- MODULE Cnpj ---------------------------------
(***************************************************************************)
(* The CNPJ check of RestauranteEntity.  The DTO lets through exactly the  *)
(* form XX.XXX.XXX/XXXX-XX, so a CNPJ is its 14 digits: dropping the       *)
(* punctuation, as validarCnpj and formatCnpj do, loses nothing.           *)
(***************************************************************************)
EXTENDS Integers

Digitos == 0..9

\* What the pattern of the DTO accepts.
Formatados == [1..14 -> Digitos]

\* /^(\d)\1+$/: all digits are the same.
Repetido(d) == \A i \in 1..14 : d[i] = d[1]

\* The sum with weights1 over the first 12 digits.
Soma1(d) ==
  d[1] * 5 + d[2] * 4 + d[3] * 3 + d[4] * 2 + d[5] * 9 + d[6] * 8
    + d[7] * 7 + d[8] * 6 + d[9] * 5 + d[10] * 4 + d[11] * 3 + d[12] * 2

\* The sum with weights2 over the first 13 digits.
Soma2(d) ==
  d[1] * 6 + d[2] * 5 + d[3] * 4 + d[4] * 3 + d[5] * 2 + d[6] * 9
    + d[7] * 8 + d[8] * 7 + d[9] * 6 + d[10] * 5 + d[11] * 4 + d[12] * 3 + d[13] * 2

\* The check digit of a sum.
Digito(soma) == IF soma % 11 < 2 THEN 0 ELSE 11 - (soma % 11)

validarCnpj(d) ==
  /\ d \in Formatados
  /\ ~Repetido(d)
  /\ d[13] = Digito(Soma1(d))
  /\ d[14] = Digito(Soma2(d))
===============================================================================
