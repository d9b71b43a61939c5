------------------------------ MODULE CnpjProofs ------------------------------
(***************************************************************************)
(* What the CNPJ check catches: a mistyped digit and two neighbouring      *)
(* digits in the wrong order, unless both check digits are 0.  The         *)
(* argument: 11 is prime, no weight and no difference of neighbouring      *)
(* weights is a multiple of it, so the mistake changes both sums modulo    *)
(* 11, and only the remainders 0 and 1 share their check digit, the 0.     *)
(***************************************************************************)
EXTENDS Cnpj, TLAPS

\* Two sums with one check digit have one remainder, or the digit is 0.
LEMMA SharedDigit ==
  ASSUME NEW m \in Int, NEW n \in Int, Digito(m) = Digito(n), m % 11 # n % 11
  PROVE  Digito(m) = 0
BY DEF Digito

LEMMA Remainders ==
  ASSUME NEW m \in Int, NEW n \in Int, NEW k \in Int, m - n = k, k % 11 # 0
  PROVE  m % 11 # n % 11
OBVIOUS

\* No weight is a multiple of 11, and no difference of two digits is.
LEMMA NoMultiple ==
  ASSUME NEW x \in 0..9, NEW y \in 0..9, x # y, NEW w \in (-10..10) \ {0}, NEW k, k = (x - y) * w
  PROVE  k \in Int /\ k % 11 # 0
OBVIOUS

\* A sum that changes by a difference of digits times a weight changes its
\* remainder.
LEMMA Changed ==
  ASSUME NEW m \in Int, NEW n \in Int, NEW x \in Digitos, NEW y \in Digitos, x # y,
         NEW w \in (-10..10) \ {0}, m - n = (x - y) * w, Digito(m) = Digito(n)
  PROVE  Digito(m) = 0
<1>1. PICK k : k = (x - y) * w
  OBVIOUS
<1>2. k \in Int /\ k % 11 # 0
  BY <1>1, NoMultiple DEF Digitos
<1>3. m % 11 # n % 11
  BY <1>1, <1>2, Remainders
<1> QED
  BY <1>3, SharedDigit

LEMMA SumsAreInt ==
  ASSUME NEW d \in [1..14 -> Int]
  PROVE  Soma1(d) \in Int /\ Soma2(d) \in Int
<1>1. Soma1(d) \in Int
  BY DEF Soma1
<1>2. Soma2(d) \in Int
  BY DEF Soma2
<1> QED
  BY <1>1, <1>2

LEMMA Difference1 ==
  ASSUME NEW d \in [1..14 -> Int], NEW e \in [1..14 -> Int]
  PROVE  Soma1(e) - Soma1(d) =
           (e[1] - d[1]) * 5 + (e[2] - d[2]) * 4 + (e[3] - d[3]) * 3
             + (e[4] - d[4]) * 2 + (e[5] - d[5]) * 9 + (e[6] - d[6]) * 8
             + (e[7] - d[7]) * 7 + (e[8] - d[8]) * 6 + (e[9] - d[9]) * 5
             + (e[10] - d[10]) * 4 + (e[11] - d[11]) * 3 + (e[12] - d[12]) * 2
BY DEF Soma1

LEMMA Difference2 ==
  ASSUME NEW d \in [1..14 -> Int], NEW e \in [1..14 -> Int]
  PROVE  Soma2(e) - Soma2(d) =
           (e[1] - d[1]) * 6 + (e[2] - d[2]) * 5 + (e[3] - d[3]) * 4
             + (e[4] - d[4]) * 3 + (e[5] - d[5]) * 2 + (e[6] - d[6]) * 9
             + (e[7] - d[7]) * 8 + (e[8] - d[8]) * 7 + (e[9] - d[9]) * 6
             + (e[10] - d[10]) * 5 + (e[11] - d[11]) * 4 + (e[12] - d[12]) * 3
             + (e[13] - d[13]) * 2
BY DEF Soma2

\* One digit of the first twelve changes each sum by its weight.
LEMMA OneDigit ==
  ASSUME NEW d \in [1..14 -> Int], NEW e \in [1..14 -> Int],
         NEW i \in 1..12, \A j \in (1..14) \ {i} : e[j] = d[j]
  PROVE  /\ \E w \in 2..9 : Soma1(e) - Soma1(d) = (e[i] - d[i]) * w
         /\ \E w \in 2..9 : Soma2(e) - Soma2(d) = (e[i] - d[i]) * w
<1>1. CASE i = 1
  <2>1. Soma1(e) - Soma1(d) = (e[1] - d[1]) * 5
    BY <1>1, Difference1
  <2>2. Soma2(e) - Soma2(d) = (e[1] - d[1]) * 6
    BY <1>1, Difference2
  <2> QED
    BY <1>1, <2>1, <2>2
<1>2. CASE i = 2
  <2>1. Soma1(e) - Soma1(d) = (e[2] - d[2]) * 4
    BY <1>2, Difference1
  <2>2. Soma2(e) - Soma2(d) = (e[2] - d[2]) * 5
    BY <1>2, Difference2
  <2> QED
    BY <1>2, <2>1, <2>2
<1>3. CASE i = 3
  <2>1. Soma1(e) - Soma1(d) = (e[3] - d[3]) * 3
    BY <1>3, Difference1
  <2>2. Soma2(e) - Soma2(d) = (e[3] - d[3]) * 4
    BY <1>3, Difference2
  <2> QED
    BY <1>3, <2>1, <2>2
<1>4. CASE i = 4
  <2>1. Soma1(e) - Soma1(d) = (e[4] - d[4]) * 2
    BY <1>4, Difference1
  <2>2. Soma2(e) - Soma2(d) = (e[4] - d[4]) * 3
    BY <1>4, Difference2
  <2> QED
    BY <1>4, <2>1, <2>2
<1>5. CASE i = 5
  <2>1. Soma1(e) - Soma1(d) = (e[5] - d[5]) * 9
    BY <1>5, Difference1
  <2>2. Soma2(e) - Soma2(d) = (e[5] - d[5]) * 2
    BY <1>5, Difference2
  <2> QED
    BY <1>5, <2>1, <2>2
<1>6. CASE i = 6
  <2>1. Soma1(e) - Soma1(d) = (e[6] - d[6]) * 8
    BY <1>6, Difference1
  <2>2. Soma2(e) - Soma2(d) = (e[6] - d[6]) * 9
    BY <1>6, Difference2
  <2> QED
    BY <1>6, <2>1, <2>2
<1>7. CASE i = 7
  <2>1. Soma1(e) - Soma1(d) = (e[7] - d[7]) * 7
    BY <1>7, Difference1
  <2>2. Soma2(e) - Soma2(d) = (e[7] - d[7]) * 8
    BY <1>7, Difference2
  <2> QED
    BY <1>7, <2>1, <2>2
<1>8. CASE i = 8
  <2>1. Soma1(e) - Soma1(d) = (e[8] - d[8]) * 6
    BY <1>8, Difference1
  <2>2. Soma2(e) - Soma2(d) = (e[8] - d[8]) * 7
    BY <1>8, Difference2
  <2> QED
    BY <1>8, <2>1, <2>2
<1>9. CASE i = 9
  <2>1. Soma1(e) - Soma1(d) = (e[9] - d[9]) * 5
    BY <1>9, Difference1
  <2>2. Soma2(e) - Soma2(d) = (e[9] - d[9]) * 6
    BY <1>9, Difference2
  <2> QED
    BY <1>9, <2>1, <2>2
<1>10. CASE i = 10
  <2>1. Soma1(e) - Soma1(d) = (e[10] - d[10]) * 4
    BY <1>10, Difference1
  <2>2. Soma2(e) - Soma2(d) = (e[10] - d[10]) * 5
    BY <1>10, Difference2
  <2> QED
    BY <1>10, <2>1, <2>2
<1>11. CASE i = 11
  <2>1. Soma1(e) - Soma1(d) = (e[11] - d[11]) * 3
    BY <1>11, Difference1
  <2>2. Soma2(e) - Soma2(d) = (e[11] - d[11]) * 4
    BY <1>11, Difference2
  <2> QED
    BY <1>11, <2>1, <2>2
<1>12. CASE i = 12
  <2>1. Soma1(e) - Soma1(d) = (e[12] - d[12]) * 2
    BY <1>12, Difference1
  <2>2. Soma2(e) - Soma2(d) = (e[12] - d[12]) * 3
    BY <1>12, Difference2
  <2> QED
    BY <1>12, <2>1, <2>2
<1> QED
  BY <1>1, <1>2, <1>3, <1>4, <1>5, <1>6, <1>7, <1>8, <1>9, <1>10, <1>11, <1>12

\* Two neighbouring digits that swap places change each sum by the difference
\* of their weights.
LEMMA TwoDigits ==
  ASSUME NEW d \in [1..14 -> Int], NEW e \in [1..14 -> Int],
         NEW i \in 1..11, e[i] = d[i + 1], e[i + 1] = d[i],
         \A j \in (1..14) \ {i, i + 1} : e[j] = d[j]
  PROVE  /\ \E w \in (-10..10) \ {0} : Soma1(e) - Soma1(d) = (e[i] - d[i]) * w
         /\ \E w \in (-10..10) \ {0} : Soma2(e) - Soma2(d) = (e[i] - d[i]) * w
<1>1. CASE i = 1
  <2>1. Soma1(e) - Soma1(d) = (e[1] - d[1]) * (1)
    BY <1>1, Difference1
  <2>2. Soma2(e) - Soma2(d) = (e[1] - d[1]) * (1)
    BY <1>1, Difference2
  <2> QED
    BY <1>1, <2>1, <2>2
<1>2. CASE i = 2
  <2>1. Soma1(e) - Soma1(d) = (e[2] - d[2]) * (1)
    BY <1>2, Difference1
  <2>2. Soma2(e) - Soma2(d) = (e[2] - d[2]) * (1)
    BY <1>2, Difference2
  <2> QED
    BY <1>2, <2>1, <2>2
<1>3. CASE i = 3
  <2>1. Soma1(e) - Soma1(d) = (e[3] - d[3]) * (1)
    BY <1>3, Difference1
  <2>2. Soma2(e) - Soma2(d) = (e[3] - d[3]) * (1)
    BY <1>3, Difference2
  <2> QED
    BY <1>3, <2>1, <2>2
<1>4. CASE i = 4
  <2>1. Soma1(e) - Soma1(d) = (e[4] - d[4]) * (-7)
    BY <1>4, Difference1
  <2>2. Soma2(e) - Soma2(d) = (e[4] - d[4]) * (1)
    BY <1>4, Difference2
  <2> QED
    BY <1>4, <2>1, <2>2
<1>5. CASE i = 5
  <2>1. Soma1(e) - Soma1(d) = (e[5] - d[5]) * (1)
    BY <1>5, Difference1
  <2>2. Soma2(e) - Soma2(d) = (e[5] - d[5]) * (-7)
    BY <1>5, Difference2
  <2> QED
    BY <1>5, <2>1, <2>2
<1>6. CASE i = 6
  <2>1. Soma1(e) - Soma1(d) = (e[6] - d[6]) * (1)
    BY <1>6, Difference1
  <2>2. Soma2(e) - Soma2(d) = (e[6] - d[6]) * (1)
    BY <1>6, Difference2
  <2> QED
    BY <1>6, <2>1, <2>2
<1>7. CASE i = 7
  <2>1. Soma1(e) - Soma1(d) = (e[7] - d[7]) * (1)
    BY <1>7, Difference1
  <2>2. Soma2(e) - Soma2(d) = (e[7] - d[7]) * (1)
    BY <1>7, Difference2
  <2> QED
    BY <1>7, <2>1, <2>2
<1>8. CASE i = 8
  <2>1. Soma1(e) - Soma1(d) = (e[8] - d[8]) * (1)
    BY <1>8, Difference1
  <2>2. Soma2(e) - Soma2(d) = (e[8] - d[8]) * (1)
    BY <1>8, Difference2
  <2> QED
    BY <1>8, <2>1, <2>2
<1>9. CASE i = 9
  <2>1. Soma1(e) - Soma1(d) = (e[9] - d[9]) * (1)
    BY <1>9, Difference1
  <2>2. Soma2(e) - Soma2(d) = (e[9] - d[9]) * (1)
    BY <1>9, Difference2
  <2> QED
    BY <1>9, <2>1, <2>2
<1>10. CASE i = 10
  <2>1. Soma1(e) - Soma1(d) = (e[10] - d[10]) * (1)
    BY <1>10, Difference1
  <2>2. Soma2(e) - Soma2(d) = (e[10] - d[10]) * (1)
    BY <1>10, Difference2
  <2> QED
    BY <1>10, <2>1, <2>2
<1>11. CASE i = 11
  <2>1. Soma1(e) - Soma1(d) = (e[11] - d[11]) * (1)
    BY <1>11, Difference1
  <2>2. Soma2(e) - Soma2(d) = (e[11] - d[11]) * (1)
    BY <1>11, Difference2
  <2> QED
    BY <1>11, <2>1, <2>2
<1> QED
  BY <1>1, <1>2, <1>3, <1>4, <1>5, <1>6, <1>7, <1>8, <1>9, <1>10, <1>11

\* A mistake that changes both sums by a multiple of a difference of digits,
\* but not by a multiple of 11, and leaves the check digits as they are.
LEMMA Unnoticed ==
  ASSUME NEW d, NEW e, validarCnpj(d), validarCnpj(e), NEW i \in 1..12, e[i] # d[i],
         d[13] = e[13], d[14] = e[14],
         \E w \in (-10..10) \ {0} : Soma1(e) - Soma1(d) = (e[i] - d[i]) * w,
         \E w \in (-10..10) \ {0} : Soma2(e) - Soma2(d) = (e[i] - d[i]) * w
  PROVE  d[13] = 0 /\ d[14] = 0
<1>1. /\ d \in [1..14 -> Int] /\ e \in [1..14 -> Int]
      /\ d[i] \in Digitos /\ e[i] \in Digitos
  BY DEF validarCnpj, Formatados, Digitos
<1>2. Soma1(d) \in Int /\ Soma2(d) \in Int /\ Soma1(e) \in Int /\ Soma2(e) \in Int
  BY <1>1, SumsAreInt
<1>3. Digito(Soma1(e)) = Digito(Soma1(d)) /\ Digito(Soma2(e)) = Digito(Soma2(d))
  BY DEF validarCnpj
<1>4. Digito(Soma1(e)) = 0
  BY <1>1, <1>2, <1>3, Changed
<1>5. Digito(Soma2(e)) = 0
  BY <1>1, <1>2, <1>3, Changed
<1> QED
  BY <1>4, <1>5 DEF validarCnpj

\* Two CNPJs the entity accepts never differ in one digit only, unless both
\* check digits are 0: a mistyped digit is answered with 400 (validarCnpj).
THEOREM MistypedDigitCaught ==
  ASSUME NEW d, NEW e, validarCnpj(d), validarCnpj(e),
         NEW i \in 1..14, e[i] # d[i], \A j \in (1..14) \ {i} : e[j] = d[j]
  PROVE  i <= 12 /\ d[13] = 0 /\ d[14] = 0
<1>1. d \in [1..14 -> Int] /\ e \in [1..14 -> Int]
  BY DEF validarCnpj, Formatados, Digitos
<1>2. CASE i \in 1..12
  <2>1. d[13] = e[13] /\ d[14] = e[14]
    BY <1>2
  <2>2. /\ \E w \in 2..9 : Soma1(e) - Soma1(d) = (e[i] - d[i]) * w
        /\ \E w \in 2..9 : Soma2(e) - Soma2(d) = (e[i] - d[i]) * w
    BY <1>1, <1>2, OneDigit
  <2>3. \A w \in 2..9 : w \in (-10..10) \ {0}
    OBVIOUS
  <2> QED
    BY <1>2, <2>1, <2>2, <2>3, Unnoticed
<1>3. CASE i = 13
  <2>1. /\ e[1] = d[1] /\ e[2] = d[2] /\ e[3] = d[3] /\ e[4] = d[4] /\ e[5] = d[5] /\ e[6] = d[6]
        /\ e[7] = d[7] /\ e[8] = d[8] /\ e[9] = d[9] /\ e[10] = d[10] /\ e[11] = d[11] /\ e[12] = d[12]
    BY <1>3
  <2>2. Soma1(e) = Soma1(d)
    BY <2>1 DEF Soma1
  <2> QED
    BY <1>3, <2>2 DEF validarCnpj
<1>4. CASE i = 14
  <2>1. /\ e[1] = d[1] /\ e[2] = d[2] /\ e[3] = d[3] /\ e[4] = d[4] /\ e[5] = d[5] /\ e[6] = d[6]
        /\ e[7] = d[7] /\ e[8] = d[8] /\ e[9] = d[9] /\ e[10] = d[10] /\ e[11] = d[11] /\ e[12] = d[12]
        /\ e[13] = d[13]
    BY <1>4
  <2>2. Soma2(e) = Soma2(d)
    BY <2>1 DEF Soma2
  <2> QED
    BY <1>4, <2>2 DEF validarCnpj
<1> QED
  BY <1>2, <1>3, <1>4

\* Two different neighbouring digits of the twelve that carry information,
\* typed in the wrong order, are noticed as well, unless both check digits are
\* 0 (validarCnpj).
THEOREM SwappedDigitsCaught ==
  ASSUME NEW d, NEW e, validarCnpj(d), validarCnpj(e),
         NEW i \in 1..11, e[i] = d[i + 1], e[i + 1] = d[i], e[i] # d[i],
         \A j \in (1..14) \ {i, i + 1} : e[j] = d[j]
  PROVE  d[13] = 0 /\ d[14] = 0
<1>1. d \in [1..14 -> Int] /\ e \in [1..14 -> Int]
  BY DEF validarCnpj, Formatados, Digitos
<1>2. d[13] = e[13] /\ d[14] = e[14]
  OBVIOUS
<1> QED
  BY <1>1, <1>2, TwoDigits, Unnoticed
===============================================================================
