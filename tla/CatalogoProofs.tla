----------------------------- MODULE CatalogoProofs ---------------------------
(***************************************************************************)
(* Proofs about Catalogo: what a client that walks through the listing of  *)
(* restaurants is given, for any table that is finite, any page size and   *)
(* any number of writes between two pages.                                 *)
(*                                                                         *)
(* The database orders rows by a name that is not unique, so a row has a   *)
(* place of its own only while no other listed row has its name; its place *)
(* is then its Rank, the number of listed rows with a smaller name.  When  *)
(* rows go, come or change their names, the others move up by at most as   *)
(* many places as rows went, and down by at most as many as came (Shift):  *)
(* so at most that many cross the border between the pages the client has  *)
(* had and those it is still to ask for (CrossUp, CrossDown, FallBack).    *)
(*                                                                         *)
(* The properties speak of the end of the walk.  MissedInv, AgainInv and   *)
(* CountInv say the same of every page before it: the rows the client has  *)
(* already gone past (Missed), would find again (Again) and is still to be *)
(* given (ToSee) are accounted for by the rows that went and came.         *)
(***************************************************************************)
EXTENDS Catalogo, RestaurantesProofs, FiniteSetTheorems, SequenceTheorems

-------------------------------------------------------------------------------
(* Places in an ordered listing: L a set of rows, K their keys.            *)

\* The rows that come before l.
Before(L, K, l) == {m \in L : K[m] < K[l]}

\* The place of l, counted from 0.
Rank(L, K, l) == Cardinality(Before(L, K, l))

\* The rows whose key no other row has.
Alone(L, K) == {l \in L : \A m \in L \ {l} : K[m] # K[l]}

\* The rows that go, or move, when L and K become M and J; Gone(M, L, J, K) come.
Gone(L, M, K, J) == (L \ M) \cup {l \in L \cap M : K[l] # J[l]}

\* What the database can order.
Keys(L, K) == IsFiniteSet(L) /\ \A l \in L : K[l] \in Int

\* A row in L has a place below the number of rows.
LEMMA RankType ==
  ASSUME NEW L, NEW K, Keys(L, K), NEW l
  PROVE  /\ IsFiniteSet(Before(L, K, l))
         /\ Rank(L, K, l) \in Nat
         /\ Cardinality(L) \in Nat
         /\ l \in L => Rank(L, K, l) < Cardinality(L)
<1>1. IsFiniteSet(L) /\ Cardinality(L) \in Nat
  BY FS_CardinalityType DEF Keys
<1>2. Before(L, K, l) \in SUBSET L
  BY DEF Before
<1>3. /\ IsFiniteSet(Before(L, K, l))
      /\ Cardinality(Before(L, K, l)) <= Cardinality(L)
      /\ Cardinality(L) = Cardinality(Before(L, K, l)) => L = Before(L, K, l)
  BY <1>1, <1>2, FS_Subset, Zenon
<1>4. Cardinality(Before(L, K, l)) \in Nat
  BY <1>3, FS_CardinalityType
<1>5. l \in L => L # Before(L, K, l)
  BY DEF Before, Keys
<1> QED
  BY <1>1, <1>3, <1>4, <1>5 DEF Rank

\* Places follow keys,
LEMMA RankOrder ==
  ASSUME NEW L, NEW K, Keys(L, K), NEW l \in L, NEW m \in L
  PROVE  /\ K[l] <= K[m] => Rank(L, K, l) <= Rank(L, K, m)
         /\ K[l] < K[m] => Rank(L, K, l) < Rank(L, K, m)
<1>1. /\ IsFiniteSet(Before(L, K, m))
      /\ Rank(L, K, l) \in Nat /\ Rank(L, K, m) \in Nat
  BY RankType
<1>2. ASSUME K[l] <= K[m]
      PROVE  /\ Before(L, K, l) \in SUBSET Before(L, K, m)
             /\ Rank(L, K, l) <= Rank(L, K, m)
  <2>1. Before(L, K, l) \in SUBSET Before(L, K, m)
    BY <1>2 DEF Before, Keys
  <2> QED
    BY <1>1, <2>1, FS_Subset, Zenon DEF Rank
<1>3. ASSUME K[l] < K[m] PROVE Rank(L, K, l) < Rank(L, K, m)
  <2>1. K[l] <= K[m]
    BY <1>3 DEF Keys
  <2>2. Before(L, K, l) # Before(L, K, m)
    BY <1>3 DEF Before, Keys
  <2>3. Cardinality(Before(L, K, m)) # Cardinality(Before(L, K, l))
    BY <1>1, <1>2, <2>1, <2>2, FS_Subset, Zenon
  <2> QED
    BY <1>1, <1>2, <2>1, <2>3 DEF Rank
<1> QED
  BY <1>2, <1>3

\* and no two rows share the place of one that is alone at its key.
LEMMA RankInjective ==
  ASSUME NEW L, NEW K, Keys(L, K), NEW l \in Alone(L, K), NEW m \in L, l # m
  PROVE  Rank(L, K, l) # Rank(L, K, m)
<1>1. l \in L /\ K[l] \in Int /\ K[m] \in Int /\ K[l] # K[m]
  BY DEF Alone, Keys
<1>2. Rank(L, K, l) \in Nat /\ Rank(L, K, m) \in Nat
  BY RankType
<1>3. CASE K[l] < K[m]
  BY <1>1, <1>2, <1>3, RankOrder
<1>4. CASE K[m] < K[l]
  BY <1>1, <1>2, <1>4, RankOrder
<1> QED
  BY <1>1, <1>3, <1>4

\* Rows alone at their keys are no more than the places they have.
LEMMA Spread ==
  ASSUME NEW L, NEW K, Keys(L, K), NEW S \in SUBSET Alone(L, K),
         NEW a \in Int, NEW n \in Nat, \A l \in S : Rank(L, K, l) \in a .. (a + n - 1)
  PROVE  IsFiniteSet(S) /\ Cardinality(S) \in Nat /\ Cardinality(S) <= n
<1> DEFINE f == [l \in S |-> Rank(L, K, l)]
           I == a .. (a + n - 1)
<1>1. IsFiniteSet(I) /\ Cardinality(I) = n
  <2>1. PICK b \in Int : b = a + n - 1
    OBVIOUS
  <2>2. IsFiniteSet(a .. b) /\ Cardinality(a .. b) = IF a > b THEN 0 ELSE b - a + 1
    BY FS_Interval, Zenon
  <2> QED
    BY <2>1, <2>2
<1>2. \A l, m \in S : l # m => Rank(L, K, l) # Rank(L, K, m)
  BY RankInjective DEF Alone
<1>3. f \in Injection(S, I)
  BY <1>2 DEF Injection, IsInjective
<1>4. IsFiniteSet(S) /\ Cardinality(S) <= Cardinality(I)
  <2> HIDE DEF f, I
  <2> QED
    BY <1>1, <1>3, FS_Injection
<1> QED
  BY <1>1, <1>4, FS_CardinalityType

\* A row that stays where it is moves up at most as many places as rows go.
LEMMA Shift ==
  ASSUME NEW L, NEW K, Keys(L, K), NEW M, NEW J, Keys(M, J),
         NEW l \in L, l \in M, J[l] = K[l]
  PROVE  /\ IsFiniteSet(Gone(L, M, K, J)) /\ Cardinality(Gone(L, M, K, J)) \in Nat
         /\ Rank(L, K, l) <= Rank(M, J, l) + Cardinality(Gone(L, M, K, J))
<1> DEFINE B == Before(L, K, l)
           C == Before(M, J, l)
           D == Gone(L, M, K, J)
<1>1. IsFiniteSet(B) /\ IsFiniteSet(C) /\ Cardinality(B) \in Nat /\ Cardinality(C) \in Nat
  BY RankType DEF Rank
<1>2. IsFiniteSet(D) /\ Cardinality(D) \in Nat
  BY FS_Subset, FS_CardinalityType DEF Gone, Keys
<1>3. B \in SUBSET (C \cup D)
  BY DEF Before, Gone
<1> HIDE DEF B, C, D
<1>4. /\ IsFiniteSet(C \cup D)
      /\ Cardinality(C \cup D) = Cardinality(C) + Cardinality(D) - Cardinality(C \cap D)
  BY <1>1, <1>2, FS_Union
<1>5. Cardinality(C \cap D) \in Nat
  BY <1>1, FS_Intersection, FS_CardinalityType
<1>6. Cardinality(B) <= Cardinality(C \cup D)
  BY <1>3, <1>4, FS_Subset
<1>7. Cardinality(B) <= Cardinality(C) + Cardinality(D)
  BY <1>1, <1>2, <1>4, <1>5, <1>6
<1> QED
  BY <1>2, <1>7 DEF B, C, D, Rank

\* So at most as many rows cross the border between two pages as rows go,
LEMMA CrossUp ==
  ASSUME NEW L, NEW K, Keys(L, K), NEW M, NEW J, Keys(M, J), NEW k \in Int,
         NEW S \in SUBSET Alone(L, K),
         \A l \in S : /\ l \in M /\ J[l] = K[l]
                      /\ Rank(L, K, l) >= k /\ Rank(M, J, l) < k
  PROVE  /\ IsFiniteSet(S) /\ Cardinality(S) \in Nat
         /\ Cardinality(S) <= Cardinality(Gone(L, M, K, J))
<1> DEFINE d == Cardinality(Gone(L, M, K, J))
<1>1. d \in Nat
  BY FS_Subset, FS_CardinalityType DEF Gone, Keys
<1>2. ASSUME NEW l \in S PROVE Rank(L, K, l) \in k .. (k + d - 1)
  <2>1. Rank(L, K, l) <= Rank(M, J, l) + d
    BY Shift DEF Alone
  <2>2. Rank(L, K, l) \in Nat /\ Rank(M, J, l) \in Nat
    BY RankType
  <2> HIDE DEF d
  <2> QED
    BY <1>1, <2>1, <2>2
<1> HIDE DEF d
<1>3. IsFiniteSet(S) /\ Cardinality(S) \in Nat /\ Cardinality(S) <= d
  BY <1>1, <1>2, Spread
<1> QED
  BY <1>3 DEF d

\* and the other way as many as come.
LEMMA CrossDown ==
  ASSUME NEW L, NEW K, Keys(L, K), NEW M, NEW J, Keys(M, J), NEW k \in Int,
         NEW S \in SUBSET Alone(L, K),
         \A l \in S : /\ l \in M /\ J[l] = K[l]
                      /\ Rank(L, K, l) < k /\ Rank(M, J, l) >= k
  PROVE  /\ IsFiniteSet(S) /\ Cardinality(S) \in Nat
         /\ Cardinality(S) <= Cardinality(Gone(M, L, J, K))
<1> DEFINE e == Cardinality(Gone(M, L, J, K))
<1>1. e \in Nat
  BY FS_Subset, FS_CardinalityType DEF Gone, Keys
<1>2. ASSUME NEW l \in S PROVE Rank(L, K, l) \in (k - e) .. (k - e + e - 1)
  <2>1. Rank(M, J, l) <= Rank(L, K, l) + e
    BY Shift DEF Alone
  <2>2. Rank(L, K, l) \in Nat /\ Rank(M, J, l) \in Nat
    BY RankType
  <2> HIDE DEF e
  <2> QED
    BY <1>1, <2>1, <2>2
<1> HIDE DEF e
<1>3. k - e \in Int
  BY <1>1
<1>4. IsFiniteSet(S) /\ Cardinality(S) \in Nat /\ Cardinality(S) <= e
  BY <1>1, <1>2, <1>3, Spread
<1> QED
  BY <1>4 DEF e

\* s gives the rows of L in an order that fits their keys.
Sorted(s, L, K) ==
  /\ s \in [1 .. Cardinality(L) -> L]
  /\ \A i, j \in DOMAIN s : s[i] = s[j] => i = j
  /\ \A i, j \in DOMAIN s : i < j => K[s[i]] <= K[s[j]]

\* A row alone at its key has its place in every such order.
LEMMA PlaceInOrder ==
  ASSUME NEW L, NEW K, Keys(L, K), NEW s, Sorted(s, L, K), NEW l \in Alone(L, K)
  PROVE  Rank(L, K, l) + 1 \in 1 .. Cardinality(L) /\ s[Rank(L, K, l) + 1] = l
<1> DEFINE n == Cardinality(L)
<1>1. IsFiniteSet(L) /\ n \in Nat
  BY FS_CardinalityType DEF Keys
<1>2. s \in Injection(1 .. n, L)
  BY DEF Sorted, Injection, IsInjective
<1>3. IsFiniteSet(1 .. n) /\ Cardinality(1 .. n) = n
  <2>1. 1 \in Int /\ n \in Int
    BY <1>1
  <2>2. IsFiniteSet(1 .. n) /\ Cardinality(1 .. n) = IF 1 > n THEN 0 ELSE n - 1 + 1
    BY <2>1, FS_Interval, Zenon
  <2> QED
    BY <1>1, <2>2
<1>4. s \in Surjection(1 .. n, L)
  BY <1>1, <1>2, <1>3, FS_Injection, Zenon
<1>5. PICK i \in 1 .. n : s[i] = l
  BY <1>4 DEF Surjection, Alone
<1> DEFINE B == Before(L, K, l)
           g == [j \in 1 .. (i - 1) |-> s[j]]
<1> HIDE DEF n
<1>6. \A j \in 1 .. n : s[j] \in B <=> j < i
  <2> SUFFICES ASSUME NEW j \in 1 .. n PROVE s[j] \in B <=> j < i
    OBVIOUS
  <2>1. DOMAIN s = 1 .. n /\ s[j] \in L /\ K[s[j]] \in Int /\ l \in L /\ K[l] \in Int
    BY DEF Sorted, Keys, Alone, n
  <2>2. j < i => K[s[j]] <= K[l]
    BY <1>5, <2>1 DEF Sorted
  <2>3. j > i => K[l] <= K[s[j]]
    BY <1>5, <2>1 DEF Sorted
  <2>4. j # i => s[j] # l
    BY <1>5, <2>1 DEF Sorted
  <2>5. j # i => K[s[j]] # K[l]
    BY <2>1, <2>4 DEF Alone
  <2>6. j < i => K[s[j]] < K[l]
    BY <2>1, <2>2, <2>5
  <2>7. ~(j < i) => ~(K[s[j]] < K[l])
    BY <1>1, <1>5, <2>1, <2>3
  <2> QED
    BY <2>1, <2>6, <2>7 DEF Before
<1>7. g \in Bijection(1 .. (i - 1), B)
  <2>1. \A j \in 1 .. (i - 1) : j \in 1 .. n /\ s[j] \in B
    BY <1>1, <1>6
  <2>2. g \in Injection(1 .. (i - 1), B)
    BY <1>2, <2>1 DEF Injection, IsInjective
  <2>3. \A b \in B : \E j \in 1 .. (i - 1) : s[j] = b
    <3> SUFFICES ASSUME NEW b \in B PROVE \E j \in 1 .. (i - 1) : s[j] = b
      OBVIOUS
    <3>1. PICK j \in 1 .. n : s[j] = b
      BY <1>4 DEF Surjection, Before
    <3>2. j \in 1 .. (i - 1)
      BY <1>1, <1>6, <3>1
    <3> QED
      BY <3>1, <3>2
  <2> QED
    BY <2>2, <2>3 DEF Bijection, Surjection, Injection
<1>8. IsFiniteSet(1 .. (i - 1)) /\ Cardinality(1 .. (i - 1)) = i - 1
  <2>1. PICK b \in Int : b = i - 1 /\ b >= 0
    BY <1>1
  <2>2. 1 \in Int
    OBVIOUS
  <2>3. IsFiniteSet(1 .. b) /\ Cardinality(1 .. b) = IF 1 > b THEN 0 ELSE b - 1 + 1
    BY <2>2, FS_Interval, Zenon
  <2> QED
    BY <2>1, <2>3
<1> HIDE DEF g, B
<1>9. Cardinality(B) = Cardinality(1 .. (i - 1))
  BY <1>7, <1>8, FS_Bijection, Zenon DEF ExistsBijection
<1>10. Rank(L, K, l) + 1 = i
  BY <1>1, <1>5, <1>8, <1>9 DEF Rank, B
<1> QED
  BY <1>5, <1>10 DEF n

-------------------------------------------------------------------------------
(* What a page has of the listing, and what a walk that has come to place  *)
(* k can still miss or find again.                                         *)

\* skip and take of a listing,
Slice(s, k, p) == SubSeq(s, k + 1, Lista!Menor(k + p, Len(s)))

\* and the rows of what they give.
RowsOf(P) == {P[i] : i \in DOMAIN P}

\* What a page that skips k rows and takes up to p has of the listing.
LEMMA PageRows ==
  ASSUME NEW L, NEW K, Keys(L, K), NEW s, Sorted(s, L, K), NEW k \in Nat, NEW p \in Nat \ {0}
  PROVE  /\ RowsOf(Slice(s, k, p)) \subseteq L
         /\ \A l \in Alone(L, K) :
              l \in RowsOf(Slice(s, k, p)) <=> Rank(L, K, l) \in k .. (k + p - 1)
         /\ Slice(s, k, p) = <<>> => /\ RowsOf(Slice(s, k, p)) = {}
                                     /\ \A l \in L : Rank(L, K, l) < k
<1> DEFINE n == Cardinality(L)
           P == Slice(s, k, p)
           G == RowsOf(P)
<1> USE DEF RowsOf
<1>1. n \in Nat
  BY FS_CardinalityType DEF Keys
<1>2. DOMAIN s = 1 .. n /\ \A i \in 1 .. n : s[i] \in L
  BY DEF Sorted
<1>3. Len(s) = n
  <2>1. s \in Seq(L)
    BY <1>1 DEF Sorted
  <2> QED
    BY <1>1, <1>2, <2>1, LenProperties
<1> HIDE DEF n
<1>4. PICK b \in Int : /\ b = Lista!Menor(k + p, Len(s))
                       /\ b <= n /\ b <= k + p
                       /\ (b = n \/ b = k + p)
  BY <1>1, <1>3 DEF Lista!Menor
<1>5. \A i \in (k + 1) .. b : i \in 1 .. n
  BY <1>1, <1>4
<1> HIDE DEF P
<1>6. /\ P \in Seq(L)
      /\ Len(P) = IF k + 1 <= b THEN b - (k + 1) + 1 ELSE 0
      /\ \A i \in 1 .. b - (k + 1) + 1 : P[i] = s[k + 1 + i - 1]
  <2>1. k + 1 \in Int /\ \A i \in (k + 1) .. b : s[i] \in L
    BY <1>2, <1>5
  <2> QED
    BY <1>4, <2>1, SubSeqProperties DEF P, Slice
<1>7. DOMAIN P = 1 .. (b - k) /\ \A i \in 1 .. (b - k) : P[i] = s[k + i]
  <2>1. DOMAIN P = 1 .. Len(P)
    BY <1>6, LenProperties
  <2>2. b - (k + 1) + 1 = b - k /\ \A i \in Int : k + 1 + i - 1 = k + i
    BY <1>4
  <2>3. \A i \in 1 .. (b - k) : P[i] = s[k + i]
    BY <1>6, <2>2
  <2>4. CASE k + 1 <= b
    BY <1>6, <2>1, <2>2, <2>3, <2>4
  <2>5. CASE ~(k + 1 <= b)
    <3>1. DOMAIN P = 1 .. 0 /\ b - k <= 0
      BY <1>4, <1>6, <2>1, <2>5
    <3> QED
      BY <1>4, <2>3, <3>1
  <2> QED
    BY <2>4, <2>5
<1>8. G \subseteq L
  <2>1. DOMAIN P = 1 .. Len(P) /\ \A i \in 1 .. Len(P) : P[i] \in L
    BY <1>6, LenProperties, ElementOfSeq
  <2> QED
    BY <2>1
<1>9. ASSUME NEW l \in Alone(L, K)
      PROVE  l \in G <=> Rank(L, K, l) \in k .. (k + p - 1)
  <2>1. PICK r \in 1 .. n : r = Rank(L, K, l) + 1 /\ s[r] = l
    BY <1>9, PlaceInOrder DEF n
  <2>2. ASSUME l \in G PROVE r \in (k + 1) .. (k + p)
    <3>1. PICK i \in 1 .. (b - k) : s[k + i] = l
      BY <1>7, <2>2
    <3>2. k + i \in 1 .. n
      BY <1>4, <1>5
    <3>3. r = k + i
      BY <1>2, <2>1, <3>1, <3>2 DEF Sorted
    <3> QED
      BY <1>4, <3>3
  <2>3. ASSUME r \in (k + 1) .. (k + p) PROVE l \in G
    <3>1. r - k \in 1 .. (b - k) /\ k + (r - k) = r
      <4>1. r \in Int /\ k \in Int /\ b \in Int /\ r <= b /\ r >= k + 1
        BY <1>1, <1>4, <2>1, <2>3
      <4> QED
        BY <4>1
    <3> QED
      BY <1>7, <2>1, <3>1
  <2>4. Rank(L, K, l) \in Nat
    BY RankType
  <2> HIDE DEF G
  <2> QED
    BY <2>1, <2>2, <2>3, <2>4
<1>10. ASSUME P = <<>> PROVE G = {} /\ \A l \in L : Rank(L, K, l) < k
  <2>1. ~(k + 1 <= b)
    BY <1>4, <1>6, <1>10
  <2>2. n <= k
    BY <1>1, <1>4, <2>1
  <2>3. ASSUME NEW l \in L PROVE Rank(L, K, l) < k
    <3>1. Rank(L, K, l) \in Nat /\ Rank(L, K, l) < n
      BY RankType DEF n
    <3> QED
      BY <1>1, <2>2, <3>1
  <2>4. G = {}
    BY <1>4, <1>7, <2>1
  <2> QED
    BY <2>3, <2>4
<1> QED
  BY <1>8, <1>9, <1>10 DEF P

\* Counting a set that two others cover.
LEMMA Covered ==
  ASSUME NEW A, NEW B, IsFiniteSet(A), IsFiniteSet(B), NEW C \in SUBSET (A \cup B)
  PROVE  /\ IsFiniteSet(C)
         /\ Cardinality(A) \in Nat /\ Cardinality(B) \in Nat /\ Cardinality(C) \in Nat
         /\ Cardinality(C) <= Cardinality(A) + Cardinality(B)
<1>1. /\ IsFiniteSet(A \cup B)
      /\ Cardinality(A \cup B) = Cardinality(A) + Cardinality(B) - Cardinality(A \cap B)
  BY FS_Union
<1>2. /\ Cardinality(A) \in Nat /\ Cardinality(B) \in Nat /\ Cardinality(A \cap B) \in Nat
  BY FS_CardinalityType, FS_Intersection
<1>3. IsFiniteSet(C) /\ Cardinality(C) <= Cardinality(A \cup B)
  BY <1>1, FS_Subset
<1>4. Cardinality(C) \in Nat /\ Cardinality(A \cup B) \in Nat
  BY <1>1, <1>3, FS_CardinalityType
<1> QED
  BY <1>1, <1>2, <1>3, <1>4

\* The rows that go can be counted.
LEMMA GoneFinite ==
  ASSUME NEW L, NEW M, NEW K, NEW J, IsFiniteSet(L)
  PROVE  IsFiniteSet(Gone(L, M, K, J)) /\ Cardinality(Gone(L, M, K, J)) \in Nat
BY FS_Subset, FS_CardinalityType DEF Gone

\* The rows of F the client has gone past without being given them.
Missed(F, V, L, K, k) == {l \in F \ V : Rank(L, K, l) < k}

\* The rows of F it was given twice, or would be if it found them again.
Again(F, V, R, L, K, k) == (R \cap F) \cup {l \in F \cap V : Rank(L, K, l) >= k}

\* The rows it was given or is still to be given.
ToSee(V, L, K, k) == V \cup {l \in L : Rank(L, K, l) >= k}

\* A write makes the client miss at most one row for each that goes,
LEMMA MissedWrite ==
  ASSUME NEW L, NEW K, Keys(L, K), NEW M, NEW J, Keys(M, J), NEW k \in Int, NEW V,
         NEW F \in SUBSET Alone(L, K), NEW G \in SUBSET F, \A l \in G : l \in M /\ J[l] = K[l]
  PROVE  /\ Cardinality(Missed(F, V, L, K, k)) \in Nat
         /\ Cardinality(Missed(G, V, M, J, k)) \in Nat
         /\ Cardinality(Missed(G, V, M, J, k))
              <= Cardinality(Missed(F, V, L, K, k)) + Cardinality(Gone(L, M, K, J))
<1> DEFINE X == Missed(F, V, L, K, k)
           Y == Missed(G, V, M, J, k)
           S == {l \in G : Rank(L, K, l) >= k /\ Rank(M, J, l) < k}
<1>1. IsFiniteSet(S) /\ Cardinality(S) \in Nat /\ Cardinality(S) <= Cardinality(Gone(L, M, K, J))
  <2>1. S \in SUBSET Alone(L, K)
    OBVIOUS
  <2> QED
    BY <2>1, CrossUp
<1>2. IsFiniteSet(X)
  <2>1. X \in SUBSET L
    BY DEF Missed, Alone
  <2> QED
    BY <2>1, FS_Subset DEF Keys
<1>3. Y \in SUBSET (X \cup S)
  <2> SUFFICES ASSUME NEW l \in Y PROVE l \in X \cup S
    OBVIOUS
  <2>1. Rank(L, K, l) \in Nat
    BY RankType
  <2> QED
    BY <2>1 DEF Missed
<1> HIDE DEF X, Y, S
<1>4. /\ Cardinality(X) \in Nat /\ Cardinality(Y) \in Nat
      /\ Cardinality(Y) <= Cardinality(X) + Cardinality(S)
  BY <1>1, <1>2, <1>3, Covered
<1>5. Cardinality(Gone(L, M, K, J)) \in Nat
  BY GoneFinite DEF Keys
<1>6. Cardinality(Y) <= Cardinality(X) + Cardinality(Gone(L, M, K, J))
  BY <1>1, <1>4, <1>5
<1> QED
  BY <1>4, <1>6 DEF X, Y

\* and find again at most one for each that comes.
LEMMA AgainWrite ==
  ASSUME NEW L, NEW K, Keys(L, K), NEW M, NEW J, Keys(M, J), NEW k \in Int, NEW V, NEW R,
         NEW F \in SUBSET Alone(L, K), NEW G \in SUBSET F, \A l \in G : l \in M /\ J[l] = K[l]
  PROVE  /\ Cardinality(Again(F, V, R, L, K, k)) \in Nat
         /\ Cardinality(Again(G, V, R, M, J, k)) \in Nat
         /\ Cardinality(Again(G, V, R, M, J, k))
              <= Cardinality(Again(F, V, R, L, K, k)) + Cardinality(Gone(M, L, J, K))
<1> DEFINE X == Again(F, V, R, L, K, k)
           Y == Again(G, V, R, M, J, k)
           S == {l \in G : Rank(L, K, l) < k /\ Rank(M, J, l) >= k}
<1>1. IsFiniteSet(S) /\ Cardinality(S) \in Nat /\ Cardinality(S) <= Cardinality(Gone(M, L, J, K))
  <2>1. S \in SUBSET Alone(L, K)
    OBVIOUS
  <2> QED
    BY <2>1, CrossDown
<1>2. IsFiniteSet(X)
  <2>1. X \in SUBSET L
    BY DEF Again, Alone
  <2> QED
    BY <2>1, FS_Subset DEF Keys
<1>3. Y \in SUBSET (X \cup S)
  <2> SUFFICES ASSUME NEW l \in Y PROVE l \in X \cup S
    OBVIOUS
  <2>1. Rank(L, K, l) \in Nat
    BY RankType
  <2> QED
    BY <2>1 DEF Again
<1> HIDE DEF X, Y, S
<1>4. /\ Cardinality(X) \in Nat /\ Cardinality(Y) \in Nat
      /\ Cardinality(Y) <= Cardinality(X) + Cardinality(S)
  BY <1>1, <1>2, <1>3, Covered
<1>5. Cardinality(Gone(M, L, J, K)) \in Nat
  BY GoneFinite DEF Keys
<1>6. Cardinality(Y) <= Cardinality(X) + Cardinality(Gone(M, L, J, K))
  BY <1>1, <1>4, <1>5
<1> QED
  BY <1>4, <1>6 DEF X, Y

\* When all rows are alone at their keys, every place has its row: the first k
\* places hold at most k rows, and k of them if a row comes after them.
LEMMA Places ==
  ASSUME NEW L, NEW K, Keys(L, K), Alone(L, K) = L, NEW k \in Nat,
         NEW P, P = {l \in L : Rank(L, K, l) < k}
  PROVE  /\ IsFiniteSet(P) /\ Cardinality(P) \in Nat /\ Cardinality(P) <= k
         /\ (\E l \in L : Rank(L, K, l) >= k) => Cardinality(P) = k
<1>1. IsFiniteSet(P) /\ Cardinality(P) \in Nat /\ Cardinality(P) <= k
  <2>1. \A l \in P : Rank(L, K, l) \in 0 .. (0 + k - 1)
    <3> SUFFICES ASSUME NEW l \in P PROVE Rank(L, K, l) \in 0 .. (0 + k - 1)
      OBVIOUS
    <3>1. Rank(L, K, l) \in Nat /\ Rank(L, K, l) < k
      BY RankType
    <3> QED
      BY <3>1
  <2>2. P \in SUBSET Alone(L, K) /\ 0 \in Int
    OBVIOUS
  <2> QED
    BY <2>1, <2>2, Spread
<1>2. ASSUME NEW l \in L, Rank(L, K, l) >= k PROVE Cardinality(P) >= k
  <2> DEFINE n == Cardinality(L)
             f == [m \in L |-> Rank(L, K, m)]
             g == [m \in P |-> Rank(L, K, m)]
  <2>1. n \in Nat /\ Rank(L, K, l) \in Nat /\ Rank(L, K, l) < n /\ IsFiniteSet(L)
    BY RankType DEF Keys
  <2>2. \A b \in Nat : IsFiniteSet(0 .. (b - 1)) /\ Cardinality(0 .. (b - 1)) = b
    <3> SUFFICES ASSUME NEW b \in Nat
                 PROVE  IsFiniteSet(0 .. (b - 1)) /\ Cardinality(0 .. (b - 1)) = b
      OBVIOUS
    <3>1. PICK c \in Int : c = b - 1
      OBVIOUS
    <3>2. 0 \in Int
      OBVIOUS
    <3>3. IsFiniteSet(0 .. c) /\ Cardinality(0 .. c) = IF 0 > c THEN 0 ELSE c - 0 + 1
      BY <3>2, FS_Interval, Zenon
    <3> QED
      BY <3>1, <3>3
  <2>3. \A m \in L : Rank(L, K, m) \in 0 .. (n - 1)
    <3> SUFFICES ASSUME NEW m \in L PROVE Rank(L, K, m) \in 0 .. (n - 1)
      OBVIOUS
    <3>1. Rank(L, K, m) \in Nat /\ Rank(L, K, m) < n
      BY RankType
    <3> QED
      BY <2>1, <3>1
  <2> HIDE DEF n
  <2>4. \A m, o \in L : m # o => Rank(L, K, m) # Rank(L, K, o)
    BY RankInjective
  <2>5. f \in Injection(L, 0 .. (n - 1))
    BY <2>3, <2>4 DEF Injection, IsInjective
  <2>6. f \in Surjection(L, 0 .. (n - 1))
    <3> HIDE DEF f
    <3> QED
      BY <2>1, <2>2, <2>5, FS_Injection, Zenon DEF n
  <2>7. \A m \in P : Rank(L, K, m) \in 0 .. (k - 1)
    <3> SUFFICES ASSUME NEW m \in P PROVE Rank(L, K, m) \in 0 .. (k - 1)
      OBVIOUS
    <3>1. Rank(L, K, m) \in Nat /\ Rank(L, K, m) < k
      BY RankType
    <3> QED
      BY <3>1
  <2>8. ASSUME NEW i \in 0 .. (k - 1) PROVE \E m \in P : Rank(L, K, m) = i
    <3>1. i \in 0 .. (n - 1) /\ i < k
      BY <1>2, <2>1
    <3>2. PICK m \in L : Rank(L, K, m) = i
      BY <2>6, <3>1 DEF Surjection
    <3> QED
      BY <3>1, <3>2
  <2>9. g \in Surjection(P, 0 .. (k - 1))
    BY <2>7, <2>8 DEF Surjection
  <2> HIDE DEF g
  <2>10. Cardinality(0 .. (k - 1)) <= Cardinality(P)
    BY <1>1, <2>9, FS_Surjection
  <2> QED
    BY <2>2, <2>10
<1> QED
  BY <1>1, <1>2

\* It adds at most the rows that come to what the client was given or is listed,
LEMMA ListedWrite ==
  ASSUME NEW L, NEW K, Keys(L, K), NEW M, NEW J, Keys(M, J), NEW V, IsFiniteSet(V)
  PROVE  /\ Cardinality(V \cup L) \in Nat /\ Cardinality(V \cup M) \in Nat
         /\ Cardinality(V \cup M) <= Cardinality(V \cup L) + Cardinality(Gone(M, L, J, K))
<1>1. IsFiniteSet(V \cup L) /\ IsFiniteSet(Gone(M, L, J, K))
  BY FS_Union, GoneFinite DEF Keys
<1>2. V \cup M \in SUBSET ((V \cup L) \cup Gone(M, L, J, K))
  BY DEF Gone
<1> QED
  BY <1>1, <1>2, Covered

\* The rows at the first k places.
FirstPlaces(L, K, k) == {l \in L : Rank(L, K, l) < k}

\* The rows that stay and fall back to one of them.
Fallen(L, M, K, J, k) ==
  {l \in L \ Gone(L, M, K, J) : Rank(L, K, l) >= k /\ Rank(M, J, l) < k}

\* Rows that stay fall back into the pages the client has had only as others
\* in them go.
LEMMA FallBack ==
  ASSUME NEW L, NEW K, Keys(L, K), Alone(L, K) = L,
         NEW M, NEW J, Keys(M, J), Alone(M, J) = M, NEW k \in Nat
  PROVE  /\ IsFiniteSet(Fallen(L, M, K, J, k)) /\ Cardinality(Fallen(L, M, K, J, k)) \in Nat
         /\ Cardinality(Fallen(L, M, K, J, k))
              <= Cardinality(FirstPlaces(L, K, k) \cap Gone(L, M, K, J))
<1> DEFINE Q == FirstPlaces(M, J, k)
           P == FirstPlaces(L, K, k)
           D == Gone(L, M, K, J)
           C == Fallen(L, M, K, J, k)
<1> USE DEF FirstPlaces, Fallen
<1>1. /\ IsFiniteSet(P) /\ Cardinality(P) \in Nat
      /\ (\E l \in L : Rank(L, K, l) >= k) => Cardinality(P) = k
  BY Places
<1>2. IsFiniteSet(Q) /\ Cardinality(Q) \in Nat /\ Cardinality(Q) <= k
  BY Places
<1>3. IsFiniteSet(C) /\ Cardinality(C) \in Nat
  BY FS_Subset, FS_CardinalityType DEF Keys
<1>4. Cardinality(P \cap D) \in Nat
  BY <1>1, FS_Intersection, FS_CardinalityType
<1>5. CASE C = {}
  BY <1>3, <1>4, <1>5, FS_EmptySet
<1>6. CASE C # {}
  <2>1. PICK c \in C : TRUE
    BY <1>6
  <2>2. Cardinality(P) = k
    BY <1>1, <2>1
  <2>3. ASSUME NEW l \in P \ D PROVE l \in Q
    <3>1. l \in L /\ l \in M /\ J[l] = K[l] /\ c \in L /\ c \in M /\ J[c] = K[c]
      BY <2>1 DEF Gone
    <3>2. Rank(L, K, l) < Rank(L, K, c)
      <4>1. Rank(L, K, l) \in Nat /\ Rank(L, K, c) \in Nat
        BY RankType
      <4> QED
        BY <2>1, <4>1
    <3>3. K[l] < K[c]
      <4>1. K[c] <= K[l] => Rank(L, K, c) <= Rank(L, K, l)
        BY <3>1, RankOrder
      <4>2. Rank(L, K, l) \in Nat /\ Rank(L, K, c) \in Nat /\ K[l] \in Int /\ K[c] \in Int
        BY <3>1, RankType DEF Keys
      <4> QED
        BY <3>2, <4>1, <4>2
    <3>4. Rank(M, J, l) < Rank(M, J, c)
      BY <3>1, <3>3, RankOrder
    <3>5. Rank(M, J, l) \in Nat /\ Rank(M, J, c) \in Nat
      BY RankType
    <3> QED
      BY <2>1, <3>1, <3>4, <3>5
  <2>4. (P \ D) \cup C \in SUBSET Q
    <3>1. C \in SUBSET Q
      BY DEF Gone
    <3> QED
      BY <2>3, <3>1
  <2>5. (P \ D) \cap C = {}
    <3> SUFFICES ASSUME NEW l \in P, l \in C PROVE FALSE
      OBVIOUS
    <3>1. Rank(L, K, l) \in Nat
      BY RankType
    <3> QED
      BY <3>1
  <2> HIDE DEF Q
  <2>6. /\ IsFiniteSet(P \ D) /\ Cardinality(P \ D) = Cardinality(P) - Cardinality(P \cap D)
    BY <1>1, FS_Difference
  <2>7. Cardinality((P \ D) \cup C) = Cardinality(P \ D) + Cardinality(C)
    <3>1. Cardinality((P \ D) \cup C)
            = Cardinality(P \ D) + Cardinality(C) - Cardinality((P \ D) \cap C)
      BY <1>3, <2>6, FS_Union
    <3>2. Cardinality((P \ D) \cap C) = 0
      BY <2>5, FS_EmptySet
    <3>3. Cardinality(P \ D) \in Nat
      BY <2>6, FS_CardinalityType
    <3> QED
      BY <1>3, <3>1, <3>2, <3>3
  <2>8. Cardinality((P \ D) \cup C) <= Cardinality(Q)
    BY <1>2, <2>4, FS_Subset
  <2> QED
    BY <1>1, <1>2, <1>3, <1>4, <2>2, <2>6, <2>7, <2>8
<1> QED
  BY <1>3, <1>4, <1>5, <1>6

\* and takes at most as many as go from what it was or will be given.
LEMMA ToSeeWrite ==
  ASSUME NEW L, NEW K, Keys(L, K), Alone(L, K) = L,
         NEW M, NEW J, Keys(M, J), Alone(M, J) = M, NEW k \in Nat, NEW V, IsFiniteSet(V)
  PROVE  /\ Cardinality(ToSee(V, L, K, k)) \in Nat
         /\ Cardinality(ToSee(V, M, J, k)) \in Nat
         /\ Cardinality(ToSee(V, L, K, k))
              <= Cardinality(ToSee(V, M, J, k)) + Cardinality(Gone(L, M, K, J))
<1> DEFINE D == Gone(L, M, K, J)
           P == FirstPlaces(L, K, k)
           C == Fallen(L, M, K, J, k)
           A == ToSee(V, L, K, k)
           B == ToSee(V, M, J, k)
           E == (D \ P) \cup C
<1>4. /\ IsFiniteSet(C) /\ Cardinality(C) \in Nat /\ Cardinality(P \cap D) \in Nat
      /\ Cardinality(C) <= Cardinality(P \cap D)
  <2>1. Cardinality(P \cap D) \in Nat
    BY RankType, FS_Subset, FS_CardinalityType, FS_Intersection DEF Keys, FirstPlaces
  <2> QED
    BY <2>1, FallBack
<1>5. IsFiniteSet(D) /\ Cardinality(D) \in Nat
  BY GoneFinite DEF Keys
<1> HIDE DEF D, P, C
<1>6. IsFiniteSet(D \ P) /\ Cardinality(D \ P) = Cardinality(D) - Cardinality(P \cap D)
  <2>1. D \cap P = P \cap D
    OBVIOUS
  <2> QED
    BY <1>5, <2>1, FS_Difference
<1>7. IsFiniteSet(E) /\ Cardinality(E) \in Nat /\ Cardinality(E) <= Cardinality(D)
  <2>1. E \in SUBSET ((D \ P) \cup C)
    OBVIOUS
  <2>2. /\ IsFiniteSet(E) /\ Cardinality(E) \in Nat
        /\ Cardinality(E) <= Cardinality(D \ P) + Cardinality(C)
    BY <1>4, <1>6, <2>1, Covered
  <2> HIDE DEF E
  <2> QED
    BY <1>4, <1>5, <1>6, <2>2
<1>8. IsFiniteSet(A) /\ IsFiniteSet(B)
  <2>1. IsFiniteSet(V \cup L) /\ IsFiniteSet(V \cup M)
    BY FS_Union DEF Keys
  <2>2. A \in SUBSET (V \cup L) /\ B \in SUBSET (V \cup M)
    BY DEF ToSee
  <2> QED
    BY <2>1, <2>2, FS_Subset, Zenon
<1>9. A \in SUBSET (B \cup E)
  <2> SUFFICES ASSUME NEW l \in L, Rank(L, K, l) >= k, l \notin B, l \notin E PROVE FALSE
    BY DEF ToSee
  <2>1. Rank(L, K, l) \in Nat /\ Rank(M, J, l) \in Nat
    BY RankType
  <2>2. l \notin D
    BY <2>1 DEF P, FirstPlaces
  <2>3. l \in M /\ Rank(M, J, l) < k
    BY <2>1, <2>2 DEF D, ToSee, Gone
  <2> QED
    BY <2>2, <2>3 DEF C, D, Fallen
<1> HIDE DEF A, B, E
<1>10. /\ Cardinality(A) \in Nat /\ Cardinality(B) \in Nat
       /\ Cardinality(A) <= Cardinality(B) + Cardinality(E)
  <2>1. Cardinality(A) \in Nat
    BY <1>8, FS_CardinalityType
  <2> QED
    BY <1>7, <1>8, <1>9, <2>1, Covered
<1>11. Cardinality(A) <= Cardinality(B) + Cardinality(D)
  BY <1>5, <1>7, <1>10
<1> QED
  BY <1>10, <1>11 DEF A, B, D

\* What is left to account for after a page was no less accounted for before it.
LEMMA PageStep ==
  ASSUME NEW L, NEW K, Keys(L, K), NEW F \in SUBSET Alone(L, K), NEW V, NEW R, NEW G,
         NEW k \in Nat, NEW p \in Nat \ {0},
         \A l \in Alone(L, K) : l \in G <=> Rank(L, K, l) \in k .. (k + p - 1)
  PROVE  /\ Missed(F, V \cup G, L, K, k + p) \subseteq Missed(F, V, L, K, k)
         /\ Again(F, V \cup G, R \cup (V \cap G), L, K, k + p) \subseteq Again(F, V, R, L, K, k)
         /\ Alone(L, K) = L => ToSee(V, L, K, k) \subseteq ToSee(V \cup G, L, K, k + p)
<1>1. \A l \in Alone(L, K) :
        /\ Rank(L, K, l) < k + p /\ l \notin G => Rank(L, K, l) < k
        /\ l \in G => Rank(L, K, l) >= k /\ ~(Rank(L, K, l) >= k + p)
        /\ Rank(L, K, l) >= k + p => Rank(L, K, l) >= k
        /\ Rank(L, K, l) >= k /\ l \notin G => Rank(L, K, l) >= k + p
  <2> SUFFICES ASSUME NEW l \in Alone(L, K)
               PROVE  /\ Rank(L, K, l) < k + p /\ l \notin G => Rank(L, K, l) < k
                      /\ l \in G => Rank(L, K, l) >= k /\ ~(Rank(L, K, l) >= k + p)
                      /\ Rank(L, K, l) >= k + p => Rank(L, K, l) >= k
                      /\ Rank(L, K, l) >= k /\ l \notin G => Rank(L, K, l) >= k + p
    OBVIOUS
  <2>1. Rank(L, K, l) \in Nat
    BY RankType
  <2> QED
    BY <2>1
<1>2. Missed(F, V \cup G, L, K, k + p) \subseteq Missed(F, V, L, K, k)
  BY <1>1 DEF Missed
<1>3. Again(F, V \cup G, R \cup (V \cap G), L, K, k + p) \subseteq Again(F, V, R, L, K, k)
  BY <1>1 DEF Again
<1>4. Alone(L, K) = L => ToSee(V, L, K, k) \subseteq ToSee(V \cup G, L, K, k + p)
  BY <1>1 DEF ToSee
<1> QED
  BY <1>2, <1>3, <1>4

-------------------------------------------------------------------------------
(* The walk through the restaurants.                                       *)

\* How many rows a page has at most,
Take == Lista!parsePagination(1, PageSize).take
\* and how many come before the page the client asks for next.
Skip == (page - 1) * Take

\* No page is empty by its size: parsePagination clamps what it is asked for.
LEMMA TakeType == Take \in Nat \ {0}
BY SizesAssumption
   DEF Take, Lista!parsePagination, Lista!Pedido, Lista!Maior, Lista!Menor

\* One page after the other leaves no gap.
LEMMA SkipStep ==
  ASSUME page \in Int, page > 0
  PROVE  /\ Skip \in Nat
         /\ page' = 1 => Skip' = 0
         /\ page' = page => Skip' = Skip
         /\ page' = page + 1 => Skip' = Skip + Take
<1>1. PICK t \in Nat \ {0} : t = Take
  BY TakeType
<1>2. \A x \in Nat : x * t \in Nat
  OBVIOUS
<1>3. page - 1 \in Nat
  OBVIOUS
<1>4. (page + 1 - 1) * t = (page - 1) * t + t
  OBVIOUS
<1>5. (1 - 1) * t = 0
  OBVIOUS
<1> QED
  BY <1>1, <1>2, <1>3, <1>4, <1>5 DEF Skip

\* What parsePagination makes of the request for a page.
LEMMA Parsed ==
  ASSUME page \in Int, page > 0
  PROVE  Lista!parsePagination(page, PageSize) = [skip |-> Skip, take |-> Take]
BY SizesAssumption
   DEF Skip, Take, Lista!parsePagination, Lista!Pedido, Lista!Maior, Lista!Menor

\* Before the count nothing was given; while the client walks, the rows that
\* were listed ever since have keys of their own.
WalkInv ==
  /\ page \in Nat \cup {Lista!Fim}
  /\ page = 0 => vistas = {} /\ repetidas = {} /\ firmes = {} /\ entradas = 0 /\ saidas = 0
  /\ total \in Nat /\ entradas \in Nat /\ saidas \in Nat
  /\ vistas \subseteq Cnpjs /\ empatou \in BOOLEAN
  /\ page > 0 => /\ firmes \subseteq Alone(Listadas, Chave)
                 /\ ~empatou => Alone(Listadas, Chave) = Listadas

\* The rows gone past without being given are no more than the rows that went,
MissedInv ==
  /\ page > 0 => Cardinality(Missed(firmes, vistas, Listadas, Chave, Skip)) <= saidas
  /\ MissedOnlyByDepartures

\* those given twice, or to be found again, no more than the rows that came,
AgainInv ==
  /\ page > 0 => Cardinality(Again(firmes, vistas, repetidas, Listadas, Chave, Skip)) <= entradas
  /\ RepeatedOnlyByArrivals

\* and the rows given and to be given are those that were counted, but for the
\* ones that came and went.
CountInv ==
  /\ page > 0 =>
       /\ Cardinality(vistas \cup Listadas) <= total + entradas
       /\ ~empatou => Cardinality(ToSee(vistas, Listadas, Chave, Skip)) >= total - saidas
  /\ CountAccounts

\* The listing is finite and its keys are comparable.
LEMMA KeysListed == TypeOK => Keys(Listadas, Chave) /\ Listadas \subseteq Cnpjs
<1> SUFFICES ASSUME TypeOK PROVE Keys(Listadas, Chave) /\ Listadas \subseteq Cnpjs
  OBVIOUS
<1>1. Listadas \in SUBSET Cnpjs
  BY DEF Listadas
<1>2. IsFiniteSet(Listadas)
  BY <1>1, TableAssumption, FS_Subset
<1>3. ASSUME NEW l \in Listadas PROVE Chave[l] \in Int
  <2>1. l \in Cnpjs /\ rows[l] # None /\ rows[l] \in Row
    BY <1>3 DEF Listadas, Visible, TypeOK
  <2>2. Chave[l] = rows[l].nome
    BY <2>1 DEF Chave
  <2>3. rows[l].nome \in Nomes
    BY <2>1 DEF Row
  <2> QED
    BY <2>2, <2>3, TableAssumption
<1> QED
  BY <1>1, <1>2, <1>3 DEF Keys

\* The same after a step.
LEMMA KeysNext == TypeOK' => Keys(Listadas', Chave')
<1>1. TypeOK' => (Keys(Listadas, Chave) /\ Listadas \subseteq Cnpjs)'
  BY KeysListed, PTL
<1> QED
  BY <1>1 DEF Keys

\* Listagem counts as everybody does.
LEMMA SameCardinality == \A S : Lista!Cardinality(S) = Cardinality(S)
BY DEF Lista!Cardinality, Cardinality

\* And it means the same by a key of its own.
LEMMA AloneListed == Lista!Sozinhas = Alone(Listadas, Chave)
BY DEF Lista!Sozinhas, Alone

\* What the history says of a write while the client walks.
LEMMA Observed ==
  ASSUME WalkInv, page > 0, Escreve
  PROVE  /\ UNCHANGED <<page, total, vistas, repetidas>>
         /\ entradas' = entradas + Cardinality(Gone(Listadas', Listadas, Chave', Chave))
         /\ saidas' = saidas + Cardinality(Gone(Listadas, Listadas', Chave, Chave'))
         /\ firmes' \subseteq firmes
         /\ firmes' \subseteq Alone(Listadas, Chave)'
         /\ \A l \in firmes' : l \in Listadas' /\ Chave'[l] = Chave[l]
         /\ empatou' \in BOOLEAN
         /\ ~empatou' => ~empatou /\ Alone(Listadas, Chave)' = Listadas'
<1> DEFINE moved == {l \in Listadas \cap Listadas' : Chave[l] # Chave'[l]}
<1>1. /\ UNCHANGED <<page, total, vistas, repetidas>>
      /\ entradas' = entradas + Cardinality((Listadas' \ Listadas) \cup moved)
      /\ saidas' = saidas + Cardinality((Listadas \ Listadas') \cup moved)
      /\ firmes' = (firmes \cap Lista!Sozinhas') \ moved
      /\ empatou' = (empatou \/ (Lista!Sozinhas # Listadas)')
  BY SameCardinality DEF Escreve, Lista!Observa
<1>2. /\ (Listadas' \ Listadas) \cup moved = Gone(Listadas', Listadas, Chave', Chave)
      /\ (Listadas \ Listadas') \cup moved = Gone(Listadas, Listadas', Chave, Chave')
  BY DEF Gone
<1>3. Lista!Sozinhas' = Alone(Listadas, Chave)'
  BY DEF Lista!Sozinhas, Alone
<1>4. firmes \subseteq Listadas /\ Alone(Listadas, Chave)' \subseteq Listadas'
  BY DEF WalkInv, Alone
<1> QED
  BY <1>1, <1>2, <1>3, <1>4 DEF WalkInv

\* A write makes one row miss for each that goes at most.
LEMMA MissedObserved ==
  ASSUME WalkInv, MissedInv, TypeOK, TypeOK', page > 0, Escreve
  PROVE  MissedInv'
<1>1. /\ Keys(Listadas, Chave) /\ Keys(Listadas', Chave')
  BY KeysListed, KeysNext
<1>2. /\ UNCHANGED <<page, vistas>>
      /\ saidas' = saidas + Cardinality(Gone(Listadas, Listadas', Chave, Chave'))
      /\ firmes' \in SUBSET firmes
      /\ \A l \in firmes' : l \in Listadas' /\ Chave'[l] = Chave[l]
  BY Observed
<1>3. firmes \in SUBSET Alone(Listadas, Chave) /\ page \in Int /\ saidas \in Nat
  BY DEF WalkInv, Lista!Fim
<1>4. Skip \in Int /\ Skip' = Skip
  BY <1>2, <1>3, SkipStep
<1>5. /\ Cardinality(Missed(firmes, vistas, Listadas, Chave, Skip)) \in Nat
      /\ Cardinality(Missed(firmes', vistas, Listadas', Chave', Skip)) \in Nat
      /\ Cardinality(Missed(firmes', vistas, Listadas', Chave', Skip))
           <= Cardinality(Missed(firmes, vistas, Listadas, Chave, Skip))
                + Cardinality(Gone(Listadas, Listadas', Chave, Chave'))
  BY <1>1, <1>2, <1>3, <1>4, MissedWrite
<1>6. Cardinality(Gone(Listadas, Listadas', Chave, Chave')) \in Nat
  BY <1>1, GoneFinite DEF Keys
<1>7. Cardinality(Missed(firmes', vistas, Listadas', Chave', Skip)) <= saidas'
  BY <1>2, <1>3, <1>5, <1>6 DEF MissedInv
<1>8. Missed(firmes, vistas, Listadas, Chave, Skip)'
        = Missed(firmes', vistas, Listadas', Chave', Skip)
  BY <1>2, <1>4 DEF Missed, Rank, Before
<1>9. MissedOnlyByDepartures'
  BY <1>2 DEF MissedOnlyByDepartures, Lista!MissedOnlyByDepartures, Lista!Fim
<1> QED
  BY <1>7, <1>8, <1>9 DEF MissedInv

\* One for each that comes,
LEMMA AgainObserved ==
  ASSUME WalkInv, AgainInv, TypeOK, TypeOK', page > 0, Escreve
  PROVE  AgainInv'
<1>1. /\ Keys(Listadas, Chave) /\ Keys(Listadas', Chave')
  BY KeysListed, KeysNext
<1>2. /\ UNCHANGED <<page, vistas, repetidas>>
      /\ entradas' = entradas + Cardinality(Gone(Listadas', Listadas, Chave', Chave))
      /\ firmes' \in SUBSET firmes
      /\ \A l \in firmes' : l \in Listadas' /\ Chave'[l] = Chave[l]
  BY Observed
<1>3. firmes \in SUBSET Alone(Listadas, Chave) /\ page \in Int /\ entradas \in Nat
  BY DEF WalkInv, Lista!Fim
<1>4. Skip \in Int /\ Skip' = Skip
  BY <1>2, <1>3, SkipStep
<1>5. /\ Cardinality(Again(firmes, vistas, repetidas, Listadas, Chave, Skip)) \in Nat
      /\ Cardinality(Again(firmes', vistas, repetidas, Listadas', Chave', Skip)) \in Nat
      /\ Cardinality(Again(firmes', vistas, repetidas, Listadas', Chave', Skip))
           <= Cardinality(Again(firmes, vistas, repetidas, Listadas, Chave, Skip))
                + Cardinality(Gone(Listadas', Listadas, Chave', Chave))
  BY <1>1, <1>2, <1>3, <1>4, AgainWrite
<1>6. Cardinality(Gone(Listadas', Listadas, Chave', Chave)) \in Nat
  BY <1>1, GoneFinite DEF Keys
<1>7. Cardinality(Again(firmes', vistas, repetidas, Listadas', Chave', Skip)) <= entradas'
  BY <1>2, <1>3, <1>5, <1>6 DEF AgainInv
<1>8. Again(firmes, vistas, repetidas, Listadas, Chave, Skip)'
        = Again(firmes', vistas, repetidas, Listadas', Chave', Skip)
  BY <1>2, <1>4 DEF Again, Rank, Before
<1>9. RepeatedOnlyByArrivals'
  <2>1. IsFiniteSet(Again(firmes', vistas, repetidas, Listadas', Chave', Skip))
    <3>1. Again(firmes', vistas, repetidas, Listadas', Chave', Skip) \in SUBSET Listadas
      BY <1>2, <1>3 DEF Again, Alone
    <3> QED
      BY <1>1, <3>1, FS_Subset DEF Keys
  <2>2. repetidas \cap firmes'
          \in SUBSET Again(firmes', vistas, repetidas, Listadas', Chave', Skip)
    BY DEF Again
  <2>3. /\ IsFiniteSet(repetidas \cap firmes')
        /\ Cardinality(repetidas \cap firmes')
             <= Cardinality(Again(firmes', vistas, repetidas, Listadas', Chave', Skip))
    BY <2>1, <2>2, FS_Subset, Zenon
  <2>4. Cardinality(repetidas \cap firmes') \in Nat /\ entradas' \in Nat
    BY <1>2, <1>3, <1>6, <2>3, FS_CardinalityType
  <2>5. Cardinality(repetidas \cap firmes') <= entradas'
    BY <1>5, <1>7, <2>3, <2>4
  <2> QED
    BY <1>2, <2>5, SameCardinality DEF RepeatedOnlyByArrivals, Lista!RepeatedOnlyByArrivals
<1> QED
  BY <1>7, <1>8, <1>9 DEF AgainInv

\* and both in the count.
LEMMA CountObserved ==
  ASSUME WalkInv, CountInv, TypeOK, TypeOK', page > 0, Escreve
  PROVE  CountInv'
<1>1. /\ Keys(Listadas, Chave) /\ Keys(Listadas', Chave')
  BY KeysListed, KeysNext
<1>2. /\ UNCHANGED <<page, vistas, total>>
      /\ entradas' = entradas + Cardinality(Gone(Listadas', Listadas, Chave', Chave))
      /\ saidas' = saidas + Cardinality(Gone(Listadas, Listadas', Chave, Chave'))
      /\ ~empatou' => ~empatou /\ Alone(Listadas, Chave)' = Listadas'
  BY Observed
<1>3. /\ page \in Int /\ entradas \in Nat /\ saidas \in Nat /\ total \in Nat
      /\ ~empatou => Alone(Listadas, Chave) = Listadas
  BY DEF WalkInv, Lista!Fim
<1>4. Skip \in Nat /\ Skip' = Skip
  BY <1>2, <1>3, SkipStep
<1>5. IsFiniteSet(vistas)
  BY TableAssumption, FS_Subset DEF WalkInv
<1>6. /\ Cardinality(Gone(Listadas', Listadas, Chave', Chave)) \in Nat
      /\ Cardinality(Gone(Listadas, Listadas', Chave, Chave')) \in Nat
  BY <1>1, GoneFinite DEF Keys
<1>7. Cardinality(vistas \cup Listadas') <= total + entradas'
  <2>1. /\ Cardinality(vistas \cup Listadas) \in Nat /\ Cardinality(vistas \cup Listadas') \in Nat
        /\ Cardinality(vistas \cup Listadas')
             <= Cardinality(vistas \cup Listadas)
                  + Cardinality(Gone(Listadas', Listadas, Chave', Chave))
    BY <1>1, <1>5, ListedWrite
  <2> QED
    BY <1>2, <1>3, <1>6, <2>1 DEF CountInv
<1>8. ASSUME ~empatou'
      PROVE  Cardinality(ToSee(vistas, Listadas', Chave', Skip)) >= total - saidas'
  <2>1. Alone(Listadas', Chave') = Listadas'
    BY <1>2, <1>8 DEF Alone
  <2>2. /\ Cardinality(ToSee(vistas, Listadas, Chave, Skip)) \in Nat
        /\ Cardinality(ToSee(vistas, Listadas', Chave', Skip)) \in Nat
        /\ Cardinality(ToSee(vistas, Listadas, Chave, Skip))
             <= Cardinality(ToSee(vistas, Listadas', Chave', Skip))
                  + Cardinality(Gone(Listadas, Listadas', Chave, Chave'))
    BY <1>1, <1>2, <1>3, <1>4, <1>5, <1>8, <2>1, ToSeeWrite
  <2>3. Cardinality(ToSee(vistas, Listadas, Chave, Skip)) >= total - saidas
    BY <1>2, <1>8 DEF CountInv
  <2> QED
    BY <1>2, <1>3, <1>6, <2>2, <2>3
<1>9. ToSee(vistas, Listadas, Chave, Skip)' = ToSee(vistas, Listadas', Chave', Skip)
  BY <1>2, <1>4 DEF ToSee, Rank, Before
<1>10. CountAccounts'
  BY <1>2 DEF CountAccounts, Lista!CountAccounts, Lista!Fim
<1> QED
  BY <1>2, <1>7, <1>8, <1>9, <1>10 DEF CountInv

\* A page gives the rows at its places, and the last one that there are no more.
Paged(G) ==
  /\ page > 0
  /\ G \in SUBSET Listadas
  /\ \A l \in Alone(Listadas, Chave) :
       l \in G <=> Rank(Listadas, Chave, l) \in Skip .. (Skip + Take - 1)
  /\ vistas' = vistas \cup G
  /\ repetidas' = repetidas \cup (vistas \cap G)
  /\ UNCHANGED <<total, firmes, entradas, saidas, empatou>>
  /\ Listadas' = Listadas /\ Chave' = Chave
  /\ \/ page' = page + 1
     \/ /\ page' = Lista!Fim /\ G = {}
        /\ \A l \in Listadas : Rank(Listadas, Chave, l) < Skip

\* A page is read, nothing is written.
LEMMA SameTable == UNCHANGED vars => Listadas' = Listadas /\ Chave' = Chave
BY DEF vars, Listadas, Visible, Chave

\* GET ?page&pageSize is such a step, whatever the database does with equal keys.
LEMMA Pages ==
  ASSUME WalkInv, TypeOK, Lista!Listar, UNCHANGED vars
  PROVE  \E G : Paged(G)
<1>1. page > 0 /\ page \in Int
  BY DEF Lista!Listar, WalkInv, Lista!Fim
<1>2. PICK s \in Lista!Ordenacoes :
        LET S == Lista!Pagina(s, Lista!parsePagination(page, PageSize))
            G == {S[i] : i \in DOMAIN S}
        IN  /\ vistas' = vistas \cup G
            /\ repetidas' = repetidas \cup (vistas \cap G)
            /\ page' = IF S = <<>> THEN Lista!Fim ELSE page + 1
  BY DEF Lista!Listar
<1> DEFINE S == Slice(s, Skip, Take)
           G == RowsOf(S)
<1>3. S = Lista!Pagina(s, Lista!parsePagination(page, PageSize))
  <2>1. Lista!parsePagination(page, PageSize) = [skip |-> Skip, take |-> Take]
    BY <1>1, Parsed
  <2>2. /\ Lista!parsePagination(page, PageSize).skip = Skip
        /\ Lista!parsePagination(page, PageSize).take = Take
    BY <2>1
  <2> QED
    BY <2>2, Zenon DEF Slice, Lista!Pagina
<1>4. /\ vistas' = vistas \cup G
      /\ repetidas' = repetidas \cup (vistas \cap G)
      /\ page' = IF S = <<>> THEN Lista!Fim ELSE page + 1
  BY <1>2, <1>3 DEF RowsOf
<1>5. Sorted(s, Listadas, Chave)
  BY <1>2, SameCardinality DEF Sorted, Lista!Ordenacoes, Lista!Sequencias
<1>6. /\ G \subseteq Listadas
      /\ \A l \in Alone(Listadas, Chave) :
           l \in G <=> Rank(Listadas, Chave, l) \in Skip .. (Skip + Take - 1)
      /\ S = <<>> => G = {} /\ \A l \in Listadas : Rank(Listadas, Chave, l) < Skip
  <2>1. Keys(Listadas, Chave) /\ Skip \in Nat /\ Take \in Nat \ {0}
    BY <1>1, KeysListed, SkipStep, TakeType
  <2> QED
    BY <1>5, <2>1, PageRows
<1> HIDE DEF S, G
<1>7. UNCHANGED <<total, firmes, entradas, saidas, empatou>>
  BY DEF Lista!Listar
<1>8. Paged(G)
  BY <1>1, <1>4, <1>6, <1>7, SameTable DEF Paged
<1> QED
  BY <1>8

\* A page leaves no more rows missed,
LEMMA MissedPaged ==
  ASSUME WalkInv, MissedInv, TypeOK, NEW G, Paged(G)
  PROVE  MissedInv'
<1> DEFINE X == Missed(firmes, vistas, Listadas, Chave, Skip)
           Y == Missed(firmes, vistas \cup G, Listadas, Chave, Skip + Take)
<1>1. Keys(Listadas, Chave) /\ Take \in Nat \ {0}
  BY KeysListed, TakeType
<1>2. page \in Int /\ page > 0 /\ firmes \in SUBSET Alone(Listadas, Chave) /\ saidas \in Nat
  BY DEF WalkInv, Lista!Fim, Paged
<1>3. Skip \in Nat
  BY <1>2, SkipStep
<1>4. Y \in SUBSET X
  BY <1>1, <1>2, <1>3, PageStep DEF Paged
<1>5. IsFiniteSet(X) /\ Cardinality(X) \in Nat
  <2>1. X \in SUBSET Listadas
    BY <1>2 DEF Missed, Alone
  <2> HIDE DEF X
  <2> QED
    BY <1>1, <2>1, FS_Subset, FS_CardinalityType DEF Keys
<1>6. Cardinality(X) <= saidas
  BY <1>2 DEF MissedInv
<1>7. Cardinality(Y) <= saidas
  <2> HIDE DEF X, Y
  <2>1. IsFiniteSet(Y) /\ Cardinality(Y) <= Cardinality(X)
    BY <1>4, <1>5, FS_Subset
  <2>2. Cardinality(Y) \in Nat
    BY <2>1, FS_CardinalityType
  <2> QED
    BY <1>2, <1>5, <1>6, <2>1, <2>2
<1>8. CASE page' = page + 1
  <2>1. Skip' = Skip + Take
    BY <1>2, <1>8, SkipStep
  <2>2. Missed(firmes, vistas, Listadas, Chave, Skip)' = Y
    BY <2>1 DEF Paged, Missed, Rank, Before
  <2>3. MissedOnlyByDepartures'
    BY <1>2, <1>8 DEF MissedOnlyByDepartures, Lista!MissedOnlyByDepartures, Lista!Fim
  <2> HIDE DEF Y
  <2> QED
    BY <1>7, <2>2, <2>3 DEF MissedInv, Paged
<1>9. CASE page' = Lista!Fim /\ G = {} /\ \A l \in Listadas : Rank(Listadas, Chave, l) < Skip
  <2>1. firmes \ vistas \in SUBSET X
    BY <1>2, <1>9 DEF Missed, Alone
  <2>2. IsFiniteSet(firmes \ vistas) /\ Cardinality(firmes \ vistas) <= Cardinality(X)
    <3> HIDE DEF X
    <3> QED
      BY <1>5, <2>1, FS_Subset
  <2>3. Cardinality(firmes \ vistas) <= saidas
    <3> HIDE DEF X
    <3>1. Cardinality(firmes \ vistas) \in Nat
      BY <2>2, FS_CardinalityType
    <3> QED
      BY <1>2, <1>5, <1>6, <2>2, <3>1
  <2>4. MissedOnlyByDepartures'
    <3>1. (firmes \ vistas)' = firmes \ vistas /\ saidas' = saidas
      BY <1>9 DEF Paged
    <3> QED
      BY <2>3, <3>1, SameCardinality
         DEF MissedOnlyByDepartures, Lista!MissedOnlyByDepartures
  <2> QED
    BY <1>9, <2>4 DEF MissedInv, Lista!Fim
<1> QED
  BY <1>8, <1>9 DEF Paged

\* no more to be found again,
LEMMA AgainPaged ==
  ASSUME WalkInv, AgainInv, TypeOK, NEW G, Paged(G)
  PROVE  AgainInv'
<1> DEFINE X == Again(firmes, vistas, repetidas, Listadas, Chave, Skip)
           Y == Again(firmes, vistas \cup G, repetidas \cup (vistas \cap G), Listadas, Chave,
                      Skip + Take)
<1>1. Keys(Listadas, Chave) /\ Take \in Nat \ {0}
  BY KeysListed, TakeType
<1>2. page \in Int /\ page > 0 /\ firmes \in SUBSET Alone(Listadas, Chave) /\ entradas \in Nat
  BY DEF WalkInv, Lista!Fim, Paged
<1>3. Skip \in Nat
  BY <1>2, SkipStep
<1>4. Y \in SUBSET X
  BY <1>1, <1>2, <1>3, PageStep DEF Paged
<1>5. IsFiniteSet(X) /\ Cardinality(X) \in Nat
  <2>1. X \in SUBSET Listadas
    BY <1>2 DEF Again, Alone
  <2> HIDE DEF X
  <2> QED
    BY <1>1, <2>1, FS_Subset, FS_CardinalityType DEF Keys
<1>6. Cardinality(X) <= entradas
  BY <1>2 DEF AgainInv
<1>7. ASSUME NEW Z \in SUBSET X PROVE Cardinality(Z) <= entradas
  <2> HIDE DEF X
  <2>1. IsFiniteSet(Z) /\ Cardinality(Z) <= Cardinality(X)
    BY <1>5, FS_Subset
  <2>2. Cardinality(Z) \in Nat
    BY <2>1, FS_CardinalityType
  <2> QED
    BY <1>2, <1>5, <1>6, <2>1, <2>2
<1>8. RepeatedOnlyByArrivals'
  <2>1. (repetidas \cup (vistas \cap G)) \cap firmes \in SUBSET Y
    BY DEF Again
  <2>2. Cardinality((repetidas \cup (vistas \cap G)) \cap firmes) <= entradas
    <3> HIDE DEF X, Y
    <3> QED
      BY <1>4, <1>7, <2>1
  <2>3. /\ (repetidas \cap firmes)' = (repetidas \cup (vistas \cap G)) \cap firmes
        /\ entradas' = entradas
    BY DEF Paged
  <2> QED
    BY <2>2, <2>3, SameCardinality DEF RepeatedOnlyByArrivals, Lista!RepeatedOnlyByArrivals
<1>9. CASE page' = page + 1
  <2>1. Skip' = Skip + Take
    BY <1>2, <1>9, SkipStep
  <2>2. Again(firmes, vistas, repetidas, Listadas, Chave, Skip)' = Y
    BY <2>1 DEF Paged, Again, Rank, Before
  <2>3. Cardinality(Y) <= entradas
    BY <1>4, <1>7
  <2> HIDE DEF Y
  <2> QED
    BY <1>8, <2>2, <2>3 DEF AgainInv, Paged
<1>10. CASE page' = Lista!Fim
  BY <1>8, <1>10 DEF AgainInv, Lista!Fim
<1> QED
  BY <1>9, <1>10 DEF Paged

\* and no fewer accounted for.
LEMMA CountPaged ==
  ASSUME WalkInv, CountInv, TypeOK, NEW G, Paged(G)
  PROVE  CountInv'
<1> DEFINE A == ToSee(vistas, Listadas, Chave, Skip)
           B == ToSee(vistas \cup G, Listadas, Chave, Skip + Take)
           U == vistas \cup Listadas
<1>1. Keys(Listadas, Chave) /\ Take \in Nat \ {0}
  BY KeysListed, TakeType
<1>2. /\ page \in Int /\ page > 0 /\ total \in Nat /\ entradas \in Nat /\ saidas \in Nat
      /\ ~empatou => Alone(Listadas, Chave) = Listadas
      /\ IsFiniteSet(vistas)
  BY TableAssumption, FS_Subset DEF WalkInv, Lista!Fim, Paged
<1>3. Skip \in Nat
  BY <1>2, SkipStep
<1>4. IsFiniteSet(U) /\ Cardinality(U) \in Nat /\ Cardinality(U) <= total + entradas
  <2>1. IsFiniteSet(U)
    BY <1>1, <1>2, FS_Union DEF Keys
  <2> QED
    BY <1>2, <2>1, FS_CardinalityType DEF CountInv
<1>5. (vistas \cup G) \cup Listadas = U
  BY DEF Paged
<1>6. ASSUME NEW Z \in SUBSET U
      PROVE  IsFiniteSet(Z) /\ Cardinality(Z) \in Nat /\ Cardinality(Z) <= total + entradas
  <2> HIDE DEF U
  <2>1. IsFiniteSet(Z) /\ Cardinality(Z) <= Cardinality(U)
    BY <1>4, FS_Subset
  <2>2. Cardinality(Z) \in Nat
    BY <2>1, FS_CardinalityType
  <2> QED
    BY <1>2, <1>4, <2>1, <2>2
<1>7. CASE page' = page + 1
  <2>1. Skip' = Skip + Take
    BY <1>2, <1>7, SkipStep
  <2>2. /\ ToSee(vistas, Listadas, Chave, Skip)' = B
        /\ (vistas \cup Listadas)' = U
        /\ UNCHANGED <<total, entradas, saidas, empatou>>
    BY <1>5, <2>1 DEF Paged, ToSee, Rank, Before
  <2>3. ASSUME ~empatou PROVE Cardinality(B) >= total - saidas
    <3>1. A \in SUBSET B
      BY <1>1, <1>2, <1>3, <2>3, PageStep DEF Paged
    <3>2. A \in SUBSET U /\ B \in SUBSET U
      BY <1>5 DEF ToSee
    <3>3. Cardinality(A) >= total - saidas
      BY <1>2, <2>3 DEF CountInv
    <3> HIDE DEF A, B, U
    <3>4. IsFiniteSet(B) /\ Cardinality(A) \in Nat /\ Cardinality(B) \in Nat
      BY <1>6, <3>2
    <3>5. Cardinality(A) <= Cardinality(B)
      BY <3>1, <3>4, FS_Subset
    <3> QED
      BY <1>2, <3>3, <3>4, <3>5
  <2>4. CountAccounts'
    BY <1>2, <1>7 DEF CountAccounts, Lista!CountAccounts, Lista!Fim
  <2> HIDE DEF A, B, U
  <2> QED
    BY <1>4, <2>2, <2>3, <2>4 DEF CountInv
<1>8. CASE page' = Lista!Fim /\ G = {} /\ \A l \in Listadas : Rank(Listadas, Chave, l) < Skip
  <2>1. vistas' = vistas /\ UNCHANGED <<total, entradas, saidas, empatou>>
    BY <1>8 DEF Paged
  <2>2. Cardinality(vistas) <= total + entradas
    BY <1>6
  <2>3. ASSUME ~empatou PROVE Cardinality(vistas) >= total - saidas
    <3>1. A = vistas
      <4> SUFFICES ASSUME NEW l \in Listadas, Rank(Listadas, Chave, l) >= Skip PROVE FALSE
        BY DEF ToSee
      <4>1. Rank(Listadas, Chave, l) \in Nat
        BY <1>1, RankType
      <4> QED
        BY <1>3, <1>8, <4>1
    <3> QED
      BY <1>2, <2>3, <3>1 DEF CountInv
  <2>4. CountAccounts'
    BY <2>1, <2>2, <2>3, SameCardinality DEF CountAccounts, Lista!CountAccounts
  <2> QED
    BY <1>8, <2>4 DEF CountInv, Lista!Fim
<1> QED
  BY <1>7, <1>8 DEF Paged

\* GET /count starts the walk with nothing missed and everything to see.
LEMMA Counted ==
  ASSUME WalkInv, TypeOK, Lista!Contar, UNCHANGED vars
  PROVE  MissedInv' /\ AgainInv' /\ CountInv' /\ WalkInv'
<1>1. Listadas' = Listadas /\ Chave' = Chave
  BY SameTable
<1>2. Keys(Listadas, Chave)
  BY KeysListed
<1>3. /\ page' = 1 /\ vistas = {} /\ repetidas = {} /\ entradas = 0 /\ saidas = 0
      /\ vistas' = {} /\ repetidas' = {} /\ entradas' = 0 /\ saidas' = 0
      /\ total' = Cardinality(Listadas) /\ firmes' = Alone(Listadas, Chave)
      /\ empatou' = (Alone(Listadas, Chave) # Listadas)
  BY AloneListed, SameCardinality DEF Lista!Contar, WalkInv, Contadas, Listadas
<1>4. Skip' = 0
  <2>1. PICK t \in Nat \ {0} : t = Take
    BY TakeType
  <2>2. (1 - 1) * t = 0
    OBVIOUS
  <2> QED
    BY <1>3, <2>1, <2>2 DEF Skip
<1>5. \A l \in Listadas : Rank(Listadas, Chave, l) \in Nat
  BY <1>2, RankType
<1>6. Cardinality({}) = 0
  BY FS_EmptySet
<1>7. MissedInv'
  <2>1. Missed(firmes', vistas', Listadas, Chave, 0) = {}
    <3> SUFFICES ASSUME NEW l \in Listadas PROVE ~(Rank(Listadas, Chave, l) < 0)
      BY <1>3 DEF Missed, Alone
    <3> QED
      BY <1>5
  <2>2. Missed(firmes, vistas, Listadas, Chave, Skip)' = {}
    BY <1>1, <1>4, <2>1 DEF Missed, Rank, Before
  <2> QED
    BY <1>3, <1>6, <2>2
       DEF MissedInv, MissedOnlyByDepartures, Lista!MissedOnlyByDepartures, Lista!Fim
<1>8. AgainInv'
  <2>1. Again(firmes, vistas, repetidas, Listadas, Chave, Skip)' = {}
    BY <1>3 DEF Again
  <2>2. (repetidas \cap firmes)' = {}
    BY <1>3
  <2> QED
    BY <1>3, <1>6, <2>1, <2>2, SameCardinality
       DEF AgainInv, RepeatedOnlyByArrivals, Lista!RepeatedOnlyByArrivals
<1>9. Cardinality(Listadas) \in Nat
  BY <1>2, FS_CardinalityType DEF Keys
<1>10. CountInv'
  <2>1. (vistas \cup Listadas)' = Listadas
    BY <1>1, <1>3
  <2>2. ToSee(vistas, Listadas, Chave, Skip)' = Listadas
    <3>1. \A l \in Listadas : Rank(Listadas, Chave, l) >= 0
      BY <1>5
    <3>2. ToSee({}, Listadas, Chave, 0) = Listadas
      BY <3>1 DEF ToSee
    <3> QED
      BY <1>1, <1>3, <1>4, <3>2 DEF ToSee, Rank, Before
  <2> QED
    BY <1>3, <1>9, <2>1, <2>2 DEF CountInv, CountAccounts, Lista!CountAccounts, Lista!Fim
<1>11. WalkInv'
  <2>1. Alone(Listadas, Chave)' = Alone(Listadas, Chave)
    BY <1>1 DEF Alone
  <2>2. /\ page' \in Nat /\ page' # 0
        /\ total' \in Nat /\ entradas' \in Nat /\ saidas' \in Nat /\ vistas' \subseteq Cnpjs
    BY <1>3, <1>9
  <2>3. /\ empatou' \in BOOLEAN
        /\ ~empatou' => Alone(Listadas, Chave)' = Listadas'
        /\ firmes' \subseteq Alone(Listadas, Chave)'
    BY <1>1, <1>3, <2>1, Zenon
  <2> QED
    BY <2>2, <2>3, Zenon DEF WalkInv
<1> QED
  BY <1>7, <1>8, <1>10, <1>11

-------------------------------------------------------------------------------
(* The invariants and what follows from them.                              *)

\* The invariant of the restaurants with the walk through them.
CatalogoInv == IInv /\ WalkInv /\ MissedInv /\ AgainInv /\ CountInv

\* It holds at the start,
LEMMA CatalogoStart == CatalogoInit => CatalogoInv
<1> SUFFICES ASSUME CatalogoInit PROVE CatalogoInv
  OBVIOUS
<1>1. IInv
  BY InitInv DEF CatalogoInit
<1>2. /\ page = 0 /\ total = 0 /\ vistas = {} /\ repetidas = {} /\ firmes = {}
      /\ entradas = 0 /\ saidas = 0 /\ empatou = FALSE
  BY DEF CatalogoInit, Lista!Init
<1>3. RepeatedOnlyByArrivals
  <2>1. repetidas \cap firmes = {} /\ Cardinality({}) = 0
    BY <1>2, FS_EmptySet
  <2> QED
    BY <1>2, <2>1, SameCardinality DEF RepeatedOnlyByArrivals, Lista!RepeatedOnlyByArrivals
<1>4. WalkInv
  <2>1. ~(page > 0) /\ page \in Nat /\ total \in Nat /\ entradas \in Nat /\ saidas \in Nat
    BY <1>2
  <2>2. empatou \in BOOLEAN /\ vistas \subseteq Cnpjs
    BY <1>2
  <2> QED
    BY <1>2, <2>1, <2>2, Zenon DEF WalkInv
<1> QED
  BY <1>1, <1>2, <1>3, <1>4
     DEF CatalogoInv, MissedInv, AgainInv, CountInv, MissedOnlyByDepartures, CountAccounts,
         Lista!MissedOnlyByDepartures, Lista!CountAccounts, Lista!Fim

\* Before the count and after the last page nothing is at stake.
LEMMA Idle ==
  ASSUME CatalogoInv, ~(page > 0), UNCHANGED Lista!walk
  PROVE  WalkInv' /\ MissedInv' /\ AgainInv' /\ CountInv'
<1>1. UNCHANGED <<page, total, vistas, repetidas, firmes, entradas, saidas, empatou>>
  BY DEF Lista!walk
<1>2. WalkInv'
  BY <1>1 DEF CatalogoInv, WalkInv
<1>3. MissedInv'
  BY <1>1 DEF CatalogoInv, MissedInv, MissedOnlyByDepartures, Lista!MissedOnlyByDepartures
<1>4. AgainInv'
  BY <1>1 DEF CatalogoInv, AgainInv, RepeatedOnlyByArrivals, Lista!RepeatedOnlyByArrivals
<1>5. CountInv'
  BY <1>1 DEF CatalogoInv, CountInv, CountAccounts, Lista!CountAccounts
<1> QED
  BY <1>2, <1>3, <1>4, <1>5

\* and every step keeps it.
LEMMA CatalogoStep ==
  CatalogoInv /\ [CatalogoNext]_<<vars, Lista!walk>> => CatalogoInv'
<1> SUFFICES ASSUME CatalogoInv, [CatalogoNext]_<<vars, Lista!walk>> PROVE CatalogoInv'
  OBVIOUS
<1>1. IInv'
  <2>1. [Next]_vars
    BY DEF CatalogoNext, Escreve, Percorre
  <2> QED
    BY <2>1, StepInv DEF CatalogoInv
<1>2. TypeOK /\ TypeOK'
  BY <1>1 DEF CatalogoInv, IInv
<1>3. CASE Escreve
  <2>1. CASE page > 0
    <3>1. MissedInv' /\ AgainInv' /\ CountInv'
      BY <1>2, <1>3, <2>1, MissedObserved, AgainObserved, CountObserved DEF CatalogoInv
    <3>2. WalkInv'
      <4>1. /\ UNCHANGED <<page, total, vistas, repetidas>>
            /\ entradas' = entradas + Cardinality(Gone(Listadas', Listadas, Chave', Chave))
            /\ saidas' = saidas + Cardinality(Gone(Listadas, Listadas', Chave, Chave'))
            /\ firmes' \subseteq Alone(Listadas, Chave)'
            /\ empatou' \in BOOLEAN
            /\ ~empatou' => Alone(Listadas, Chave)' = Listadas'
        BY <1>3, <2>1, Observed DEF CatalogoInv
      <4>2. /\ Cardinality(Gone(Listadas', Listadas, Chave', Chave)) \in Nat
            /\ Cardinality(Gone(Listadas, Listadas', Chave, Chave')) \in Nat
        BY <1>2, KeysListed, KeysNext, GoneFinite DEF Keys
      <4>3. entradas' \in Nat /\ saidas' \in Nat
        BY <4>1, <4>2 DEF CatalogoInv, WalkInv
      <4> QED
        BY <2>1, <4>1, <4>3 DEF CatalogoInv, WalkInv
    <3> QED
      BY <1>1, <3>1, <3>2 DEF CatalogoInv
  <2>2. CASE ~(page > 0)
    <3>1. UNCHANGED Lista!walk
      BY <1>3, <2>2 DEF Escreve, Lista!Observa
    <3> QED
      BY <1>1, <2>2, <3>1, Idle DEF CatalogoInv
  <2> QED
    BY <2>1, <2>2
<1>4. CASE Lista!Contar /\ UNCHANGED vars
  BY <1>1, <1>2, <1>4, Counted DEF CatalogoInv
<1>5. CASE Lista!Listar /\ UNCHANGED vars
  <2>1. PICK G : Paged(G)
    BY <1>2, <1>5, Pages DEF CatalogoInv
  <2>2. MissedInv' /\ AgainInv' /\ CountInv'
    BY <1>2, <2>1, MissedPaged, AgainPaged, CountPaged DEF CatalogoInv
  <2>3. WalkInv'
    <3>1. /\ vistas' \subseteq Cnpjs
          /\ page' \in Nat \cup {Lista!Fim} /\ page' # 0
      BY <1>2, <2>1, KeysListed DEF CatalogoInv, WalkInv, Paged, Lista!Fim
    <3>2. Alone(Listadas, Chave)' = Alone(Listadas, Chave)
      BY <2>1 DEF Paged, Alone
    <3> QED
      BY <2>1, <3>1, <3>2 DEF CatalogoInv, WalkInv, Paged
  <2> QED
    BY <1>1, <2>2, <2>3 DEF CatalogoInv
<1>6. CASE UNCHANGED <<vars, Lista!walk>>
  <2>1. CASE page > 0
    <3>1. /\ Listadas' = Listadas /\ Chave' = Chave
          /\ UNCHANGED <<page, total, vistas, repetidas, firmes, entradas, saidas, empatou>>
      BY <1>6, SameTable DEF Lista!walk
    <3>2. Skip' = Skip
      BY <3>1 DEF Skip
    <3>3. WalkInv'
      <4>1. Alone(Listadas, Chave)' = Alone(Listadas, Chave)
        BY <3>1 DEF Alone
      <4> QED
        BY <3>1, <4>1 DEF CatalogoInv, WalkInv
    <3>4. MissedInv'
      <4>1. Missed(firmes, vistas, Listadas, Chave, Skip)'
              = Missed(firmes, vistas, Listadas, Chave, Skip)
        BY <3>1, <3>2 DEF Missed, Rank, Before
      <4> QED
        BY <3>1, <4>1
           DEF CatalogoInv, MissedInv, MissedOnlyByDepartures, Lista!MissedOnlyByDepartures
    <3>5. AgainInv'
      <4>1. Again(firmes, vistas, repetidas, Listadas, Chave, Skip)'
              = Again(firmes, vistas, repetidas, Listadas, Chave, Skip)
        BY <3>1, <3>2 DEF Again, Rank, Before
      <4> QED
        BY <3>1, <4>1
           DEF CatalogoInv, AgainInv, RepeatedOnlyByArrivals, Lista!RepeatedOnlyByArrivals
    <3>6. CountInv'
      <4>1. ToSee(vistas, Listadas, Chave, Skip)' = ToSee(vistas, Listadas, Chave, Skip)
        BY <3>1, <3>2 DEF ToSee, Rank, Before
      <4>2. (vistas \cup Listadas)' = vistas \cup Listadas
        BY <3>1
      <4> QED
        BY <3>1, <4>1, <4>2 DEF CatalogoInv, CountInv, CountAccounts, Lista!CountAccounts
    <3> QED
      BY <1>1, <3>3, <3>4, <3>5, <3>6 DEF CatalogoInv
  <2>2. CASE ~(page > 0)
    BY <1>1, <1>6, <2>2, Idle DEF CatalogoInv
  <2> QED
    BY <2>1, <2>2
<1> QED
  BY <1>3, <1>4, <1>5, <1>6 DEF CatalogoNext, Percorre

\* Restaurants whose listing is walked through are restaurants: what
\* RestaurantesProofs proves of Spec holds with a client reading pages.
THEOREM StillRestaurantes == CatalogoSpec => Spec
<1>1. [CatalogoNext]_<<vars, Lista!walk>> => [Next]_vars
  BY DEF CatalogoNext, Escreve, Percorre
<1> QED
  BY <1>1, PTL DEF CatalogoSpec, CatalogoInit, Spec

\* The walk and the table are always in a state CatalogoInv describes.
THEOREM CatalogoInvariance == CatalogoSpec => []CatalogoInv
BY CatalogoStart, CatalogoStep, PTL DEF CatalogoSpec

\* A restaurant that stays listed under a name of its own is missed only if
\* another one went away or was renamed, one for each
\* (RestaurantesRepositoryImpl.findAll): Catalogo!MissedOnlyByDepartures.
THEOREM DeparturesExplainMisses == CatalogoSpec => []MissedOnlyByDepartures
<1>1. CatalogoInv => MissedOnlyByDepartures
  BY DEF CatalogoInv, MissedInv
<1> QED
  BY <1>1, CatalogoInvariance, PTL

\* It is given twice only if another one came or was renamed, one for each
\* (RestaurantesRepositoryImpl.findAll): Catalogo!RepeatedOnlyByArrivals.
THEOREM ArrivalsExplainRepeats == CatalogoSpec => []RepeatedOnlyByArrivals
<1>1. CatalogoInv => RepeatedOnlyByArrivals
  BY DEF CatalogoInv, AgainInv
<1> QED
  BY <1>1, CatalogoInvariance, PTL

\* What the client is given differs from the count it was given first by no more
\* than the restaurants that came and went, unless two had the same name
\* (count and findAll of RestaurantesRepositoryImpl): Catalogo!CountAccounts.
THEOREM CountExplained == CatalogoSpec => []CountAccounts
<1>1. CatalogoInv => CountAccounts
  BY DEF CatalogoInv, CountInv
<1> QED
  BY <1>1, CatalogoInvariance, PTL
===============================================================================
