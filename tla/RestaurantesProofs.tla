-------------------------- MODULE RestaurantesProofs --------------------------
(***************************************************************************)
(* Proofs about Restaurantes, for any restaurants, times and requests.     *)
(*                                                                         *)
(* HoursOrderedUnlessCrossed is not inductive.  Between the read and the   *)
(* write of a PATCH the row may change; CheckedPair says what is left of   *)
(* the check when the write comes: the pair is still ordered, or another   *)
(* accepted PATCH wrote the time this one took from the row.               *)
(***************************************************************************)
EXTENDS Restaurantes, TLAPS

Ordered(a, b) == compararHorarios(a, b) < 0

\* Where a request stands tells whether its row exists.
RequestInv ==
  \A r \in Requests :
    /\ pc[r] \in {"update", "delete"} => target[r] \in Cnpjs /\ rows[target[r]] # None
    /\ answer[r] \in {200, 201} => target[r] \in Cnpjs /\ rows[target[r]] # None
    /\ pc[r] # "done" => answer[r] = 0

\* A PATCH about column f of row c was accepted.
Wrote(c, f) == \E q \in Requests : Updated(q) /\ target[q] = c /\ patch[q][f] # None

Checked(p, c) ==
  /\ p.abertura # None /\ p.fechamento # None => Ordered(p.abertura, p.fechamento)
  /\ p.abertura # None /\ p.fechamento = None
       => Ordered(p.abertura, rows[c].fechamento) \/ Wrote(c, "fechamento")
  /\ p.abertura = None /\ p.fechamento # None
       => Ordered(rows[c].abertura, p.fechamento) \/ Wrote(c, "abertura")

CheckedPair == \A r \in Requests : pc[r] = "update" => Checked(patch[r], target[r])

IInv ==
  /\ TypeOK
  /\ RequestInv
  /\ CheckedPair
  /\ OneRegistration
  /\ NoLostPatch
  /\ HoursOrderedUnlessCrossed

LEMMA InitInv == Init => IInv
BY Rows0Assumption
   DEF Init, IInv, TypeOK, NoPatch, Patch, RequestInv, CheckedPair, OneRegistration,
       NoLostPatch, HoursOrderedUnlessCrossed, Updated

\* What an accepted PATCH did stays done: its answer, target and patch are
\* final in every step.
LEMMA UpdatedStays ==
  ASSUME TypeOK, [Next]_vars, NEW r \in Requests, Updated(r)
  PROVE  Updated(r)' /\ target'[r] = target[r] /\ patch'[r] = patch[r]
<1> USE DEF TypeOK, Updated, Answer, Send
<1>1. CASE UNCHANGED vars
  BY <1>1 DEF vars
<1>2. ASSUME NEW q \in Requests,
             \/ CriarInvalido(q) \/ AtualizarWrite(q) \/ DeletarWrite(q) \/ WriteFails(q)
             \/ \E c \in Cnpjs : DeletarFind(q, c)
      PROVE  Updated(r)' /\ target'[r] = target[r] /\ patch'[r] = patch[r]
  BY <1>2 DEF CriarInvalido, AtualizarWrite, DeletarWrite, WriteFails, DeletarFind
<1>3. ASSUME NEW q \in Requests, NEW c \in Cnpjs, NEW n \in Nomes,
             NEW a \in Horas, NEW f \in Horas, Criar(q, c, n, a, f)
      PROVE  Updated(r)' /\ target'[r] = target[r] /\ patch'[r] = patch[r]
  BY <1>3 DEF Criar
<1>4. ASSUME NEW q \in Requests, NEW c \in Cnpjs, NEW p \in Patches, AtualizarFind(q, c, p)
      PROVE  Updated(r)' /\ target'[r] = target[r] /\ patch'[r] = patch[r]
  BY <1>4 DEF AtualizarFind
<1> QED
  BY <1>1, <1>2, <1>3, <1>4 DEF Next

LEMMA MakeRow ==
  ASSUME NEW n \in Nomes, NEW a \in Horas, NEW f \in Horas, NEW v \in BOOLEAN, NEW d \in BOOLEAN
  PROVE  [nome |-> n, abertura |-> a, fechamento |-> f, ativo |-> v, deleted |-> d] \in Row
BY DEF Row

\* Changing one column of a row leaves the four others alone.
LEMMA SetColumn ==
  ASSUME NEW n, NEW a, NEW f, NEW v, NEW d, NEW x,
         NEW row, row = [nome |-> n, abertura |-> a, fechamento |-> f, ativo |-> v, deleted |-> d]
  PROVE  /\ [row EXCEPT !.nome = x]
              = [nome |-> x, abertura |-> a, fechamento |-> f, ativo |-> v, deleted |-> d]
         /\ [row EXCEPT !.abertura = x]
              = [nome |-> n, abertura |-> x, fechamento |-> f, ativo |-> v, deleted |-> d]
         /\ [row EXCEPT !.fechamento = x]
              = [nome |-> n, abertura |-> a, fechamento |-> x, ativo |-> v, deleted |-> d]
         /\ [row EXCEPT !.ativo = x]
              = [nome |-> n, abertura |-> a, fechamento |-> f, ativo |-> x, deleted |-> d]
         /\ [row EXCEPT !.deleted = x]
              = [nome |-> n, abertura |-> a, fechamento |-> f, ativo |-> v, deleted |-> x]
OBVIOUS

LEMMA PatchedRow ==
  ASSUME NEW row \in Row, NEW p \in Patch
  PROVE  /\ Patched(row, p) \in Row
         /\ Patched(row, p) = [nome |-> Merged(p.nome, row.nome),
                               abertura |-> Merged(p.abertura, row.abertura),
                               fechamento |-> Merged(p.fechamento, row.fechamento),
                               ativo |-> Merged(p.ativo, row.ativo),
                               deleted |-> row.deleted]
<1>1. /\ Merged(p.nome, row.nome) \in Nomes
      /\ Merged(p.abertura, row.abertura) \in Horas
      /\ Merged(p.fechamento, row.fechamento) \in Horas
      /\ Merged(p.ativo, row.ativo) \in BOOLEAN
  <2>7. Merged(p.nome, row.nome) \in Nomes
    BY DEF Patch, Row, Merged
  <2>1. p.abertura \in Horas \cup {None} /\ p.fechamento \in Horas \cup {None}
    BY SMT DEF Patch
  <2>2. p.ativo \in BOOLEAN \cup {None}
    BY Zenon DEF Patch
  <2>3. row.abertura \in Horas /\ row.fechamento \in Horas
    BY DEF Row
  <2>4. row.ativo \in BOOLEAN
    BY DEF Row
  <2>5. Merged(p.abertura, row.abertura) \in Horas /\ Merged(p.fechamento, row.fechamento) \in Horas
    BY <2>1, <2>3 DEF Merged
  <2>6. Merged(p.ativo, row.ativo) \in BOOLEAN
    BY <2>2, <2>4, Zenon DEF Merged
  <2> QED
    BY <2>5, <2>6, <2>7
<1>2. Patched(row, p) = [nome |-> Merged(p.nome, row.nome),
                               abertura |-> Merged(p.abertura, row.abertura),
                         fechamento |-> Merged(p.fechamento, row.fechamento),
                         ativo |-> Merged(p.ativo, row.ativo),
                         deleted |-> row.deleted]
  <2> DEFINE n == Merged(p.nome, row.nome)
             a == Merged(p.abertura, row.abertura)
             f == Merged(p.fechamento, row.fechamento)
             v == Merged(p.ativo, row.ativo)
             one == [row EXCEPT !.nome = n]
             two == [one EXCEPT !.abertura = a]
             three == [two EXCEPT !.fechamento = f]
  <2>1. one = [nome |-> n, abertura |-> row.abertura, fechamento |-> row.fechamento,
               ativo |-> row.ativo, deleted |-> row.deleted]
    BY DEF Row
  <2> HIDE DEF one
  <2>2. two = [nome |-> n, abertura |-> a, fechamento |-> row.fechamento,
               ativo |-> row.ativo, deleted |-> row.deleted]
    BY <2>1, SetColumn
  <2> HIDE DEF two
  <2>3. three = [nome |-> n, abertura |-> a, fechamento |-> f,
                 ativo |-> row.ativo, deleted |-> row.deleted]
    BY <2>2, SetColumn
  <2> HIDE DEF three
  <2>4. [three EXCEPT !.ativo = v]
          = [nome |-> n, abertura |-> a, fechamento |-> f, ativo |-> v, deleted |-> row.deleted]
    BY <2>3, SetColumn
  <2>5. Patched(row, p) = [three EXCEPT !.ativo = v]
    BY <2>1, <2>2, <2>3 DEF Patched, one, two, three
  <2> QED
    BY <2>4, <2>5
<1>3. row.deleted \in BOOLEAN
  BY DEF Row
<1> QED
  BY <1>1, <1>2, <1>3, MakeRow

LEMMA DeletedRow ==
  ASSUME NEW row \in Row
  PROVE  [row EXCEPT !.deleted = TRUE] \in Row
BY DEF Row

LEMMA TypeStep == IInv /\ [Next]_vars => TypeOK'
<1> SUFFICES ASSUME IInv, [Next]_vars PROVE TypeOK'
  OBVIOUS
<1> USE DEF IInv, TypeOK, Answer, Send
<1>1. ASSUME NEW r \in Requests, CriarInvalido(r) \/ WriteFails(r) PROVE TypeOK'
  BY <1>1 DEF CriarInvalido, WriteFails
<1>2. ASSUME NEW r \in Requests, NEW c \in Cnpjs, NEW n \in Nomes,
             NEW a \in Horas, NEW f \in Horas, Criar(r, c, n, a, f)
      PROVE TypeOK'
  <2>1. PICK row \in Row :
          row = [nome |-> n, abertura |-> a, fechamento |-> f, ativo |-> TRUE, deleted |-> FALSE]
    BY MakeRow
  <2>2. rows' = rows \/ rows' = [rows EXCEPT ![c] = row]
    BY <1>2, <2>1, Zenon DEF Criar
  <2>3. /\ rows' \in [Cnpjs -> Row \cup {None}]
        /\ patch' \in [Requests -> Patch]
        /\ stale' \subseteq Requests
    BY <1>2, <2>2 DEF Criar
  <2>4. pc' \in [Requests -> {"idle", "update", "delete", "done"}]
    BY <1>2 DEF Criar
  <2>5. target' \in [Requests -> Cnpjs \cup {None}]
    BY <1>2 DEF Criar
  <2>6. answer' \in [Requests -> {0, 200, 201, 204, 400, 404, 409, 500}]
    BY <1>2 DEF Criar
  <2> QED
    BY <2>3, <2>4, <2>5, <2>6
<1>3. ASSUME NEW r \in Requests, NEW c \in Cnpjs, NEW p \in Patches, AtualizarFind(r, c, p)
      PROVE TypeOK'
  BY <1>3, PatchesAssumption DEF AtualizarFind
<1>4. ASSUME NEW r \in Requests, NEW c \in Cnpjs, DeletarFind(r, c) PROVE TypeOK'
  BY <1>4 DEF DeletarFind
<1>5. ASSUME NEW r \in Requests, AtualizarWrite(r) PROVE TypeOK'
  <2>1. target[r] \in Cnpjs /\ rows[target[r]] \in Row /\ patch[r] \in Patch
    BY <1>5 DEF AtualizarWrite, RequestInv
  <2>2. Patched(rows[target[r]], patch[r]) \in Row
    BY <2>1, PatchedRow
  <2> QED
    BY <1>5, <2>1, <2>2 DEF AtualizarWrite
<1>6. ASSUME NEW r \in Requests, DeletarWrite(r) PROVE TypeOK'
  <2>1. target[r] \in Cnpjs /\ rows[target[r]] \in Row
    BY <1>6 DEF DeletarWrite, RequestInv
  <2>2. [rows[target[r]] EXCEPT !.deleted = TRUE] \in Row
    BY <2>1, DeletedRow
  <2> QED
    BY <1>6, <2>1, <2>2 DEF DeletarWrite
<1>7. CASE UNCHANGED vars
  BY <1>7 DEF vars
<1> QED
  BY <1>1, <1>2, <1>3, <1>4, <1>5, <1>6, <1>7 DEF Next

\* What a step may do to a row: insert it, delete it, or apply the PATCH of a
\* request that is about it.
LEMMA RowStep ==
  ASSUME IInv, [Next]_vars, NEW c \in Cnpjs
  PROVE  \/ rows'[c] = rows[c]
         \/ /\ rows[c] = None /\ rows'[c] \in Row
            /\ Ordered(rows'[c].abertura, rows'[c].fechamento)
         \/ /\ rows[c] # None
            /\ \E old \in Row : /\ rows[c] = old
                                /\ rows'[c] = [old EXCEPT !.deleted = TRUE]
         \/ /\ rows[c] # None
            /\ \E r \in Requests :
                 /\ AtualizarWrite(r) /\ target[r] = c
                 /\ rows'[c] = Patched(rows[c], patch[r])
<1> USE DEF IInv, TypeOK, RequestInv
<1>1. ASSUME NEW r \in Requests, NEW d \in Cnpjs, NEW n \in Nomes,
             NEW a \in Horas, NEW f \in Horas, Criar(r, d, n, a, f),
             rows'[c] # rows[c]
      PROVE  /\ rows[c] = None /\ rows'[c] \in Row
             /\ Ordered(rows'[c].abertura, rows'[c].fechamento)
  <2>1. PICK row \in Row :
          row = [nome |-> n, abertura |-> a, fechamento |-> f, ativo |-> TRUE, deleted |-> FALSE]
    BY MakeRow
  <2>2. rows' = [rows EXCEPT ![d] = row] /\ rows[d] = None
    BY <1>1, <2>1, Zenon DEF Criar, Registered
  <2>3. c = d /\ rows'[c] = row
    BY <1>1, <2>2
  <2>4. Ordered(row.abertura, row.fechamento)
    BY <1>1, <2>1 DEF Criar, Ordered
  <2> QED
    BY <2>2, <2>3, <2>4
<1>2. ASSUME NEW r \in Requests, AtualizarWrite(r), rows'[c] # rows[c]
      PROVE  rows[c] # None /\ target[r] = c /\ rows'[c] = Patched(rows[c], patch[r])
  <2>1. PICK row : row = Patched(rows[target[r]], patch[r])
    OBVIOUS
  <2>2. rows' = [rows EXCEPT ![target[r]] = row] /\ target[r] \in Cnpjs /\ rows[target[r]] # None
    BY <1>2, <2>1 DEF AtualizarWrite
  <2> QED
    BY <1>2, <2>1, <2>2
<1>3. ASSUME NEW r \in Requests, DeletarWrite(r), rows'[c] # rows[c]
      PROVE  /\ rows[c] # None
             /\ \E old \in Row : rows[c] = old /\ rows'[c] = [old EXCEPT !.deleted = TRUE]
  <2>1. target[r] \in Cnpjs /\ rows[target[r]] # None /\ rows[target[r]] \in Row
    BY <1>3 DEF DeletarWrite
  <2>2. PICK row : row = [rows[target[r]] EXCEPT !.deleted = TRUE]
    OBVIOUS
  <2>3. rows' = [rows EXCEPT ![target[r]] = row]
    BY <1>3, <2>2, Zenon DEF DeletarWrite
  <2>4. c = target[r] /\ rows'[c] = row
    BY <1>3, <2>1, <2>3
  <2> QED
    BY <2>1, <2>2, <2>4
<1>4. ASSUME NEW r \in Requests,
             \/ CriarInvalido(r) \/ WriteFails(r)
             \/ \E d \in Cnpjs : DeletarFind(r, d) \/ \E p \in Patches : AtualizarFind(r, d, p)
      PROVE  rows' = rows
  BY <1>4, Zenon DEF CriarInvalido, WriteFails, DeletarFind, AtualizarFind
<1> QED
  BY <1>1, <1>2, <1>3, <1>4, Zenon DEF Next, vars

LEMMA RequestStep == IInv /\ [Next]_vars => RequestInv'
<1> SUFFICES ASSUME IInv, [Next]_vars PROVE RequestInv'
  OBVIOUS
<1> USE RowAssumption DEF IInv, TypeOK, RequestInv, Answer, Send
<1>1. \A c \in Cnpjs : rows[c] # None => rows'[c] # None
  <2> SUFFICES ASSUME NEW c \in Cnpjs, rows[c] # None PROVE rows'[c] # None
    OBVIOUS
  <2>1. rows[c] \in Row
    OBVIOUS
  <2>2. ASSUME NEW r \in Requests, AtualizarWrite(r) PROVE Patched(rows[c], patch[r]) \in Row
    BY <2>1, PatchedRow
  <2>3. ASSUME NEW old \in Row PROVE [old EXCEPT !.deleted = TRUE] \in Row
    BY DeletedRow
  <2>4. None \notin Row
    OBVIOUS
  <2> HIDE DEF IInv, TypeOK, RequestInv
  <2>5. rows'[c] \in Row
    BY <2>1, <2>2, <2>3, RowStep
  <2> QED
    BY <2>4, <2>5
<1>2. ASSUME NEW r \in Requests, NEW c \in Cnpjs, NEW n \in Nomes,
             NEW a \in Horas, NEW f \in Horas, Criar(r, c, n, a, f)
      PROVE  RequestInv'
  <2>1. PICK row \in Row :
          row = [nome |-> n, abertura |-> a, fechamento |-> f, ativo |-> TRUE, deleted |-> FALSE]
    BY MakeRow
  <2>2. CASE Registered(c)
    BY <1>2, <2>2 DEF Criar
  <2>3. CASE ~Registered(c)
    <3>1. rows' = [rows EXCEPT ![c] = row]
      BY <1>2, <2>1, <2>3, Zenon DEF Criar
    <3>2. /\ pc' = [pc EXCEPT ![r] = "done"] /\ pc[r] = "idle"
          /\ answer' = [answer EXCEPT ![r] = 201]
          /\ target' = [target EXCEPT ![r] = c]
      BY <1>2, <2>3, Zenon DEF Criar
    <3> QED
      BY <3>1, <3>2
  <2> QED
    BY <2>2, <2>3
<1>3. ASSUME NEW r \in Requests, NEW c \in Cnpjs, NEW p \in Patches, AtualizarFind(r, c, p)
      PROVE  RequestInv'
  BY <1>3 DEF AtualizarFind, Visible
<1>4. ASSUME NEW r \in Requests, NEW c \in Cnpjs, DeletarFind(r, c)
      PROVE  RequestInv'
  BY <1>4 DEF DeletarFind, Visible
<1>5. ASSUME NEW r \in Requests,
             CriarInvalido(r) \/ AtualizarWrite(r) \/ DeletarWrite(r) \/ WriteFails(r)
      PROVE  RequestInv'
  BY <1>1, <1>5 DEF CriarInvalido, AtualizarWrite, DeletarWrite, WriteFails
<1>6. CASE UNCHANGED vars
  BY <1>6 DEF vars
<1> QED
  BY <1>2, <1>3, <1>4, <1>5, <1>6 DEF Next

LEMMA RegistrationStep == IInv /\ [Next]_vars => OneRegistration'
<1> SUFFICES ASSUME IInv, [Next]_vars PROVE OneRegistration'
  OBVIOUS
<1> USE DEF IInv, TypeOK, RequestInv, OneRegistration, Answer, Send
<1>1. ASSUME NEW r \in Requests, NEW c \in Cnpjs, NEW n \in Nomes,
             NEW a \in Horas, NEW f \in Horas, Criar(r, c, n, a, f)
      PROVE  OneRegistration'
  <2>1. pc[r] = "idle" /\ target' = [target EXCEPT ![r] = c]
    BY <1>1 DEF Criar
  <2>2. CASE rows[c] # None
    <3>1. answer' = [answer EXCEPT ![r] = 409]
      BY <1>1, <2>2, Zenon DEF Criar, Registered
    <3> QED
      BY <2>1, <3>1
  <2>3. CASE rows[c] = None
    <3>1. answer' = [answer EXCEPT ![r] = 201]
      BY <1>1, <2>3, Zenon DEF Criar, Registered
    <3> QED
      BY <2>1, <2>3, <3>1
  <2> QED
    BY <2>2, <2>3
<1>2. ASSUME NEW r \in Requests, NEW c \in Cnpjs, NEW p \in Patches, AtualizarFind(r, c, p)
      PROVE  OneRegistration'
  BY <1>2 DEF AtualizarFind
<1>3. ASSUME NEW r \in Requests, NEW c \in Cnpjs, DeletarFind(r, c)
      PROVE  OneRegistration'
  BY <1>3 DEF DeletarFind
<1>4. ASSUME NEW r \in Requests,
             CriarInvalido(r) \/ AtualizarWrite(r) \/ DeletarWrite(r) \/ WriteFails(r)
      PROVE  OneRegistration'
  BY <1>4 DEF CriarInvalido, AtualizarWrite, DeletarWrite, WriteFails
<1>5. CASE UNCHANGED vars
  BY <1>5 DEF vars
<1> QED
  BY <1>1, <1>2, <1>3, <1>4, <1>5 DEF Next

\* A request becomes "updated" by its own UPDATE and by nothing else.
LEMMA NewlyUpdated ==
  ASSUME IInv, [Next]_vars, NEW r \in Requests, ~Updated(r), Updated(r)'
  PROVE  AtualizarWrite(r)
<1> USE DEF IInv, TypeOK, Updated, Answer, Send
<1>1. ASSUME NEW q \in Requests, AtualizarWrite(q) PROVE q = r
  BY <1>1 DEF AtualizarWrite
<1>2. ASSUME NEW q \in Requests,
             \/ CriarInvalido(q) \/ DeletarWrite(q) \/ WriteFails(q)
             \/ \E c \in Cnpjs : DeletarFind(q, c) \/ \E p \in Patches : AtualizarFind(q, c, p)
      PROVE  FALSE
  BY <1>2 DEF CriarInvalido, DeletarWrite, WriteFails, DeletarFind, AtualizarFind
<1>3. ASSUME NEW q \in Requests, NEW c \in Cnpjs, NEW n \in Nomes,
             NEW a \in Horas, NEW f \in Horas, Criar(q, c, n, a, f)
      PROVE  FALSE
  <2>1. pc' = [pc EXCEPT ![q] = "done"] /\ \E s \in {201, 409} : answer' = [answer EXCEPT ![q] = s]
    BY <1>3 DEF Criar
  <2> QED
    BY <2>1
<1> QED
  BY <1>1, <1>2, <1>3 DEF Next, vars

\* An UPDATE is prepared by the read that checked it, and then left alone.
LEMMA Pending ==
  ASSUME IInv, [Next]_vars, NEW r \in Requests, pc'[r] = "update"
  PROVE  \/ pc[r] = "update" /\ patch'[r] = patch[r] /\ target'[r] = target[r]
         \/ /\ target'[r] \in Cnpjs /\ rows' = rows /\ rows[target'[r]] # None
            /\ PairAccepted(patch'[r], rows[target'[r]])
<1> USE DEF IInv, TypeOK, Answer, Send
<1>1. ASSUME NEW q \in Requests, NEW c \in Cnpjs, NEW p \in Patches, AtualizarFind(q, c, p)
      PROVE  \/ pc[r] = "update" /\ patch'[r] = patch[r] /\ target'[r] = target[r]
             \/ /\ target'[r] \in Cnpjs /\ rows' = rows /\ rows[target'[r]] # None
                /\ PairAccepted(patch'[r], rows[target'[r]])
  BY <1>1 DEF AtualizarFind, Visible
<1>2. ASSUME NEW q \in Requests,
             \/ CriarInvalido(q) \/ AtualizarWrite(q) \/ DeletarWrite(q) \/ WriteFails(q)
             \/ \E c \in Cnpjs : DeletarFind(q, c)
      PROVE  pc[r] = "update" /\ patch'[r] = patch[r] /\ target'[r] = target[r]
  BY <1>2 DEF CriarInvalido, AtualizarWrite, DeletarWrite, WriteFails, DeletarFind
<1>3. ASSUME NEW q \in Requests, NEW c \in Cnpjs, NEW n \in Nomes,
             NEW a \in Horas, NEW f \in Horas, Criar(q, c, n, a, f)
      PROVE  pc[r] = "update" /\ patch'[r] = patch[r] /\ target'[r] = target[r]
  BY <1>3 DEF Criar
<1> QED
  BY <1>1, <1>2, <1>3 DEF Next, vars

LEMMA WroteStays ==
  ASSUME IInv, [Next]_vars, NEW c, NEW f, Wrote(c, f)
  PROVE  Wrote(c, f)'
BY UpdatedStays DEF Wrote, IInv

LEMMA NoLostPatchStep == IInv /\ [Next]_vars => NoLostPatch'
<1> SUFFICES ASSUME IInv, [Next]_vars,
                    NEW r \in Requests, Updated(r)',
                    NEW f \in {"nome", "abertura", "fechamento", "ativo"}
             PROVE  \/ patch'[r][f] \in {None, rows'[target'[r]][f]}
                    \/ \E q \in Requests \ {r} :
                         Updated(q)' /\ target'[q] = target'[r] /\ patch'[q][f] # None
  BY DEF NoLostPatch
<1>1. CASE ~Updated(r)
  <2>1. AtualizarWrite(r)
    BY <1>1, NewlyUpdated
  <2>2. /\ target'[r] = target[r] /\ target[r] \in Cnpjs
        /\ patch'[r] = patch[r] /\ patch[r] \in Patch
        /\ rows[target[r]] \in Row
        /\ rows'[target[r]] = Patched(rows[target[r]], patch[r])
    BY <2>1 DEF AtualizarWrite, IInv, TypeOK, RequestInv
  <2>3. /\ Patched(rows[target[r]], patch[r]).nome = Merged(patch[r].nome, rows[target[r]].nome)
        /\ Patched(rows[target[r]], patch[r]).abertura = Merged(patch[r].abertura, rows[target[r]].abertura)
        /\ Patched(rows[target[r]], patch[r]).fechamento = Merged(patch[r].fechamento, rows[target[r]].fechamento)
        /\ Patched(rows[target[r]], patch[r]).ativo = Merged(patch[r].ativo, rows[target[r]].ativo)
    BY <2>2, PatchedRow
  <2>4. patch[r][f] = None \/ Patched(rows[target[r]], patch[r])[f] = patch[r][f]
    BY <2>3 DEF Merged
  <2> QED
    BY <2>2, <2>4
<1>2. CASE Updated(r)
  <2>1. target'[r] = target[r] /\ patch'[r] = patch[r]
    BY <1>2, UpdatedStays DEF IInv
  <2>2. target[r] \in Cnpjs /\ rows[target[r]] # None /\ rows[target[r]] \in Row
    BY <1>2 DEF Updated, IInv, RequestInv, TypeOK
  <2>3. CASE \E q \in Requests \ {r} : Updated(q) /\ target[q] = target[r] /\ patch[q][f] # None
    BY <2>1, <2>3, UpdatedStays DEF IInv
  <2>4. CASE patch[r][f] = None
    BY <2>1, <2>4
  <2>5. CASE patch[r][f] = rows[target[r]][f]
    <3>1. CASE rows'[target[r]] = rows[target[r]]
      BY <2>1, <2>5, <3>1
    <3>2. CASE rows'[target[r]] = [rows[target[r]] EXCEPT !.deleted = TRUE]
      <4>1. [rows[target[r]] EXCEPT !.deleted = TRUE][f] = rows[target[r]][f]
        BY <2>2 DEF Row
      <4> QED
        BY <2>1, <2>5, <3>2, <4>1
    <3>3. ASSUME NEW q \in Requests, AtualizarWrite(q), target[q] = target[r],
                 rows'[target[r]] = Patched(rows[target[r]], patch[q])
          PROVE  \/ patch[r][f] = rows'[target[r]][f]
                 \/ \E x \in Requests \ {r} :
                      Updated(x)' /\ target'[x] = target[r] /\ patch'[x][f] # None
      <4>1. q # r
        BY <1>2, <3>3 DEF AtualizarWrite, Updated
      <4>2. Updated(q)' /\ target'[q] = target[r] /\ patch'[q] = patch[q] /\ patch[q] \in Patch
        BY <3>3 DEF AtualizarWrite, Answer, Updated, IInv, TypeOK
      <4>3. CASE patch[q][f] # None
        BY <4>1, <4>2, <4>3
      <4>4. CASE patch[q][f] = None
        <5>1. rows'[target[r]][f] = rows[target[r]][f]
          BY <2>2, <3>3, <4>2, <4>4, PatchedRow DEF Merged
        <5> QED
          BY <2>5, <5>1
      <4> QED
        BY <4>3, <4>4
    <3> QED
      BY <2>1, <2>2, <3>1, <3>2, <3>3, RowStep
  <2> QED
    BY <1>2, <2>3, <2>4, <2>5 DEF IInv, NoLostPatch
<1> QED
  BY <1>1, <1>2

\* A row changes its times only by an accepted PATCH about the time that changes.
LEMMA TimesChange ==
  ASSUME IInv, [Next]_vars, NEW c \in Cnpjs, rows[c] # None
  PROVE  /\ rows'[c].abertura = rows[c].abertura \/ Wrote(c, "abertura")'
         /\ rows'[c].fechamento = rows[c].fechamento \/ Wrote(c, "fechamento")'
<1> USE DEF IInv, TypeOK
<1>1. rows[c] \in Row
  OBVIOUS
<1>2. ASSUME NEW r \in Requests, AtualizarWrite(r), target[r] = c,
             rows'[c] = Patched(rows[c], patch[r])
      PROVE  /\ rows'[c].abertura = rows[c].abertura \/ Wrote(c, "abertura")'
             /\ rows'[c].fechamento = rows[c].fechamento \/ Wrote(c, "fechamento")'
  <2>1. Updated(r)' /\ target'[r] = c /\ patch'[r] = patch[r] /\ patch[r] \in Patch
    BY <1>2 DEF AtualizarWrite, Answer, Updated
  <2>2. /\ rows'[c].abertura = Merged(patch[r].abertura, rows[c].abertura)
        /\ rows'[c].fechamento = Merged(patch[r].fechamento, rows[c].fechamento)
    BY <1>1, <1>2, <2>1, PatchedRow
  <2>3. patch[r].abertura # None => Wrote(c, "abertura")'
    BY <2>1 DEF Wrote
  <2>4. patch[r].fechamento # None => Wrote(c, "fechamento")'
    BY <2>1 DEF Wrote
  <2> QED
    BY <2>2, <2>3, <2>4 DEF Merged
<1>3. ASSUME rows'[c] = [rows[c] EXCEPT !.deleted = TRUE]
      PROVE  rows'[c].abertura = rows[c].abertura /\ rows'[c].fechamento = rows[c].fechamento
  BY <1>1, <1>3 DEF Row
<1> QED
  BY <1>1, <1>2, <1>3, RowStep

LEMMA CheckedStep == IInv /\ [Next]_vars => CheckedPair'
<1> SUFFICES ASSUME IInv, [Next]_vars, NEW r \in Requests, pc'[r] = "update"
             PROVE  Checked(patch[r], target[r])'
  BY DEF CheckedPair
<1>1. CASE pc[r] = "update" /\ patch'[r] = patch[r] /\ target'[r] = target[r]
  <2>1. PICK c \in Cnpjs : c = target[r] /\ rows[c] # None
    BY <1>1 DEF IInv, RequestInv
  <2>2. Checked(patch[r], c)
    BY <1>1, <2>1 DEF IInv, CheckedPair
  <2>3. /\ Wrote(c, "abertura") => Wrote(c, "abertura")'
        /\ Wrote(c, "fechamento") => Wrote(c, "fechamento")'
    BY WroteStays
  <2>4. Checked(patch[r], c)'
    BY <1>1, <2>1, <2>2, <2>3, TimesChange DEF Checked
  <2> QED
    BY <1>1, <2>1, <2>4 DEF Checked
<1>2. CASE /\ target'[r] \in Cnpjs /\ rows' = rows /\ rows[target'[r]] # None
           /\ PairAccepted(patch'[r], rows[target'[r]])
  BY <1>2 DEF PairAccepted, Merged, Ordered, Checked
<1> QED
  BY <1>1, <1>2, Pending

\* Two accepted PATCHes, one about each time of the row.
Crossed(c) ==
  \E q, r \in Requests :
    /\ q # r /\ Updated(q) /\ Updated(r) /\ target[q] = c /\ target[r] = c
    /\ patch[q].abertura # None /\ patch[r].fechamento # None

LEMMA HoursStep == IInv /\ [Next]_vars => HoursOrderedUnlessCrossed'
<1> SUFFICES ASSUME IInv, [Next]_vars, NEW c \in Cnpjs, rows'[c] # None
             PROVE  Ordered(rows'[c].abertura, rows'[c].fechamento) \/ Crossed(c)'
  BY DEF HoursOrderedUnlessCrossed, Ordered, Crossed
<1>1. Crossed(c) => Crossed(c)'
  BY UpdatedStays DEF Crossed, IInv
<1>2. rows[c] # None => Ordered(rows[c].abertura, rows[c].fechamento) \/ Crossed(c)
  BY DEF IInv, HoursOrderedUnlessCrossed, Ordered, Crossed
<1>3. rows[c] # None => rows[c] \in Row
  BY DEF IInv, TypeOK
<1>4. CASE rows'[c] = rows[c]
  BY <1>1, <1>2, <1>4
<1>5. ASSUME rows[c] # None, rows'[c] = [rows[c] EXCEPT !.deleted = TRUE]
      PROVE  Ordered(rows'[c].abertura, rows'[c].fechamento) \/ Crossed(c)'
  <2>1. rows'[c].abertura = rows[c].abertura /\ rows'[c].fechamento = rows[c].fechamento
    BY <1>3, <1>5 DEF Row
  <2> QED
    BY <1>1, <1>2, <1>5, <2>1
<1>6. ASSUME NEW r \in Requests, AtualizarWrite(r), target[r] = c, rows[c] # None,
             rows'[c] = Patched(rows[c], patch[r])
      PROVE  Ordered(rows'[c].abertura, rows'[c].fechamento) \/ Crossed(c)'
  <2>1. /\ patch[r] \in Patch /\ pc[r] = "update"
        /\ Updated(r)' /\ target'[r] = c /\ patch'[r] = patch[r]
    BY <1>6 DEF AtualizarWrite, Answer, Updated, IInv, TypeOK
  <2>2. /\ rows'[c].abertura = Merged(patch[r].abertura, rows[c].abertura)
        /\ rows'[c].fechamento = Merged(patch[r].fechamento, rows[c].fechamento)
    BY <1>3, <1>6, <2>1, PatchedRow
  <2>3. \A f : Wrote(c, f) => \E q \in Requests \ {r} :
                 Updated(q)' /\ target'[q] = c /\ patch'[q][f] # None
    BY <2>1, UpdatedStays DEF Wrote, Updated, IInv
  <2>4. CASE patch[r].abertura # None /\ patch[r].fechamento # None
    BY <2>1, <2>2, <2>4 DEF Merged, IInv, CheckedPair, Checked
  <2>5. CASE patch[r].abertura # None /\ patch[r].fechamento = None
    <3>1. Ordered(patch[r].abertura, rows[c].fechamento) \/ Wrote(c, "fechamento")
      BY <1>6, <2>1, <2>5 DEF IInv, CheckedPair, Checked
    <3>2. Wrote(c, "fechamento") => Crossed(c)'
      BY <2>1, <2>3, <2>5 DEF Crossed
    <3> QED
      BY <2>2, <2>5, <3>1, <3>2 DEF Merged
  <2>6. CASE patch[r].abertura = None /\ patch[r].fechamento # None
    <3>1. Ordered(rows[c].abertura, patch[r].fechamento) \/ Wrote(c, "abertura")
      BY <1>6, <2>1, <2>6 DEF IInv, CheckedPair, Checked
    <3>2. Wrote(c, "abertura") => Crossed(c)'
      BY <2>1, <2>3, <2>6 DEF Crossed
    <3> QED
      BY <2>2, <2>6, <3>1, <3>2 DEF Merged
  <2>7. CASE patch[r].abertura = None /\ patch[r].fechamento = None
    BY <1>1, <1>2, <1>6, <2>2, <2>7 DEF Merged
  <2> QED
    BY <2>4, <2>5, <2>6, <2>7
<1> QED
  BY <1>4, <1>5, <1>6, RowStep

LEMMA StepInv == IInv /\ [Next]_vars => IInv'
BY TypeStep, RequestStep, CheckedStep, RegistrationStep, NoLostPatchStep, HoursStep DEF IInv

THEOREM Invariance == Spec => []IInv
BY InitInv, StepInv, PTL DEF Spec

\* Every variable keeps its type: Restaurantes!TypeOK.
THEOREM TypeCorrect == Spec => []TypeOK
BY Invariance, PTL DEF IInv

\* No CNPJ is registered twice, whatever the number of requests:
\* Restaurantes!OneRegistration.
THEOREM RegisteredOnce == Spec => []OneRegistration
BY Invariance, PTL DEF IInv

\* An accepted PATCH is overwritten by accepted PATCHes only:
\* Restaurantes!NoLostPatch.
THEOREM PatchesKept == Spec => []NoLostPatch
BY Invariance, PTL DEF IInv

\* A restaurant that opens after it closes is the work of two PATCHes that
\* crossed: Restaurantes!HoursOrderedUnlessCrossed.
THEOREM HoursCross == Spec => []HoursOrderedUnlessCrossed
BY Invariance, PTL DEF IInv

LEMMA DeletedStays ==
  ASSUME IInv, [Next]_vars, NEW c \in Cnpjs, rows[c] # None, rows[c].deleted
  PROVE  rows'[c] # None /\ rows'[c].deleted
<1>1. rows[c] \in Row /\ None \notin Row
  BY RowAssumption DEF IInv, TypeOK
<1>2. ASSUME rows'[c] = [rows[c] EXCEPT !.deleted = TRUE]
      PROVE  rows'[c] # None /\ rows'[c].deleted
  <2>1. rows'[c] \in Row
    BY <1>1, <1>2, DeletedRow
  <2>2. rows'[c].deleted
    BY <1>1, <1>2 DEF Row
  <2> QED
    BY <1>1, <2>1, <2>2
<1>3. ASSUME NEW r \in Requests, rows'[c] = Patched(rows[c], patch[r])
      PROVE  rows'[c] # None /\ rows'[c].deleted
  BY <1>1, <1>3, PatchedRow DEF IInv, TypeOK
<1> QED
  BY <1>2, <1>3, RowStep

\* A deleted restaurant never comes back: Restaurantes!NoResurrection.
THEOREM DeletedForGood == Spec => NoResurrection
<1>1. IInv /\ [Next]_vars =>
        [\A c \in Cnpjs : rows[c] # None /\ rows[c].deleted => rows'[c] # None /\ rows'[c].deleted]_vars
  BY DeletedStays
<1> QED
  BY <1>1, Invariance, PTL DEF Spec, NoResurrection
===============================================================================
