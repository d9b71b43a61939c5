---------------------------- MODULE CadastroProofs ----------------------------
(***************************************************************************)
(* Proofs about Cadastro, for any rows, addresses, names and requests.     *)
(*                                                                         *)
(* What the properties say of the tables and of the grants is not          *)
(* inductive: it depends on what requests hold between two queries.  IInv  *)
(* adds that                                                               *)
(*   RequestInv  the row a request is about stays, its data is what its    *)
(*               table takes, and an address it carries is normalised;     *)
(*   KeysInv     unique columns are unique, deleted rows included, and     *)
(*               addresses are stored as they are compared;                *)
(*   ExtinctInv  a permission that was deleted when the association came   *)
(*               is not visible when it is looked up, and so not among     *)
(*               those that get past the lookup;                           *)
(*   LidoInv     what a `set` read as connected was put there by an        *)
(*               association that has been answered.                       *)
(* A step writes one row of one table or none (Writes, Escreve), which is  *)
(* all the proofs about tables use.                                        *)
(***************************************************************************)
EXTENDS Cadastro, FiniteSetTheorems, TLAPS

\* An e-mail among data d for table t is in canonical form.
Canonica(t, d) == t = "users" /\ "email" \in DOMAIN d => Canonico[d["email"]] = d["email"]

\* A request about the permissions of a profile.
PedidoDePermissoes == [tab : {"perfis"}, id : Ids, dados : [permissoes : Seq(Ids)]]

\* What a request holds at each of its queries.
RequestOK(r) ==
  LET t == req[r].tab
      i == req[r].id
      d == req[r].dados
  IN
  /\ pc[r] \in {"procura", "insert", "confere", "update", "delete"} => req[r] # None
  /\ pc[r] \in {"procura", "insert"} => d \in Novos[t]
  /\ pc[r] \in {"confere", "update"} => d \in Patches[t]
  /\ pc[r] \in {"procura", "insert", "confere", "update"} => Canonica(t, d)
  /\ pc[r] \in {"confere", "update", "delete"} => i \in Ids /\ Existe(t, i)
  /\ \/ pc[r] \in {"permissoes", "set", "diff", "disconnect"}
     \/ pc[r] = "done" /\ req[r] # None
     => req[r] \in PedidoDePermissoes /\ Existe("perfis", i)

RequestInv == \A r \in Requests : RequestOK(r)

\* Unique columns, over deleted rows too, and the form of addresses.
KeysInv ==
  /\ \A t \in Tabelas, i, j \in Ids : \A c \in Unicas[t] :
       Existe(t, i) /\ Existe(t, j) /\ Valor(t, i, c) = Valor(t, j, c) => i = j
  /\ \A t \in Tabelas, i \in Ids : Existe(t, i) => Canonica(t, rows[t][i].dados)

\* What the lookup of a list of permissions can and did find.
ExtinctOK(r) ==
  /\ pc[r] = "permissoes" =>
       \A q \in extintas[r] : Existe("permissoes", q) /\ ~Visivel("permissoes", q)
  /\ pc[r] \in {"set", "diff"} =>
       \A q \in Pedidas(r) : Existe("permissoes", q) /\ q \notin extintas[r]

ExtinctInv == \A r \in Requests : ExtinctOK(r)

\* A profile that was found to grant something had been given it.
LidoInv ==
  \A r \in Requests :
    pc[r] = "diff" /\ lido[r] # {} => \E s \in Requests : Associou(s, req[r].id)

\* The inductive invariant.
IInv ==
  /\ TypeOK
  /\ RequestInv
  /\ KeysInv
  /\ ExtinctInv
  /\ LidoInv
  /\ NoExtinctGrant
  /\ GrantsAccounted

-------------------------------------------------------------------------------
(* Data and rows.                                                          *)

\* Unique columns are columns, and NULL is a value of none.
LEMMA Columns ==
  ASSUME NEW t \in Tabelas
  PROVE  /\ Unicas[t] \subseteq Colunas[t]
         /\ \E c \in Unicas[t] : TRUE
         /\ \A c \in Colunas[t] : Valores(c) \subseteq Enderecos \cup Ids \cup Nomes
         /\ \A c : None \notin Valores(c)
BY NoneAssumption DEF Tabelas, Colunas, Unicas, Valores

\* What a client may send about table t.
LEMMA PatchIs ==
  ASSUME NEW t \in Tabelas, NEW d \in Patches[t]
  PROVE  /\ DOMAIN d \subseteq Colunas[t]
         /\ d = [c \in DOMAIN d |-> d[c]]
         /\ \A c \in DOMAIN d : d[c] \in Valores(c)
BY DEF Patches

\* The converse: such a function is what a client may send.
LEMMA MakePatch ==
  ASSUME NEW t \in Tabelas, NEW d, d = [c \in DOMAIN d |-> d[c]],
         DOMAIN d \subseteq Colunas[t], \A c \in DOMAIN d : d[c] \in Valores(c)
  PROVE  d \in Patches[t]
<1> DEFINE S == DOMAIN d
<1>1. d \in [S -> Enderecos \cup Ids \cup Nomes]
  BY Columns
<1>2. S \in SUBSET Colunas[t]
  OBVIOUS
<1> QED
  BY <1>1, <1>2 DEF Patches

\* toLowerCase().trim() makes data of the same columns.
LEMMA Normal ==
  ASSUME NEW t \in Tabelas, NEW d \in Patches[t]
  PROVE  /\ Normalizado(d) \in Patches[t]
         /\ DOMAIN Normalizado(d) = DOMAIN d
         /\ Canonica(t, Normalizado(d))
<1> DEFINE n == Normalizado(d)
<1>1. n = [c \in DOMAIN n |-> n[c]] /\ DOMAIN n = DOMAIN d
  BY DEF Normalizado
<1>2. \A c \in DOMAIN d : n[c] \in Valores(c)
  BY PatchIs, CanonicoAssumption DEF Normalizado, Valores
<1>3. Canonica(t, n)
  BY PatchIs, CanonicoAssumption DEF Canonica, Normalizado, Valores
<1> QED
  <2> HIDE DEF n
  <2>1. n \in Patches[t]
    BY <1>1, <1>2, MakePatch, PatchIs
  <2> QED
    BY <1>1, <1>3, <2>1 DEF n

\* What a row of table t is.
LEMMA RowIs ==
  ASSUME NEW t \in Tabelas, NEW row \in Row[t]
  PROVE  /\ row = [dados |-> row.dados, deleted |-> row.deleted]
         /\ row.deleted \in BOOLEAN
         /\ DOMAIN row.dados = Colunas[t]
         /\ \A c \in Unicas[t] : row.dados[c] \in Valores(c)
         /\ \A c \in Colunas[t] : row.dados[c] \in Valores(c) \cup {None}
BY DEF Row

\* A row with its data, or its deletedAt, exchanged.
LEMMA SetColumn ==
  ASSUME NEW t \in Tabelas, NEW row \in Row[t], NEW x
  PROVE  /\ [row EXCEPT !.dados = x] = [dados |-> x, deleted |-> row.deleted]
         /\ [row EXCEPT !.deleted = x] = [dados |-> row.dados, deleted |-> x]
<1>1. row = [dados |-> row.dados, deleted |-> row.deleted]
  BY RowIs
<1> QED
  BY <1>1

\* The converse of RowIs.
LEMMA MakeRow ==
  ASSUME NEW t \in Tabelas, NEW f, f = [c \in Colunas[t] |-> f[c]], NEW b \in BOOLEAN,
         \A c \in Unicas[t] : f[c] \in Valores(c),
         \A c \in Colunas[t] : f[c] \in Valores(c) \cup {None}
  PROVE  [dados |-> f, deleted |-> b] \in Row[t]
<1>1. f \in [Colunas[t] -> Enderecos \cup Ids \cup Nomes \cup {None}]
  BY Columns
<1> QED
  BY <1>1 DEF Row

\* A row made of the data of a POST.
LEMMA NewRow ==
  ASSUME NEW t \in Tabelas, NEW d \in Novos[t]
  PROVE  [dados |-> Sobre(d, [c \in Colunas[t] |-> None]), deleted |-> FALSE] \in Row[t]
<1> DEFINE f == Sobre(d, [c \in Colunas[t] |-> None])
<1>1. d \in Patches[t] /\ Unicas[t] \subseteq DOMAIN d
  BY DEF Novos
<1>2. /\ f = [c \in Colunas[t] |-> f[c]]
      /\ \A c \in Colunas[t] : f[c] = IF c \in DOMAIN d THEN d[c] ELSE None
  BY <1>1, PatchIs DEF Sobre
<1> HIDE DEF f
<1>3. /\ \A c \in Unicas[t] : f[c] \in Valores(c)
      /\ \A c \in Colunas[t] : f[c] \in Valores(c) \cup {None}
  BY <1>1, <1>2, PatchIs, Columns
<1>4. [dados |-> f, deleted |-> FALSE] \in Row[t]
  BY <1>2, <1>3, MakeRow
<1> QED
  BY <1>4 DEF f

\* A row changed by a PATCH.
LEMMA PatchedRow ==
  ASSUME NEW t \in Tabelas, NEW d \in Patches[t], NEW row \in Row[t]
  PROVE  [row EXCEPT !.dados = Sobre(d, @)] \in Row[t]
<1> DEFINE f == Sobre(d, row.dados)
<1>2. /\ f = [c \in Colunas[t] |-> f[c]]
      /\ \A c \in Colunas[t] : f[c] = IF c \in DOMAIN d THEN d[c] ELSE row.dados[c]
  BY PatchIs, RowIs DEF Sobre
<1>3. [row EXCEPT !.dados = Sobre(d, @)] = [dados |-> f, deleted |-> row.deleted]
  BY SetColumn
<1> HIDE DEF f
<1>4. ASSUME NEW c \in Unicas[t]
      PROVE  f[c] \in Valores(c)
  <2>1. row.dados[c] \in Valores(c) /\ c \in Colunas[t]
    BY RowIs, Columns
  <2> QED
    BY <1>2, <2>1, PatchIs
<1>5. ASSUME NEW c \in Colunas[t]
      PROVE  f[c] \in Valores(c) \cup {None}
  <2>1. row.dados[c] \in Valores(c) \cup {None}
    BY RowIs
  <2> QED
    BY <1>2, <2>1, PatchIs
<1> QED
  BY <1>2, <1>3, <1>4, <1>5, MakeRow, RowIs

-------------------------------------------------------------------------------
(* What one step does.                                                     *)

\* A step of request r.
Etapa(r) ==
  \/ Passo(r) /\ UNCHANGED extintas
  \/ \E p \in Ids, l \in Listas : AssociarFind(r, p, l)

\* Nothing happens to the other requests.
Outras(r) ==
  \A s \in Requests \ {r} :
    /\ pc'[s] = pc[s] /\ req'[s] = req[s] /\ lido'[s] = lido[s]
    /\ answer'[s] = answer[s] /\ extintas'[s] = extintas[s]

\* A step of r that goes on to another query.
LEMMA Goes ==
  ASSUME TypeOK, NEW r \in Requests, NEW e, NEW q, NEW l, Segue(r, e, q, l)
  PROVE  /\ pc'[r] = e /\ req'[r] = q /\ lido'[r] = l /\ answer'[r] = answer[r]
         /\ rows' = rows /\ concede' = concede
         /\ \A s \in Requests \ {r} :
              /\ pc'[s] = pc[s] /\ req'[s] = req[s] /\ lido'[s] = lido[s]
              /\ answer'[s] = answer[s]
BY DEF TypeOK, Segue

\* A step of r that ends it.
LEMMA Ends ==
  ASSUME TypeOK, NEW r \in Requests, NEW e, NEW st, NEW q, Encerra(r, e, st, q)
  PROVE  /\ pc'[r] = e /\ req'[r] = q /\ lido'[r] = None /\ answer'[r] = st
         /\ \A s \in Requests \ {r} :
              /\ pc'[s] = pc[s] /\ req'[s] = req[s] /\ lido'[s] = lido[s]
              /\ answer'[s] = answer[s]
BY DEF TypeOK, Encerra

\* A step of r that answers without writing.
LEMMA Answers ==
  ASSUME TypeOK, NEW r \in Requests, NEW st, Responde(r, st)
  PROVE  /\ pc'[r] = "done" /\ req'[r] = None /\ answer'[r] = st
         /\ rows' = rows /\ concede' = concede
         /\ \A s \in Requests \ {r} :
              /\ pc'[s] = pc[s] /\ req'[s] = req[s] /\ lido'[s] = lido[s]
              /\ answer'[s] = answer[s]
BY Ends DEF Responde, Termina

\* An answered or failed request takes no step, and a step of one request is
\* none of the others.
LEMMA OneMoves ==
  ASSUME TypeOK, NEW r \in Requests, Etapa(r)
  PROVE  Outras(r) /\ pc[r] \notin {"failed", "done"}
<1>1. CASE \E p \in Ids, l \in Listas : AssociarFind(r, p, l)
  BY <1>1, Goes, Answers DEF AssociarFind, Outras, TypeOK
<1>2. CASE Passo(r) /\ UNCHANGED extintas
  <2> DEFINE Done == /\ pc[r] \notin {"failed", "done"}
                     /\ \A s \in Requests \ {r} :
                         /\ pc'[s] = pc[s] /\ req'[s] = req[s] /\ lido'[s] = lido[s]
                         /\ answer'[s] = answer[s]
  <2>1. ASSUME NEW t \in Tabelas, NEW d \in Novos[t], CriarRecebe(r, t, d) PROVE Done
    BY <2>1, Goes DEF CriarRecebe
  <2>2. ASSUME NEW c \in {"email", "nome", "chave"}, CriarProcura(r, c) PROVE Done
    BY <2>2, Goes, Answers DEF CriarProcura
  <2>3. ASSUME CriarInsere(r) PROVE Done
    BY <2>3, Ends, Answers DEF CriarInsere, Termina
  <2>4. ASSUME NEW t \in Tabelas, NEW i \in Ids, NEW d \in Patches[t], AtualizarFind(r, t, i, d)
        PROVE  Done
    BY <2>4, Goes, Answers DEF AtualizarFind
  <2>5. ASSUME AtualizarConfere(r) PROVE Done
    BY <2>5, Goes, Answers DEF AtualizarConfere
  <2>6. ASSUME AtualizarGrava(r) PROVE Done
    BY <2>6, Ends, Answers DEF AtualizarGrava, Termina
  <2>7. ASSUME NEW t \in Tabelas, NEW i \in Ids, DeletarFind(r, t, i) PROVE Done
    BY <2>7, Goes, Answers DEF DeletarFind
  <2>8. ASSUME DeletarGrava(r) PROVE Done
    BY <2>8, Ends DEF DeletarGrava, Termina
  <2>9. ASSUME AssociarConfere(r) PROVE Done
    BY <2>9, Goes, Answers DEF AssociarConfere
  <2>10. ASSUME SetLe(r) PROVE Done
    BY <2>10, Goes DEF SetLe
  <2>11. ASSUME SetGrava(r) PROVE Done
    BY <2>11, Ends DEF SetGrava
  <2>12. ASSUME NEW p \in Ids, NEW q \in Ids, DesassociarFind(r, p, q) PROVE Done
    BY <2>12, Goes, Answers DEF DesassociarFind
  <2>13. ASSUME DesassociarGrava(r) PROVE Done
    BY <2>13, Ends DEF DesassociarGrava
  <2>14. ASSUME Falha(r) PROVE Done
    BY <2>14, Ends DEF Falha
  <2>15. Done
    BY <1>2, <2>1, <2>2, <2>3, <2>4, <2>5, <2>6, <2>7, <2>8, <2>9, <2>10, <2>11, <2>12,
       <2>13, <2>14
       DEF Passo
  <2> QED
    BY <1>2, <2>15 DEF Outras
<1> QED
  BY <1>1, <1>2 DEF Etapa

-------------------------------------------------------------------------------
(* The rows.                                                               *)

\* No other row of table t holds a unique value of this row.
Livre(t, i, row) ==
  \A j \in Ids \ {i} : \A c \in Unicas[t] : Existe(t, j) => Valor(t, j, c) # row.dados[c]

\* What a step may do to the rows: insert one, exchange the data of one or
\* delete one.
Escreve(t, i, row) ==
  /\ rows' = [rows EXCEPT ![t][i] = row]
  /\ Livre(t, i, row) /\ Canonica(t, row.dados)
  /\ \/ ~Existe(t, i) /\ ~row.deleted
     \/ Existe(t, i) /\ row.deleted = rows[t][i].deleted
     \/ Existe(t, i) /\ row.deleted /\ row.dados = rows[t][i].dados

\* One row of one table is written.
UmaEscrita == \E t \in Tabelas, i \in Ids : \E row \in Row[t] : Escreve(t, i, row)

\* The UNIQUE indexes leave an INSERT only free values.
LEMMA InsertWrites ==
  ASSUME TypeOK, RequestInv, KeysInv, NEW r \in Requests, CriarInsere(r), rows' # rows
  PROVE  UmaEscrita
<1> DEFINE t == req[r].tab
           d == req[r].dados
           row == [dados |-> Sobre(d, [c \in Colunas[t] |-> None]), deleted |-> FALSE]
<1>1. t \in Tabelas /\ d \in Novos[t] /\ Canonica(t, d)
  BY DEF CriarInsere, RequestInv, RequestOK, TypeOK, Pedido
<1>2. PICK i \in Ids : /\ ~Existe(t, i) /\ ~Rejeitado(t, i, d)
                       /\ rows' = [rows EXCEPT ![t][i] = row]
  BY DEF CriarInsere, Responde
<1>3. d \in Patches[t] /\ Unicas[t] \subseteq DOMAIN d
  BY <1>1 DEF Novos
<1>4. row \in Row[t]
  BY <1>1, NewRow
<1>5. /\ row.deleted = FALSE
      /\ \A c \in DOMAIN d : row.dados[c] = d[c]
      /\ "email" \in DOMAIN row.dados /\ t = "users" => "email" \in DOMAIN d
  BY <1>1, <1>3, PatchIs DEF Sobre, Unicas
<1>6. Livre(t, i, row)
  BY <1>2, <1>3, <1>5 DEF Rejeitado, ViolaUnica, Livre
<1>7. Canonica(t, row.dados)
  BY <1>1, <1>5 DEF Canonica
<1> HIDE DEF t, d, row
<1> QED
  BY <1>1, <1>2, <1>4, <1>5, <1>6, <1>7 DEF UmaEscrita, Escreve

\* An UPDATE sets free values and keeps values that are this row's already.
LEMMA PatchWrites ==
  ASSUME TypeOK, RequestInv, KeysInv, NEW r \in Requests, AtualizarGrava(r), rows' # rows
  PROVE  UmaEscrita
<1> DEFINE t == req[r].tab
           i == req[r].id
           d == req[r].dados
           old == rows[t][i]
           row == [old EXCEPT !.dados = Sobre(d, @)]
<1>1. t \in Tabelas /\ d \in Patches[t] /\ Canonica(t, d) /\ i \in Ids /\ Existe(t, i)
  BY DEF AtualizarGrava, RequestInv, RequestOK, TypeOK, Pedido
<1>2. ~Rejeitado(t, i, d) /\ rows' = [rows EXCEPT ![t][i].dados = Sobre(d, @)]
  BY DEF AtualizarGrava, Responde
<1>3. old \in Row[t]
  BY <1>1 DEF TypeOK, Existe
<1>4. rows' = [rows EXCEPT ![t][i] = row]
  BY <1>1, <1>2 DEF TypeOK
<1>5. row \in Row[t]
  BY <1>1, <1>3, PatchedRow
<1>6. /\ row.deleted = old.deleted
      /\ \A c \in Colunas[t] : row.dados[c] = IF c \in DOMAIN d THEN d[c] ELSE old.dados[c]
      /\ DOMAIN row.dados = Colunas[t] /\ DOMAIN old.dados = Colunas[t]
  <2>1. row = [dados |-> Sobre(d, old.dados), deleted |-> old.deleted]
    <3> HIDE DEF t, i, d, old
    <3> QED
      BY <1>1, <1>3, SetColumn
  <2> HIDE DEF t, i, d, old, row
  <2> QED
    BY <1>1, <1>3, <2>1, PatchIs, RowIs DEF Sobre
<1>7. Livre(t, i, row)
  <2> SUFFICES ASSUME NEW j \in Ids \ {i}, NEW c \in Unicas[t], Existe(t, j)
               PROVE  Valor(t, j, c) # row.dados[c]
    BY DEF Livre
  <2>1. c \in Colunas[t]
    BY <1>1, Columns
  <2>2. CASE c \in DOMAIN d
    BY <1>2, <1>6, <2>1, <2>2 DEF Rejeitado, ViolaUnica
  <2>3. CASE c \notin DOMAIN d
    <3>1. row.dados[c] = Valor(t, i, c)
      BY <1>6, <2>1, <2>3 DEF Valor
    <3> HIDE DEF t, i, row
    <3> QED
      BY <1>1, <3>1 DEF KeysInv
  <2> QED
    BY <2>2, <2>3
<1>8. Canonica(t, row.dados)
  <2>1. Canonica(t, old.dados)
    BY <1>1 DEF KeysInv
  <2> QED
    BY <1>1, <1>6, <2>1 DEF Canonica
<1> HIDE DEF t, i, d, old, row
<1>9. Existe(t, i) /\ row.deleted = rows[t][i].deleted
  BY <1>1, <1>6 DEF old
<1> QED
  BY <1>1, <1>4, <1>5, <1>7, <1>8, <1>9 DEF UmaEscrita, Escreve

\* A soft delete keeps the data of its row.
LEMMA DeleteWrites ==
  ASSUME TypeOK, RequestInv, KeysInv, NEW r \in Requests, DeletarGrava(r)
  PROVE  UmaEscrita
<1> DEFINE t == req[r].tab
           i == req[r].id
           old == rows[t][i]
           row == [old EXCEPT !.deleted = TRUE]
<1>1. t \in Tabelas /\ i \in Ids /\ Existe(t, i)
  BY DEF DeletarGrava, RequestInv, RequestOK, TypeOK, Pedido
<1>2. old \in Row[t]
  BY <1>1 DEF TypeOK, Existe
<1>3. rows' = [rows EXCEPT ![t][i] = row]
  BY <1>1 DEF DeletarGrava, TypeOK
<1>4. row = [dados |-> old.dados, deleted |-> TRUE]
  <2> HIDE DEF t, i, old
  <2> QED
    BY <1>1, <1>2, SetColumn
<1>5. row \in Row[t]
  <2> HIDE DEF t, i, old, row
  <2> QED
    BY <1>1, <1>2, <1>4 DEF Row
<1>6. Livre(t, i, row)
  <2> SUFFICES ASSUME NEW j \in Ids \ {i}, NEW c \in Unicas[t], Existe(t, j)
               PROVE  Valor(t, j, c) # row.dados[c]
    BY DEF Livre
  <2>1. row.dados[c] = Valor(t, i, c)
    BY <1>4 DEF Valor
  <2> HIDE DEF t, i, row
  <2> QED
    BY <1>1, <2>1 DEF KeysInv
<1>7. Canonica(t, row.dados)
  BY <1>1, <1>4 DEF KeysInv
<1> HIDE DEF t, i, old, row
<1>8. Existe(t, i) /\ row.deleted /\ row.dados = rows[t][i].dados
  BY <1>1, <1>4 DEF old
<1> QED
  BY <1>1, <1>3, <1>5, <1>6, <1>7, <1>8 DEF UmaEscrita, Escreve

\* Every step writes one row of one table, or none.
LEMMA Writes ==
  ASSUME TypeOK, RequestInv, KeysInv, NEW r \in Requests, Etapa(r)
  PROVE  rows' = rows \/ UmaEscrita
<1>1. CASE CriarInsere(r) \/ AtualizarGrava(r) \/ DeletarGrava(r)
  BY <1>1, InsertWrites, PatchWrites, DeleteWrites
<1>2. CASE ~(CriarInsere(r) \/ AtualizarGrava(r) \/ DeletarGrava(r))
  BY <1>2
     DEF Etapa, Passo, CriarRecebe, CriarProcura, AtualizarFind, AtualizarConfere, DeletarFind,
         AssociarFind, AssociarConfere, SetLe, SetGrava, DesassociarFind, DesassociarGrava,
         Falha, Segue, Responde
<1> QED
  BY <1>1, <1>2

\* The tables after a row has been written.
LEMMA Written ==
  ASSUME TypeOK, NEW t \in Tabelas, NEW i \in Ids, NEW row \in Row[t], Escreve(t, i, row)
  PROVE  /\ rows'[t][i] = row /\ row # None
         /\ \A s \in Tabelas, j \in Ids : s # t \/ j # i => rows'[s][j] = rows[s][j]
         /\ DOMAIN rows' = Tabelas
         /\ \A s \in Tabelas : rows'[s] \in [Ids -> Row[s] \cup {None}]
BY RecordsAssumption DEF TypeOK, Escreve

\* A row stays, and a deleted row stays deleted.
LEMMA RowsStay ==
  ASSUME TypeOK, rows' = rows \/ UmaEscrita, NEW t \in Tabelas, NEW i \in Ids, Existe(t, i)
  PROVE  Existe(t, i)' /\ (~Visivel(t, i) => ~Visivel(t, i)')
<1>1. CASE rows' = rows
  BY <1>1 DEF Existe, Visivel
<1>2. CASE UmaEscrita
  <2>1. PICK s \in Tabelas, j \in Ids : \E row \in Row[s] : Escreve(s, j, row)
    BY <1>2 DEF UmaEscrita
  <2>2. PICK row \in Row[s] : Escreve(s, j, row)
    BY <2>1
  <2>3. /\ rows'[s][j] = row /\ row # None
        /\ t # s \/ i # j => rows'[t][i] = rows[t][i]
    BY <2>2, Written
  <2>4. CASE t = s /\ i = j
    BY <2>2, <2>3, <2>4 DEF Escreve, Existe, Visivel
  <2>5. CASE ~(t = s /\ i = j)
    BY <2>3, <2>5 DEF Existe, Visivel
  <2> QED
    BY <2>4, <2>5
<1> QED
  BY <1>1, <1>2

\* Unique values stay unique and addresses canonical.
LEMMA KeysStep ==
  ASSUME TypeOK, KeysInv, rows' = rows \/ UmaEscrita
  PROVE  KeysInv'
<1>1. CASE rows' = rows
  BY <1>1 DEF KeysInv, Existe, Valor
<1>2. CASE UmaEscrita
  <2>1. PICK t \in Tabelas, i \in Ids : \E row \in Row[t] : Escreve(t, i, row)
    BY <1>2 DEF UmaEscrita
  <2>2. PICK row \in Row[t] : Escreve(t, i, row)
    BY <2>1
  <2>3. /\ rows'[t][i] = row
        /\ \A s \in Tabelas, j \in Ids : s # t \/ j # i => rows'[s][j] = rows[s][j]
    BY <2>2, Written
  <2>4. ASSUME NEW s \in Tabelas, NEW j \in Ids, NEW k \in Ids, NEW c \in Unicas[s],
               Existe(s, j)', Existe(s, k)', Valor(s, j, c)' = Valor(s, k, c)'
        PROVE  j = k
    <3>1. CASE s # t \/ i \notin {j, k}
      <4>1. rows'[s][j] = rows[s][j] /\ rows'[s][k] = rows[s][k]
        BY <2>3, <3>1
      <4> QED
        BY <2>4, <4>1 DEF KeysInv, Existe, Valor
    <3>2. CASE s = t /\ j = i /\ k # i
      <4>1. rows'[t][k] = rows[t][k] /\ rows'[t][i] = row
        BY <2>3, <3>2
      <4> QED
        BY <2>2, <2>4, <3>2, <4>1 DEF Escreve, Livre, Existe, Valor
    <3>3. CASE s = t /\ k = i /\ j # i
      <4>1. rows'[t][j] = rows[t][j] /\ rows'[t][i] = row
        BY <2>3, <3>3
      <4> QED
        BY <2>2, <2>4, <3>3, <4>1 DEF Escreve, Livre, Existe, Valor
    <3> QED
      BY <3>1, <3>2, <3>3
  <2>5. ASSUME NEW s \in Tabelas, NEW j \in Ids, Existe(s, j)'
        PROVE  Canonica(s, rows[s][j].dados)'
    <3>1. CASE s = t /\ j = i
      BY <2>2, <2>3, <3>1 DEF Escreve, Canonica
    <3>2. CASE ~(s = t /\ j = i)
      <4>1. rows'[s][j] = rows[s][j]
        BY <2>3, <3>2
      <4> QED
        BY <2>5, <4>1 DEF KeysInv, Existe, Canonica
    <3> QED
      BY <3>1, <3>2
  <2> QED
    BY <2>4, <2>5 DEF KeysInv
<1> QED
  BY <1>1, <1>2

-------------------------------------------------------------------------------
(* The requests.                                                           *)

\* The lists of permissions that clients send are sequences.
LEMMA MakeList ==
  /\ \A l \in Listas : l \in Seq(Ids)
  /\ \A q \in Ids : <<q>> \in Seq(Ids)
BY DEF Listas

\* The data of a request.
Conteudos == {<<>>} \cup [permissoes : Seq(Ids)] \cup (UNION {Patches[t] : t \in Tabelas})

\* Each kind of data is data of a request.
LEMMA Contents ==
  /\ \A t \in Tabelas : Patches[t] \subseteq Conteudos
  /\ <<>> \in Conteudos
  /\ [permissoes : Seq(Ids)] \subseteq Conteudos
<1> DEFINE A == UNION {Patches[t] : t \in Tabelas}
           B == [permissoes : Seq(Ids)]
<1>1. \A t \in Tabelas : Patches[t] \subseteq A
  OBVIOUS
<1> HIDE DEF A, B
<1>2. Conteudos = {<<>>} \cup B \cup A
  BY DEF A, B, Conteudos
<1> QED
  BY <1>1, <1>2 DEF B

\* Requests, by their data.
LEMMA AskIs == Pedido = [tab : Tabelas, id : Ids \cup {None}, dados : Conteudos]
BY DEF Pedido, Conteudos

\* A request about permissions is not an empty one.
LEMMA PermissionAsk == None \notin PedidoDePermissoes
<1>1. PedidoDePermissoes \subseteq Pedido
  BY Contents, AskIs DEF PedidoDePermissoes, Tabelas
<1> QED
  BY <1>1, RecordsAssumption

\* The table and row a request is about.
LEMMA AskedRows ==
  ASSUME TypeOK, NEW r \in Requests, req[r] # None
  PROVE  req[r].tab \in Tabelas /\ req[r].id \in Ids \cup {None}
BY DEF TypeOK, Pedido

\* A request that is over and holds nothing is all right.
LEMMA OverOK ==
  ASSUME NEW r \in Requests, pc'[r] \in {"done", "failed"}, req'[r] = None
  PROVE  RequestOK(r)' /\ req'[r] \in Pedido \cup {None}
BY DEF RequestOK

\* Other requests' steps leave a request the row it is about.
LEMMA OtherOK ==
  ASSUME TypeOK, RequestInv, rows' = rows \/ UmaEscrita, NEW r \in Requests, Outras(r),
         NEW s \in Requests \ {r}
  PROVE  RequestOK(s)'
<1>1. RequestOK(s) /\ pc'[s] = pc[s] /\ req'[s] = req[s]
  BY DEF RequestInv, Outras
<1>2. ASSUME req[s] # None, req[s].id \in Ids, Existe(req[s].tab, req[s].id)
      PROVE  rows'[req[s].tab][req[s].id] # None
  <2>1. PICK t \in Tabelas, i \in Ids : t = req[s].tab /\ i = req[s].id
    BY <1>2, AskedRows
  <2>2. Existe(t, i)'
    BY <1>2, <2>1, RowsStay
  <2> QED
    BY <2>1, <2>2 DEF Existe
<1>3. ASSUME req[s] \in PedidoDePermissoes, Existe("perfis", req[s].id)
      PROVE  rows'["perfis"][req[s].id] # None
  <2>1. PICK i \in Ids : i = req[s].id
    BY <1>3 DEF PedidoDePermissoes
  <2>2. Existe("perfis", i)'
    BY <1>3, <2>1, RowsStay DEF Tabelas
  <2> QED
    BY <2>1, <2>2 DEF Existe
<1> QED
  BY <1>1, <1>2, <1>3 DEF RequestOK, Existe

\* The steps of a POST: its data is normalised once, when it comes.
LEMMA CriarOK ==
  ASSUME TypeOK, RequestInv, NEW r \in Requests,
         \/ \E t \in Tabelas : \E d \in Novos[t] : CriarRecebe(r, t, d)
         \/ \E c \in {"email", "nome", "chave"} : CriarProcura(r, c)
         \/ CriarInsere(r)
  PROVE  RequestOK(r)' /\ req'[r] \in Pedido \cup {None}
<1>1. ASSUME NEW t \in Tabelas, NEW d \in Novos[t], CriarRecebe(r, t, d)
      PROVE  RequestOK(r)' /\ req'[r] \in Pedido \cup {None}
  <2> DEFINE n == Normalizado(d)
             q == [tab |-> t, id |-> None, dados |-> n]
  <2>1. n \in Patches[t] /\ DOMAIN n = DOMAIN d /\ Canonica(t, n)
    BY Normal DEF Novos
  <2>2. n \in Novos[t]
    BY <2>1 DEF Novos
  <2>3. pc'[r] = "procura" /\ req'[r] = q
    BY <1>1, Goes DEF CriarRecebe
  <2> HIDE DEF n
  <2>4. q \in Pedido
    BY <2>1 DEF Pedido
  <2> QED
    BY <2>1, <2>2, <2>3, <2>4, RecordsAssumption DEF RequestOK
<1>2. ASSUME NEW c \in {"email", "nome", "chave"}, CriarProcura(r, c)
      PROVE  RequestOK(r)' /\ req'[r] \in Pedido \cup {None}
  <2>1. CASE Responde(r, 409)
    BY <2>1, Answers, OverOK
  <2>2. CASE ~Responde(r, 409)
    <3>1. /\ pc[r] = "procura" /\ pc'[r] \in {"procura", "insert"}
          /\ req'[r] = req[r]
      BY <1>2, <2>2, Goes DEF CriarProcura
    <3> QED
      BY <3>1 DEF RequestInv, RequestOK, TypeOK
  <2> QED
    BY <2>1, <2>2
<1>3. ASSUME CriarInsere(r)
      PROVE  RequestOK(r)' /\ req'[r] \in Pedido \cup {None}
  <2>1. pc'[r] = "done" /\ req'[r] = None
    BY <1>3, Answers, Ends DEF CriarInsere, Termina
  <2> QED
    BY <2>1, OverOK
<1> QED
  BY <1>1, <1>2, <1>3

\* The steps of a PATCH: its row was found, and rows are never removed.
LEMMA AtualizarOK ==
  ASSUME TypeOK, RequestInv, NEW r \in Requests,
         \/ \E t \in Tabelas, i \in Ids : \E d \in Patches[t] : AtualizarFind(r, t, i, d)
         \/ AtualizarConfere(r)
         \/ AtualizarGrava(r)
  PROVE  RequestOK(r)' /\ req'[r] \in Pedido \cup {None}
<1>1. ASSUME NEW t \in Tabelas, NEW i \in Ids, NEW d \in Patches[t], AtualizarFind(r, t, i, d)
      PROVE  RequestOK(r)' /\ req'[r] \in Pedido \cup {None}
  <2> DEFINE n == Normalizado(d)
             q == [tab |-> t, id |-> i, dados |-> n]
  <2>1. n \in Patches[t] /\ Canonica(t, n)
    BY Normal
  <2>2. CASE Responde(r, 404)
    BY <2>2, Answers, OverOK
  <2>3. CASE ~Responde(r, 404)
    <3>1. /\ pc'[r] \in {"confere", "update"} /\ req'[r] = q /\ rows' = rows
          /\ Visivel(t, i)
      BY <1>1, <2>3, Goes DEF AtualizarFind
    <3> HIDE DEF n
    <3>2. q \in Pedido
      BY <2>1 DEF Pedido
    <3>3. Existe(t, i)'
      BY <3>1 DEF Visivel, Existe
    <3> QED
      BY <2>1, <3>1, <3>2, <3>3, RecordsAssumption DEF RequestOK, Existe
  <2> QED
    BY <2>2, <2>3
<1>2. ASSUME AtualizarConfere(r)
      PROVE  RequestOK(r)' /\ req'[r] \in Pedido \cup {None}
  <2>1. CASE Responde(r, 409)
    BY <2>1, Answers, OverOK
  <2>2. CASE ~Responde(r, 409)
    <3>1. /\ pc[r] = "confere" /\ pc'[r] = "update"
          /\ req'[r] = req[r] /\ rows' = rows
      BY <1>2, <2>2, Goes DEF AtualizarConfere
    <3> QED
      BY <3>1 DEF RequestInv, RequestOK, TypeOK, Existe
  <2> QED
    BY <2>1, <2>2
<1>3. ASSUME AtualizarGrava(r)
      PROVE  RequestOK(r)' /\ req'[r] \in Pedido \cup {None}
  <2>1. pc'[r] = "done" /\ req'[r] = None
    BY <1>3, Answers, Ends DEF AtualizarGrava, Termina
  <2> QED
    BY <2>1, OverOK
<1> QED
  BY <1>1, <1>2, <1>3

\* The steps of a DELETE, and a failure.
LEMMA DeletarOK ==
  ASSUME TypeOK, RequestInv, NEW r \in Requests,
         \/ \E t \in Tabelas, i \in Ids : DeletarFind(r, t, i)
         \/ DeletarGrava(r)
         \/ Falha(r)
  PROVE  RequestOK(r)' /\ req'[r] \in Pedido \cup {None}
<1>1. ASSUME NEW t \in Tabelas, NEW i \in Ids, DeletarFind(r, t, i)
      PROVE  RequestOK(r)' /\ req'[r] \in Pedido \cup {None}
  <2> DEFINE q == [tab |-> t, id |-> i, dados |-> <<>>]
  <2>1. CASE Responde(r, 404)
    BY <2>1, Answers, OverOK
  <2>2. CASE ~Responde(r, 404)
    <3>1. /\ pc'[r] = "delete" /\ req'[r] = q /\ rows' = rows
          /\ Visivel(t, i)
      BY <1>1, <2>2, Goes DEF DeletarFind
    <3>2. q \in Pedido
      BY Contents, AskIs
    <3>3. Existe(t, i)'
      BY <3>1 DEF Visivel, Existe
    <3> QED
      BY <3>1, <3>2, <3>3, RecordsAssumption DEF RequestOK, Existe
  <2> QED
    BY <2>1, <2>2
<1>2. ASSUME DeletarGrava(r) \/ Falha(r)
      PROVE  RequestOK(r)' /\ req'[r] \in Pedido \cup {None}
  <2>1. pc'[r] \in {"done", "failed"} /\ req'[r] = None
    BY <1>2, Ends DEF DeletarGrava, Falha, Termina
  <2> QED
    BY <2>1, OverOK
<1> QED
  BY <1>1, <1>2

\* The steps of a request about permissions hold on to it.
LEMMA PermissoesOK ==
  ASSUME TypeOK, RequestInv, NEW r \in Requests,
         \/ \E p \in Ids, l \in Listas : AssociarFind(r, p, l)
         \/ \E p, q \in Ids : DesassociarFind(r, p, q)
         \/ AssociarConfere(r) \/ SetLe(r) \/ SetGrava(r) \/ DesassociarGrava(r)
  PROVE  RequestOK(r)' /\ req'[r] \in Pedido \cup {None}
<1>1. ASSUME NEW p \in Ids, NEW l \in Seq(Ids),
             pc'[r] \in {"permissoes", "disconnect"}, rows' = rows, Visivel("perfis", p),
             req'[r] = [tab |-> "perfis", id |-> p, dados |-> [permissoes |-> l]]
      PROVE  RequestOK(r)' /\ req'[r] \in Pedido \cup {None}
  <2> DEFINE m == [permissoes |-> l]
             q == [tab |-> "perfis", id |-> p, dados |-> m]
  <2>0. m \in [permissoes : Seq(Ids)]
    OBVIOUS
  <2>1. req'[r] \in PedidoDePermissoes /\ req'[r] \in Pedido /\ req'[r].id = p
    <3> HIDE DEF m
    <3>1. q \in PedidoDePermissoes /\ q \in Pedido /\ q.id = p
      BY <2>0, Contents, AskIs DEF PedidoDePermissoes, Tabelas
    <3> QED
      BY <1>1, <3>1 DEF m
  <2>2. Existe("perfis", p)'
    BY <1>1 DEF Visivel, Existe
  <2> QED
    BY <1>1, <2>1, <2>2 DEF RequestOK, Existe
<1>2. ASSUME NEW p \in Ids, NEW l \in Listas, AssociarFind(r, p, l)
      PROVE  RequestOK(r)' /\ req'[r] \in Pedido \cup {None}
  <2>1. CASE Responde(r, 404)
    BY <2>1, Answers, OverOK
  <2>2. CASE ~Responde(r, 404)
    <3>1. /\ Visivel("perfis", p)
          /\ Segue(r, "permissoes",
                   [tab |-> "perfis", id |-> p, dados |-> [permissoes |-> l]], None)
      BY <1>2, <2>2 DEF AssociarFind
    <3>2. /\ pc'[r] = "permissoes" /\ rows' = rows
          /\ req'[r] = [tab |-> "perfis", id |-> p, dados |-> [permissoes |-> l]]
      BY <3>1, Goes
    <3> QED
      BY <1>1, <3>1, <3>2, MakeList
  <2> QED
    BY <2>1, <2>2
<1>3. ASSUME NEW p \in Ids, NEW q \in Ids, DesassociarFind(r, p, q)
      PROVE  RequestOK(r)' /\ req'[r] \in Pedido \cup {None}
  <2>1. CASE Responde(r, 404)
    BY <2>1, Answers, OverOK
  <2>2. CASE ~Responde(r, 404)
    <3>1. /\ Visivel("perfis", p)
          /\ Segue(r, "disconnect",
                   [tab |-> "perfis", id |-> p, dados |-> [permissoes |-> <<q>>]], None)
      BY <1>3, <2>2 DEF DesassociarFind
    <3>2. /\ pc'[r] = "disconnect" /\ rows' = rows
          /\ req'[r] = [tab |-> "perfis", id |-> p, dados |-> [permissoes |-> <<q>>]]
      BY <3>1, Goes
    <3>3. <<q>> \in Seq(Ids)
      BY MakeList
    <3> QED
      BY <1>1, <3>1, <3>2, <3>3
  <2> QED
    BY <2>1, <2>2
<1>4. ASSUME AssociarConfere(r) \/ SetLe(r) \/ SetGrava(r) \/ DesassociarGrava(r)
      PROVE  RequestOK(r)' /\ req'[r] \in Pedido \cup {None}
  <2>1. CASE Responde(r, 404)
    BY <2>1, Answers, OverOK
  <2>2. CASE ~Responde(r, 404)
    <3>1. /\ pc[r] \in {"permissoes", "set", "diff", "disconnect"}
          /\ pc'[r] \in {"set", "diff", "done"} /\ req'[r] = req[r] /\ rows' = rows
      BY <1>4, <2>2, Goes, Ends DEF AssociarConfere, SetLe, SetGrava, DesassociarGrava
    <3>2. req[r] \in PedidoDePermissoes /\ Existe("perfis", req[r].id)
      BY <3>1 DEF RequestInv, RequestOK
    <3> QED
      BY <3>1, <3>2 DEF RequestOK, TypeOK, Existe
  <2> QED
    BY <2>1, <2>2
<1> QED
  BY <1>2, <1>3, <1>4

\* Every step keeps RequestInv.
LEMMA RequestStep ==
  ASSUME TypeOK, RequestInv, KeysInv, NEW r \in Requests, Etapa(r)
  PROVE  RequestInv' /\ req'[r] \in Pedido \cup {None}
<1>1. RequestOK(r)' /\ req'[r] \in Pedido \cup {None}
  BY CriarOK, AtualizarOK, DeletarOK, PermissoesOK DEF Etapa, Passo
<1>2. ASSUME NEW s \in Requests \ {r} PROVE RequestOK(s)'
  BY OneMoves, Writes, OtherOK
<1> QED
  BY <1>1, <1>2 DEF RequestInv

-------------------------------------------------------------------------------
(* Types.                                                                  *)

\* The values of pc and of answer.
Etapas ==
  {"idle", "procura", "insert", "confere", "update", "delete", "permissoes", "set", "diff",
   "disconnect", "failed", "done"}

Respostas == {0, 200, 201, 204, 404, 409, 500}

\* Where a step leads to and what it answers, and what it leaves alone.
Passou(r) ==
  /\ \E e \in Etapas, a \in Respostas :
       pc' = [pc EXCEPT ![r] = e] /\ (answer' = [answer EXCEPT ![r] = a] \/ answer' = answer)
  /\ \E q : req' = [req EXCEPT ![r] = q]
  /\ \E l : lido' = [lido EXCEPT ![r] = l]

\* A step that goes on to another query passes.
LEMMA GoesOn ==
  ASSUME TypeOK, NEW r \in Requests, NEW e \in Etapas, NEW q, NEW l, Segue(r, e, q, l)
  PROVE  Passou(r)
BY DEF Segue, Passou, Respostas

\* A step that ends its request passes.
LEMMA EndsWith ==
  ASSUME TypeOK, NEW r \in Requests, NEW e \in Etapas, NEW a \in Respostas, NEW q,
         Encerra(r, e, a, q)
  PROVE  Passou(r)
BY DEF Encerra, Passou

\* Every step does.
LEMMA Passes ==
  ASSUME TypeOK, NEW r \in Requests, Etapa(r)
  PROVE  Passou(r)
<1>1. ASSUME NEW t \in Tabelas, NEW d \in Novos[t], CriarRecebe(r, t, d) PROVE Passou(r)
  BY <1>1, GoesOn DEF CriarRecebe, Etapas, Respostas
<1>2. ASSUME NEW c \in {"email", "nome", "chave"}, CriarProcura(r, c) PROVE Passou(r)
  BY <1>2, GoesOn, EndsWith DEF CriarProcura, Responde, Termina, Etapas, Respostas
<1>3. ASSUME CriarInsere(r) PROVE Passou(r)
  BY <1>3, EndsWith DEF CriarInsere, Termina, Responde, StatusDoErro, Etapas, Respostas
<1>4. ASSUME NEW t \in Tabelas, NEW i \in Ids, NEW d \in Patches[t], AtualizarFind(r, t, i, d)
      PROVE  Passou(r)
  BY <1>4, GoesOn, EndsWith DEF AtualizarFind, Responde, Termina, Etapas, Respostas
<1>5. ASSUME AtualizarConfere(r) PROVE Passou(r)
  BY <1>5, GoesOn, EndsWith DEF AtualizarConfere, Responde, Termina, Etapas, Respostas
<1>6. ASSUME AtualizarGrava(r) PROVE Passou(r)
  BY <1>6, EndsWith DEF AtualizarGrava, Termina, Responde, StatusDoErro, Etapas, Respostas
<1>7. ASSUME NEW t \in Tabelas, NEW i \in Ids, DeletarFind(r, t, i) PROVE Passou(r)
  BY <1>7, GoesOn, EndsWith DEF DeletarFind, Responde, Termina, Etapas, Respostas
<1>8. ASSUME DeletarGrava(r) PROVE Passou(r)
  BY <1>8, EndsWith DEF DeletarGrava, Termina, Etapas, Respostas
<1>9. ASSUME AssociarConfere(r) PROVE Passou(r)
  BY <1>9, GoesOn, EndsWith DEF AssociarConfere, Responde, Termina, Etapas, Respostas
<1>10. ASSUME SetLe(r) PROVE Passou(r)
  BY <1>10, GoesOn DEF SetLe, Etapas, Respostas
<1>11. ASSUME SetGrava(r) PROVE Passou(r)
  BY <1>11, EndsWith DEF SetGrava, Etapas, Respostas
<1>12. ASSUME NEW p \in Ids, NEW q \in Ids, DesassociarFind(r, p, q) PROVE Passou(r)
  BY <1>12, GoesOn, EndsWith DEF DesassociarFind, Responde, Termina, Etapas, Respostas
<1>13. ASSUME DesassociarGrava(r) PROVE Passou(r)
  BY <1>13, EndsWith DEF DesassociarGrava, Etapas, Respostas
<1>14. ASSUME Falha(r) PROVE Passou(r)
  BY <1>14, EndsWith DEF Falha, Etapas, Respostas
<1>15. ASSUME NEW p \in Ids, NEW l \in Listas, AssociarFind(r, p, l) PROVE Passou(r)
  BY <1>15, GoesOn, EndsWith DEF AssociarFind, Responde, Termina, Etapas, Respostas
<1> QED
  BY <1>1, <1>2, <1>3, <1>4, <1>5, <1>6, <1>7, <1>8, <1>9, <1>10, <1>11, <1>12, <1>13, <1>14, <1>15
     DEF Etapa, Passo

-------------------------------------------------------------------------------
(* What profiles grant.                                                    *)

\* Where a request about permissions comes from; nothing else writes what a
\* profile grants.
LEMMA ComesFrom ==
  ASSUME TypeOK, NEW r \in Requests, Etapa(r)
  PROVE  /\ pc'[r] = "permissoes" =>
              /\ rows' = rows
              /\ extintas'[r] =
                   {q \in Ids : Existe("permissoes", q) /\ ~Visivel("permissoes", q)}
         /\ pc'[r] = "set" => AssociarConfere(r) /\ extintas' = extintas
         /\ pc'[r] = "diff" => SetLe(r) /\ extintas' = extintas
         /\ pc'[r] = "done" /\ req'[r] # None => SetGrava(r) \/ DesassociarGrava(r)
         /\ concede' # concede => SetGrava(r) \/ DesassociarGrava(r)
<1> DEFINE Nada == /\ pc'[r] \notin {"permissoes", "set", "diff"}
                   /\ ~(pc'[r] = "done" /\ req'[r] # None) /\ concede' = concede
<1>1. ASSUME NEW t \in Tabelas, NEW d \in Novos[t], CriarRecebe(r, t, d) PROVE Nada
  BY <1>1, Goes DEF CriarRecebe
<1>2. ASSUME NEW c \in {"email", "nome", "chave"}, CriarProcura(r, c) PROVE Nada
  BY <1>2, Goes, Answers DEF CriarProcura
<1>3. ASSUME CriarInsere(r) PROVE Nada
  BY <1>3, Ends, Answers DEF CriarInsere, Termina
<1>4. ASSUME NEW t \in Tabelas, NEW i \in Ids, NEW d \in Patches[t], AtualizarFind(r, t, i, d)
      PROVE  Nada
  BY <1>4, Goes, Answers DEF AtualizarFind
<1>5. ASSUME AtualizarConfere(r) PROVE Nada
  BY <1>5, Goes, Answers DEF AtualizarConfere
<1>6. ASSUME AtualizarGrava(r) PROVE Nada
  BY <1>6, Ends, Answers DEF AtualizarGrava, Termina
<1>7. ASSUME NEW t \in Tabelas, NEW i \in Ids, DeletarFind(r, t, i) PROVE Nada
  BY <1>7, Goes, Answers DEF DeletarFind
<1>8. ASSUME DeletarGrava(r) PROVE Nada
  BY <1>8, Ends DEF DeletarGrava, Termina
<1>9. ASSUME NEW p \in Ids, NEW q \in Ids, DesassociarFind(r, p, q) PROVE Nada
  BY <1>9, Goes, Answers DEF DesassociarFind
<1>10. ASSUME Falha(r) PROVE Nada
  BY <1>10, Ends DEF Falha
<1>11. CASE AssociarConfere(r) /\ extintas' = extintas
  BY <1>11, Goes, Answers DEF AssociarConfere
<1>12. CASE SetLe(r) /\ extintas' = extintas
  BY <1>12, Goes DEF SetLe
<1>13. CASE SetGrava(r) \/ DesassociarGrava(r)
  BY <1>13, Ends DEF SetGrava, DesassociarGrava
<1>14. ASSUME NEW p \in Ids, NEW l \in Listas, AssociarFind(r, p, l)
       PROVE  /\ pc'[r] \in {"permissoes", "done"} /\ rows' = rows /\ concede' = concede
              /\ pc'[r] = "done" => req'[r] = None
              /\ extintas'[r] = {q \in Ids : Existe("permissoes", q) /\ ~Visivel("permissoes", q)}
  BY <1>14, Goes, Answers DEF AssociarFind, TypeOK
<1> QED
  BY <1>1, <1>2, <1>3, <1>4, <1>5, <1>6, <1>7, <1>8, <1>9, <1>10, <1>11, <1>12, <1>13, <1>14
     DEF Etapa, Passo

\* A request that has been answered keeps what the properties say of it.
LEMMA AnsweredStays ==
  ASSUME TypeOK, NEW r \in Requests, Etapa(r), NEW s \in Requests \ {r}
  PROVE  /\ Pedidas(s)' = Pedidas(s) /\ extintas'[s] = extintas[s]
         /\ \A p : Associou(s, p)' <=> Associou(s, p)
         /\ \A p, q : Desassociou(s, p, q)' <=> Desassociou(s, p, q)
BY OneMoves DEF Outras, Associou, Desassociou, Pedidas

\* A list as long as what is found of it is found whole.
LEMMA AllFound ==
  ASSUME NEW l \in Seq(Ids), Cardinality(Encontradas(l)) = Len(l)
  PROVE  \A k \in DOMAIN l : l[k] \in Encontradas(l)
<1> DEFINE R == {l[k] : k \in DOMAIN l}
<1>1. DOMAIN l = 1..Len(l) /\ Len(l) \in Nat
  OBVIOUS
<1>2. IsFiniteSet(1..Len(l)) /\ Cardinality(1..Len(l)) = Len(l)
  <2>1. PICK n \in Nat : n = Len(l)
    BY <1>1
  <2>2. 1 \in Int /\ n \in Int
    OBVIOUS
  <2>3. IsFiniteSet(1..n) /\ Cardinality(1..n) = IF 1 > n THEN 0 ELSE n - 1 + 1
    BY <2>2, FS_Interval, Zenon
  <2> QED
    BY <2>1, <2>3
<1>3. l \in Surjection(1..Len(l), R)
  <2>1. l \in [1..Len(l) -> R]
    BY <1>1
  <2> QED
    BY <1>1, <2>1 DEF Surjection
<1>4. IsFiniteSet(R) /\ Cardinality(R) <= Len(l)
  BY <1>2, <1>3, FS_Surjection
<1>5. Encontradas(l) \in SUBSET R
  BY DEF Encontradas
<1>6. Cardinality(R) \in Nat
  BY <1>4, FS_CardinalityType
<1>7. Encontradas(l) = R
  BY <1>1, <1>4, <1>5, <1>6, FS_Subset
<1> QED
  BY <1>7

\* What a request about permissions asks, before and after its answer.
LEMMA Asked ==
  ASSUME RequestInv, NEW r \in Requests,
         \/ pc[r] \in {"permissoes", "set", "diff", "disconnect"}
         \/ pc[r] = "done" /\ req[r] # None
  PROVE  /\ req[r].dados.permissoes \in Seq(Ids) /\ Pedidas(r) \subseteq Ids
         /\ req[r].id \in Ids /\ Existe("perfis", req[r].id)
<1>1. req[r] \in PedidoDePermissoes /\ Existe("perfis", req[r].id)
  BY DEF RequestInv, RequestOK
<1>2. req[r].id \in Ids /\ req[r].dados.permissoes \in Seq(Ids)
  BY <1>1 DEF PedidoDePermissoes
<1> QED
  BY <1>1, <1>2 DEF Pedidas

\* Every step keeps ExtinctInv: deleted permissions stay deleted, and a list
\* passes the lookup only when all of it is visible (AllFound).
LEMMA ExtinctStep ==
  ASSUME TypeOK, RequestInv, KeysInv, ExtinctInv, NEW r \in Requests, Etapa(r)
  PROVE  ExtinctInv'
<1>1. ASSUME NEW s \in Requests \ {r} PROVE ExtinctOK(s)'
  <2>1. /\ pc'[s] = pc[s] /\ Pedidas(s)' = Pedidas(s) /\ extintas'[s] = extintas[s]
        /\ extintas[s] \subseteq Ids
    BY OneMoves, AnsweredStays DEF Outras, TypeOK
  <2>2. pc[s] \in {"set", "diff"} => Pedidas(s) \subseteq Ids
    BY Asked
  <2>3. \A q \in Ids : Existe("permissoes", q) =>
          Existe("permissoes", q)' /\ (~Visivel("permissoes", q) => ~Visivel("permissoes", q)')
    BY Writes, RowsStay DEF Tabelas
  <2> QED
    BY <2>1, <2>2, <2>3 DEF ExtinctInv, ExtinctOK, Existe, Visivel
<1>2. ExtinctOK(r)'
  <2>1. CASE pc'[r] = "permissoes"
    BY <2>1, ComesFrom DEF ExtinctOK, Existe, Visivel
  <2>2. CASE pc'[r] = "set"
    <3>1. AssociarConfere(r) /\ extintas' = extintas
      BY <2>2, ComesFrom
    <3>2. /\ pc[r] = "permissoes" /\ req'[r] = req[r] /\ rows' = rows
          /\ Cardinality(Encontradas(req[r].dados.permissoes)) = Len(req[r].dados.permissoes)
      BY <2>2, <3>1, Goes, Answers DEF AssociarConfere
    <3>3. req[r].dados.permissoes \in Seq(Ids)
      BY <3>2, Asked
    <3>4. \A q \in Pedidas(r) : Visivel("permissoes", q)
      BY <3>2, <3>3, AllFound DEF Pedidas, Encontradas
    <3>5. \A q \in Pedidas(r) : Existe("permissoes", q) /\ q \notin extintas[r]
      BY <3>2, <3>4 DEF ExtinctInv, ExtinctOK, Visivel
    <3> QED
      BY <2>2, <3>1, <3>2, <3>5 DEF ExtinctOK, Pedidas, Existe
  <2>3. CASE pc'[r] = "diff"
    <3>1. /\ extintas' = extintas /\ pc[r] = "set" /\ req'[r] = req[r] /\ rows' = rows
      BY <2>3, ComesFrom, Goes DEF SetLe
    <3> QED
      BY <2>3, <3>1 DEF ExtinctInv, ExtinctOK, Pedidas, Existe
  <2> QED
    BY <2>1, <2>2, <2>3 DEF ExtinctOK
<1> QED
  BY <1>1, <1>2 DEF ExtinctInv

\* Every step keeps NoExtinctGrant.
LEMMA NoExtinctStep ==
  ASSUME TypeOK, ExtinctInv, NoExtinctGrant, NEW r \in Requests, Etapa(r)
  PROVE  NoExtinctGrant'
<1> SUFFICES ASSUME NEW s \in Requests, NEW p \in Ids, Associou(s, p)'
             PROVE  Pedidas(s)' \cap extintas'[s] = {}
  BY DEF NoExtinctGrant
<1>1. CASE s # r
  BY <1>1, AnsweredStays DEF NoExtinctGrant
<1>2. CASE s = r
  <2>1. SetGrava(r) \/ DesassociarGrava(r)
    BY <1>2, ComesFrom DEF Associou
  <2>2. CASE SetGrava(r)
    <3>1. pc[r] = "diff" /\ req'[r] = req[r] /\ extintas' = extintas
      <4>1. pc[r] = "diff" /\ req'[r] = req[r]
        BY <2>2, Ends DEF SetGrava
      <4> QED
        BY <4>1 DEF Etapa, Passo, AssociarFind
    <3> QED
      BY <1>2, <3>1 DEF ExtinctInv, ExtinctOK, Pedidas
  <2>3. CASE DesassociarGrava(r)
    BY <1>2, <2>3, Ends DEF DesassociarGrava, Associou
  <2> QED
    BY <2>1, <2>2, <2>3
<1> QED
  BY <1>1, <1>2

\* Every step keeps the foreign keys of what profiles grant.
LEMMA GrantTypes ==
  ASSUME TypeOK, RequestInv, KeysInv, ExtinctInv, NEW r \in Requests, Etapa(r)
  PROVE  /\ concede' \in [Ids -> SUBSET Ids]
         /\ \A p \in Ids : concede'[p] # {} => Existe("perfis", p)'
         /\ \A p, q \in Ids : q \in concede'[p] => Existe("permissoes", q)'
<1>1. \A p \in Ids : Existe("perfis", p) => Existe("perfis", p)'
  BY Writes, RowsStay DEF Tabelas
<1>2. \A q \in Ids : Existe("permissoes", q) => Existe("permissoes", q)'
  BY Writes, RowsStay DEF Tabelas
<1>3. CASE concede' = concede
  BY <1>1, <1>2, <1>3 DEF TypeOK
<1>4. CASE SetGrava(r)
  <2> DEFINE p == req[r].id
  <2>1. /\ p \in Ids /\ Existe("perfis", p) /\ Pedidas(r) \subseteq Ids
        /\ \A q \in Pedidas(r) : Existe("permissoes", q)
    BY <1>4, Asked DEF SetGrava, ExtinctInv, ExtinctOK
  <2>2. concede' = [concede EXCEPT ![p] = (@ \ (lido[r] \ Pedidas(r))) \cup (Pedidas(r) \ lido[r])]
    BY <1>4 DEF SetGrava
  <2> HIDE DEF p
  <2>3. concede' \in [Ids -> SUBSET Ids]
    BY <2>1, <2>2 DEF TypeOK
  <2>4. ASSUME NEW o \in Ids, NEW q \in concede'[o]
        PROVE  (o = p /\ q \in Pedidas(r)) \/ q \in concede[o]
    BY <2>1, <2>2, <2>4 DEF TypeOK
  <2>5. ASSUME NEW o \in Ids, concede'[o] # {} PROVE Existe("perfis", o)'
    <3>1. o = p \/ concede[o] # {}
      BY <2>4, <2>5
    <3> QED
      BY <1>1, <2>1, <3>1 DEF TypeOK
  <2>6. ASSUME NEW o \in Ids, NEW q \in Ids, q \in concede'[o] PROVE Existe("permissoes", q)'
    BY <1>2, <2>1, <2>4, <2>6 DEF TypeOK
  <2> QED
    BY <2>3, <2>5, <2>6
<1>5. CASE DesassociarGrava(r)
  <2>1. \A o \in Ids : concede'[o] \subseteq concede[o]
    BY <1>5 DEF DesassociarGrava, TypeOK
  <2>2. concede' \in [Ids -> SUBSET Ids]
    <3>1. concede' = [o \in Ids |-> concede'[o]]
      BY <1>5 DEF DesassociarGrava, TypeOK
    <3>2. \A o \in Ids : concede[o] \subseteq Ids
      BY DEF TypeOK
    <3> QED
      BY <2>1, <3>1, <3>2
  <2> QED
    BY <1>1, <1>2, <2>1, <2>2 DEF TypeOK
<1> QED
  BY <1>3, <1>4, <1>5, ComesFrom

\* Every step keeps TypeOK.
LEMMA TypeStep ==
  ASSUME TypeOK, RequestInv, KeysInv, ExtinctInv, NEW r \in Requests, Etapa(r)
  PROVE  TypeOK'
<1>1. DOMAIN rows' = Tabelas /\ \A t \in Tabelas : rows'[t] \in [Ids -> Row[t] \cup {None}]
  BY Writes, Written DEF UmaEscrita, TypeOK
<1>2. /\ pc' \in [Requests -> Etapas] /\ answer' \in [Requests -> Respostas]
      /\ DOMAIN lido' = Requests
  <2>1. PICK e \in Etapas, a \in Respostas :
          pc' = [pc EXCEPT ![r] = e] /\ (answer' = [answer EXCEPT ![r] = a] \/ answer' = answer)
    BY Passes DEF Passou
  <2>2. PICK l : lido' = [lido EXCEPT ![r] = l]
    BY Passes DEF Passou
  <2>3. pc \in [Requests -> Etapas] /\ answer \in [Requests -> Respostas]
    BY DEF TypeOK, Etapas, Respostas
  <2> QED
    BY <2>1, <2>2, <2>3 DEF TypeOK
<1>3. req' \in [Requests -> Pedido \cup {None}]
  <2>1. PICK q : req' = [req EXCEPT ![r] = q]
    BY Passes DEF Passou
  <2>2. q \in Pedido \cup {None}
    BY <2>1, RequestStep DEF TypeOK
  <2> QED
    BY <2>1, <2>2 DEF TypeOK
<1>4. extintas' \in [Requests -> SUBSET Ids]
  <2>1. CASE extintas' = extintas
    BY <2>1 DEF TypeOK
  <2>2. CASE \E S \in SUBSET Ids : extintas' = [extintas EXCEPT ![r] = S]
    BY <2>2 DEF TypeOK
  <2> QED
    BY <2>1, <2>2 DEF Etapa, AssociarFind
<1> QED
  BY <1>1, <1>2, <1>3, <1>4, GrantTypes DEF TypeOK, Etapas, Respostas

\* Every step keeps LidoInv: what `set` reads is granted, and what is granted
\* was asked for by a request that has been answered (GrantsAccounted).
LEMMA LidoStep ==
  ASSUME TypeOK, RequestInv, LidoInv, GrantsAccounted, NEW r \in Requests, Etapa(r)
  PROVE  LidoInv'
<1> SUFFICES ASSUME NEW s \in Requests, pc'[s] = "diff", lido'[s] # {}
             PROVE  \E o \in Requests : Associou(o, req[s].id)'
  BY DEF LidoInv
<1>1. PICK p : p = req'[s].id
  OBVIOUS
<1>2. \E o \in Requests : Associou(o, p)
  <2>1. CASE s # r
    BY <1>1, <2>1, OneMoves DEF Outras, LidoInv
  <2>2. CASE s = r
    <3>1. pc[r] = "set" /\ req'[r] = req[r] /\ lido'[r] = concede[req[r].id]
      BY <2>2, ComesFrom, Goes DEF SetLe
    <3>2. p \in Ids /\ concede[p] \subseteq Ids
      BY <1>1, <2>2, <3>1, Asked DEF TypeOK
    <3>3. PICK q \in Ids : q \in concede[p]
      BY <1>1, <2>2, <3>1, <3>2
    <3> QED
      BY <3>2, <3>3 DEF GrantsAccounted
  <2> QED
    BY <2>1, <2>2
<1>3. \E o \in Requests : Associou(o, p)'
  <2>1. PICK o \in Requests : Associou(o, p)
    BY <1>2
  <2>2. o \in Requests \ {r}
    BY <2>1, OneMoves DEF Associou
  <2> QED
    BY <2>1, <2>2, AnsweredStays
<1> QED
  BY <1>1, <1>3 DEF Associou

\* A SetGrava: of the permissions asked for, the new ones are connected and
\* those that were connected before stay as they are.
LEMMA SetEffect ==
  ASSUME TypeOK, RequestInv, NEW r \in Requests, SetGrava(r), NEW p \in Ids, p = req[r].id
  PROVE  /\ pc[r] = "diff"
         /\ Associou(r, p)' /\ Pedidas(r)' = Pedidas(r)
         /\ \A o \in Ids \ {p} : concede'[o] = concede[o] /\ ~Associou(r, o)'
         /\ \A q \in Ids :
              q \in concede'[p] <=> \/ q \in concede[p] /\ q \notin lido[r]
                                    \/ q \in concede[p] /\ q \in Pedidas(r)
                                    \/ q \in Pedidas(r) /\ q \notin lido[r]
         /\ \A o, q : ~Desassociou(r, o, q)'
<1>1. /\ pc[r] = "diff" /\ pc'[r] = "done" /\ answer'[r] = 200 /\ req'[r] = req[r]
  BY Ends DEF SetGrava
<1>2. req[r] \in PedidoDePermissoes
  BY <1>1 DEF RequestInv, RequestOK
<1>3. req[r] # None
  BY <1>2, PermissionAsk
<1>4. concede' = [concede EXCEPT ![p] = (@ \ (lido[r] \ Pedidas(r))) \cup (Pedidas(r) \ lido[r])]
  BY DEF SetGrava
<1>5. /\ \A o \in Ids \ {p} : concede'[o] = concede[o]
      /\ concede'[p] = (concede[p] \ (lido[r] \ Pedidas(r))) \cup (Pedidas(r) \ lido[r])
  BY <1>2, <1>4 DEF TypeOK
<1>6. /\ Associou(r, p)' /\ \A o \in Ids \ {p} : ~Associou(r, o)'
      /\ \A o, q : ~Desassociou(r, o, q)'
  BY <1>1, <1>3 DEF Associou, Desassociou
<1>7. Pedidas(r)' = Pedidas(r)
  BY <1>1 DEF Pedidas
<1> QED
  BY <1>1, <1>2, <1>5, <1>6, <1>7

\* Every step keeps GrantsAccounted.  The case that matters is the write of a
\* `set` whose read is old: what it read and does not connect again was given by
\* an association that has been answered (LidoInv), so it is granted still.
LEMMA GrantsStep ==
  ASSUME TypeOK, RequestInv, LidoInv, GrantsAccounted, NEW r \in Requests, Etapa(r)
  PROVE  GrantsAccounted'
<1> DEFINE Given(p, q) == q \in concede[p] => \E s \in Requests : Associou(s, p) /\ q \in Pedidas(s)
           Kept(p, q) ==
             /\ \E s \in Requests : Associou(s, p)
             /\ \A s \in Requests : Associou(s, p) => q \in Pedidas(s)
             /\ ~\E s \in Requests : Desassociou(s, p, q)
             => q \in concede[p]
<1> SUFFICES ASSUME NEW p \in Ids, NEW q \in Ids
             PROVE  Given(p, q)' /\ Kept(p, q)'
  BY DEF GrantsAccounted
<1>1. Given(p, q) /\ Kept(p, q)
  BY DEF GrantsAccounted
<1>2. \A s \in Requests \ {r} :
        /\ Associou(s, p)' <=> Associou(s, p)
        /\ Desassociou(s, p, q)' <=> Desassociou(s, p, q)
        /\ Pedidas(s)' = Pedidas(s)
  BY AnsweredStays
<1>3. ~Associou(r, p) /\ ~Desassociou(r, p, q)
  BY OneMoves DEF Associou, Desassociou
<1>4. CASE SetGrava(r) /\ req[r].id = p
  <2>1. /\ Associou(r, p)' /\ Pedidas(r)' = Pedidas(r) /\ ~Desassociou(r, p, q)'
        /\ q \in concede'[p] <=> \/ q \in concede[p] /\ q \notin lido[r]
                                 \/ q \in concede[p] /\ q \in Pedidas(r)
                                 \/ q \in Pedidas(r) /\ q \notin lido[r]
        /\ pc[r] = "diff"
    BY <1>4, SetEffect
  <2>2. q \in lido[r] => \E s \in Requests : Associou(s, p)
    BY <1>4, <2>1 DEF LidoInv
  <2>3. Given(p, q)'
    BY <1>1, <1>2, <1>3, <2>1
  <2>4. Kept(p, q)'
    BY <1>1, <1>2, <1>3, <2>1, <2>2
  <2> QED
    BY <2>3, <2>4
<1>5. CASE SetGrava(r) /\ req[r].id # p
  <2>1. concede'[p] = concede[p] /\ ~Associou(r, p)' /\ ~Desassociou(r, p, q)'
    <3>1. PICK o \in Ids : o = req[r].id
      BY <1>5, Asked DEF SetGrava
    <3> QED
      BY <1>5, <3>1, SetEffect
  <2> QED
    BY <1>1, <1>2, <1>3, <2>1
<1>6. CASE DesassociarGrava(r)
  <2>1. /\ ~Associou(r, p)'
        /\ q \in concede'[p] => q \in concede[p]
        /\ q \in concede[p] /\ q \notin concede'[p] => Desassociou(r, p, q)'
    <3>1. /\ pc[r] = "disconnect" /\ pc'[r] = "done" /\ answer'[r] = 204 /\ req'[r] = req[r]
      BY <1>6, Ends DEF DesassociarGrava
    <3>2. req[r].id \in Ids /\ req[r] # None
      BY <3>1, PermissionAsk DEF RequestInv, RequestOK, PedidoDePermissoes
    <3>3. concede'[p] = IF p = req[r].id THEN concede[p] \ Pedidas(r) ELSE concede[p]
      <4>1. concede' = [concede EXCEPT ![req[r].id] = @ \ Pedidas(r)]
        BY <1>6 DEF DesassociarGrava
      <4>2. p \in DOMAIN concede
        BY DEF TypeOK
      <4> QED
        BY <4>1, <4>2
    <3>4. Pedidas(r)' = Pedidas(r)
      BY <3>1 DEF Pedidas
    <3> QED
      BY <3>1, <3>2, <3>3, <3>4 DEF Associou, Desassociou
  <2> QED
    BY <1>1, <1>2, <1>3, <2>1
<1>7. CASE ~(SetGrava(r) \/ DesassociarGrava(r))
  <2>1. concede' = concede /\ ~Associou(r, p)' /\ ~Desassociou(r, p, q)'
    BY <1>7, ComesFrom DEF Associou, Desassociou
  <2> QED
    BY <1>1, <1>2, <1>3, <2>1
<1> QED
  BY <1>4, <1>5, <1>6, <1>7

-------------------------------------------------------------------------------
(* The invariant.                                                          *)

\* The tables of the seed satisfy the invariant.
LEMMA InitInv == Init => IInv
<1> SUFFICES ASSUME Init PROVE IInv
  OBVIOUS
<1>1. PICK i \in Ids, e \in Enderecos, n \in Nomes, k \in Nomes :
        rows = [users |-> [j \in Ids |-> IF j # i THEN None ELSE
                  [dados |-> [email |-> Canonico[e], perfilId |-> i], deleted |-> FALSE]],
                perfis |-> [j \in Ids |-> IF j # i THEN None ELSE
                  [dados |-> [nome |-> n], deleted |-> FALSE]],
                permissoes |-> [j \in Ids |-> IF j # i THEN None ELSE
                  [dados |-> [nome |-> n, chave |-> k], deleted |-> FALSE]]]
  BY DEF Init
<1> DEFINE u == [dados |-> [email |-> Canonico[e], perfilId |-> i], deleted |-> FALSE]
           p == [dados |-> [nome |-> n], deleted |-> FALSE]
           q == [dados |-> [nome |-> n, chave |-> k], deleted |-> FALSE]
<1>2. u \in Row["users"] /\ p \in Row["perfis"] /\ q \in Row["permissoes"]
  <2>1. Canonico[e] \in Enderecos
    BY CanonicoAssumption
  <2>2. u \in Row["users"]
    BY <2>1 DEF Row, Tabelas, Colunas, Unicas, Valores
  <2>3. p \in Row["perfis"]
    BY DEF Row, Tabelas, Colunas, Unicas, Valores
  <2>4. q \in Row["permissoes"]
    BY DEF Row, Tabelas, Colunas, Unicas, Valores
  <2> QED
    BY <2>2, <2>3, <2>4
<1> HIDE DEF u, p, q
<1>3. /\ DOMAIN rows = Tabelas
      /\ rows["users"] = [j \in Ids |-> IF j # i THEN None ELSE u]
      /\ rows["perfis"] = [j \in Ids |-> IF j # i THEN None ELSE p]
      /\ rows["permissoes"] = [j \in Ids |-> IF j # i THEN None ELSE q]
  BY <1>1 DEF Tabelas, u, p, q
<1>4. /\ concede = [o \in Ids |-> {}] /\ pc = [r \in Requests |-> "idle"]
      /\ req = [r \in Requests |-> None] /\ lido = [r \in Requests |-> None]
      /\ answer = [r \in Requests |-> 0] /\ extintas = [r \in Requests |-> {}]
  BY DEF Init
<1>5. TypeOK
  <2>1. \A t \in Tabelas : rows[t] \in [Ids -> Row[t] \cup {None}]
    BY <1>2, <1>3 DEF Tabelas
  <2> QED
    BY <1>3, <1>4, <2>1 DEF TypeOK
<1>6. KeysInv
  <2>1. \A t \in Tabelas, j \in Ids : Existe(t, j) => j = i
    BY <1>3 DEF Tabelas, Existe
  <2>2. \A j \in Ids : Existe("users", j) => Canonica("users", rows["users"][j].dados)
    <3>1. Canonica("users", u.dados)
      BY CanonicoAssumption DEF Canonica, u
    <3>2. \A j \in Ids : Existe("users", j) => rows["users"][j] = u
      BY <1>3 DEF Existe
    <3> QED
      BY <3>1, <3>2
  <2>3. \A t \in Tabelas, j \in Ids : Existe(t, j) => Canonica(t, rows[t][j].dados)
    BY <2>2 DEF Canonica
  <2> QED
    BY <2>1, <2>3 DEF KeysInv
<1>7. RequestInv /\ ExtinctInv /\ LidoInv
  BY <1>4 DEF RequestInv, RequestOK, ExtinctInv, ExtinctOK, LidoInv
<1>8. NoExtinctGrant /\ GrantsAccounted
  BY <1>4 DEF NoExtinctGrant, GrantsAccounted, Associou
<1> QED
  BY <1>5, <1>6, <1>7, <1>8 DEF IInv

\* Every step keeps it.
LEMMA StepInv == IInv /\ [Next]_vars => IInv'
<1> SUFFICES ASSUME IInv, [Next]_vars PROVE IInv'
  OBVIOUS
<1>1. CASE UNCHANGED vars
  <2> USE <1>1 DEF vars, IInv, Existe, Visivel, Valor, Pedidas, Associou, Desassociou
  <2>1. TypeOK'
    BY DEF TypeOK
  <2>2. RequestInv'
    BY DEF RequestInv, RequestOK
  <2>3. KeysInv'
    BY DEF KeysInv
  <2>4. ExtinctInv'
    BY DEF ExtinctInv, ExtinctOK
  <2>5. LidoInv'
    BY DEF LidoInv
  <2>6. NoExtinctGrant' /\ GrantsAccounted'
    BY DEF NoExtinctGrant, GrantsAccounted
  <2> QED
    BY <2>1, <2>2, <2>3, <2>4, <2>5, <2>6
<1>2. CASE Next
  <2>1. PICK r \in Requests : Etapa(r)
    BY <1>2 DEF Next, Etapa
  <2> QED
    BY <2>1, TypeStep, RequestStep, Writes, KeysStep, ExtinctStep, LidoStep, NoExtinctStep,
       GrantsStep
       DEF IInv
<1> QED
  BY <1>1, <1>2

\* The invariant holds in every reachable state.
THEOREM Invariance == Spec => []IInv
<1>1. Init => IInv
  BY InitInv
<1>2. IInv /\ [Next]_vars => IInv'
  BY StepInv
<1> QED
  BY <1>1, <1>2, PTL DEF Spec

\* Rows, grants and requests are what their types say, and profiles that grant
\* and permissions that are granted exist (the foreign keys of
\* _PerfilToPermissao).
THEOREM TypeCorrect == Spec => []TypeOK
<1>1. IInv => TypeOK
  BY DEF IInv
<1> QED
  BY <1>1, Invariance, PTL

\* However it is written, an address belongs to one account, live or deleted,
\* whatever POSTs and PATCHes passed their lookups together.
THEOREM OneAccount == Spec => []OneAccountPerAddress
<1>1. IInv => OneAccountPerAddress
  <2> SUFFICES ASSUME IInv, NEW i \in Ids, NEW j \in Ids, Existe("users", i), Existe("users", j),
                      Canonico[Valor("users", i, "email")] = Canonico[Valor("users", j, "email")]
               PROVE  i = j
    BY DEF OneAccountPerAddress
  <2>1. ASSUME NEW k \in Ids, Existe("users", k)
        PROVE  Canonico[Valor("users", k, "email")] = Valor("users", k, "email")
    <3>1. rows["users"][k] \in Row["users"]
      BY <2>1 DEF IInv, TypeOK, Existe, Tabelas
    <3>2. "email" \in DOMAIN rows["users"][k].dados
      BY <3>1, RowIs DEF Tabelas, Colunas
    <3> QED
      BY <2>1, <3>2 DEF IInv, KeysInv, Tabelas, Canonica, Valor
  <2>2. Valor("users", i, "email") = Valor("users", j, "email")
    BY <2>1
  <2> QED
    BY <2>2 DEF IInv, KeysInv, Tabelas, Unicas
<1> QED
  BY <1>1, Invariance, PTL

\* Associations of a profile that race may leave a mixture, but nothing that
\* none of them asked for, and not without what all of them asked for.
THEOREM GrantsExplained == Spec => []GrantsAccounted
<1>1. IInv => GrantsAccounted
  BY DEF IInv
<1> QED
  BY <1>1, Invariance, PTL

\* No association gives a profile a permission that had been deleted when it
\* came.
THEOREM NothingExtinctGranted == Spec => []NoExtinctGrant
<1>1. IInv => NoExtinctGrant
  BY DEF IInv
<1> QED
  BY <1>1, Invariance, PTL

-------------------------------------------------------------------------------
(* Answers.                                                                *)

\* What CollisionsAre409 says of request r: it ends with 500 only for a profile
\* that may not exist.
Colisao409(r) ==
  pc[r] # "done" /\ pc'[r] = "done" /\ answer'[r] = 500 =>
    req[r].tab = "users" /\ "perfilId" \in DOMAIN req[r].dados

\* A write that is rejected but for no unique index names a profile.
LEMMA NotAKey ==
  ASSUME NEW t \in Tabelas, NEW d \in Patches[t], NEW i, Rejeitado(t, i, d),
         StatusDoErro(t, i, d) = 500
  PROVE  t = "users" /\ "perfilId" \in DOMAIN d
<1>1. "perfilId" \in DOMAIN d
  BY DEF Rejeitado, StatusDoErro, ViolaPerfil
<1>2. "perfilId" \in Colunas[t]
  BY <1>1, PatchIs
<1> QED
  BY <1>1, <1>2 DEF Colunas, Tabelas

\* No step answers 500 for a collision.
LEMMA CollisionStep ==
  ASSUME TypeOK, RequestInv, NEW r \in Requests, Etapa(r), NEW s \in Requests
  PROVE  Colisao409(s)
<1>1. CASE s # r
  BY <1>1, OneMoves DEF Outras, Colisao409
<1>2. CASE s = r
  <2>1. ASSUME CriarInsere(r) PROVE Colisao409(r)
    <3>1. req[r].tab \in Tabelas /\ req[r].dados \in Patches[req[r].tab]
      <4>1. req[r] # None /\ req[r].dados \in Novos[req[r].tab]
        BY <2>1 DEF CriarInsere, RequestInv, RequestOK
      <4>2. req[r].tab \in Tabelas
        BY <4>1, AskedRows
      <4> QED
        BY <4>1, <4>2 DEF Novos
    <3>2. PICK i \in Ids :
            \/ /\ Rejeitado(req[r].tab, i, req[r].dados)
               /\ Responde(r, StatusDoErro(req[r].tab, i, req[r].dados))
            \/ Termina(r, 201)
      BY <2>1 DEF CriarInsere
    <3> QED
      BY <3>1, <3>2, NotAKey, Answers, Ends DEF Termina, Colisao409
  <2>2. ASSUME AtualizarGrava(r) PROVE Colisao409(r)
    <3>1. req[r].tab \in Tabelas /\ req[r].dados \in Patches[req[r].tab]
      BY <2>2 DEF AtualizarGrava, RequestInv, RequestOK, TypeOK, Pedido
    <3>2. \/ /\ Rejeitado(req[r].tab, req[r].id, req[r].dados)
             /\ Responde(r, StatusDoErro(req[r].tab, req[r].id, req[r].dados))
          \/ Termina(r, 200)
      BY <2>2 DEF AtualizarGrava
    <3> QED
      BY <3>1, <3>2, NotAKey, Answers, Ends DEF Termina, Colisao409
  <2>3. CASE ~CriarInsere(r) /\ ~AtualizarGrava(r)
    <3>1. ~(pc'[r] = "done" /\ answer'[r] = 500)
      <4> DEFINE Bem == ~(pc'[r] = "done" /\ answer'[r] = 500)
      <4>1. ASSUME NEW t \in Tabelas, NEW d \in Novos[t], CriarRecebe(r, t, d) PROVE Bem
        BY <4>1, Goes DEF CriarRecebe
      <4>2. ASSUME NEW c \in {"email", "nome", "chave"}, CriarProcura(r, c) PROVE Bem
        BY <4>2, Goes, Answers DEF CriarProcura
      <4>3. ASSUME NEW t \in Tabelas, NEW i \in Ids, NEW d \in Patches[t], AtualizarFind(r, t, i, d)
            PROVE  Bem
        BY <4>3, Goes, Answers DEF AtualizarFind
      <4>4. ASSUME AtualizarConfere(r) PROVE Bem
        BY <4>4, Goes, Answers DEF AtualizarConfere
      <4>5. ASSUME NEW t \in Tabelas, NEW i \in Ids, DeletarFind(r, t, i) PROVE Bem
        BY <4>5, Goes, Answers DEF DeletarFind
      <4>6. ASSUME DeletarGrava(r) PROVE Bem
        BY <4>6, Ends DEF DeletarGrava, Termina
      <4>7. ASSUME AssociarConfere(r) PROVE Bem
        BY <4>7, Goes, Answers DEF AssociarConfere
      <4>8. ASSUME SetLe(r) PROVE Bem
        BY <4>8, Goes DEF SetLe
      <4>9. ASSUME SetGrava(r) PROVE Bem
        BY <4>9, Ends DEF SetGrava
      <4>10. ASSUME NEW p \in Ids, NEW q \in Ids, DesassociarFind(r, p, q) PROVE Bem
        BY <4>10, Goes, Answers DEF DesassociarFind
      <4>11. ASSUME DesassociarGrava(r) PROVE Bem
        BY <4>11, Ends DEF DesassociarGrava
      <4>12. ASSUME Falha(r) PROVE Bem
        BY <4>12, Ends DEF Falha
      <4>13. ASSUME NEW p \in Ids, NEW l \in Listas, AssociarFind(r, p, l) PROVE Bem
        BY <4>13, Goes, Answers DEF AssociarFind
      <4> QED
        BY <2>3, <4>1, <4>2, <4>3, <4>4, <4>5, <4>6, <4>7, <4>8, <4>9, <4>10, <4>11, <4>12, <4>13
           DEF Etapa, Passo
    <3> QED
      BY <1>2, <3>1 DEF Colisao409
  <2> QED
    BY <1>2, <2>1, <2>2, <2>3
<1> QED
  BY <1>1, <1>2

\* Whichever of two requests wins a race for a unique value, the other is
\* answered 409 (handlePrismaError).
THEOREM CollisionsAnswered == Spec => CollisionsAre409
<1>1. IInv /\ [Next]_vars => [\A r \in Requests : Colisao409(r)]_vars
  <2> SUFFICES ASSUME IInv, Next PROVE \A r \in Requests : Colisao409(r)
    OBVIOUS
  <2>1. PICK r \in Requests : Etapa(r)
    BY DEF Next, Etapa
  <2> QED
    BY <2>1, CollisionStep DEF IInv
<1>2. CollisionsAre409 <=> [][\A r \in Requests : Colisao409(r)]_vars
  BY DEF CollisionsAre409, Colisao409
<1> QED
  BY <1>1, <1>2, Invariance, PTL DEF Spec

-------------------------------------------------------------------------------
(* The tables implement UniqueTable.                                       *)

\* The keys of the rows that exist.
LEMMA KeysOf ==
  ASSUME NEW t \in Tabelas
  PROVE  /\ DOMAIN Chaves(t) = Ids
         /\ Chaves(t) = [i \in Ids |-> Chaves(t)[i]]
         /\ \A i \in Ids : Existe(t, i) =>
              Chaves(t)[i] = ChavesDe(t, rows[t][i].dados) /\ Chaves(t)[i] # {}
         /\ \A i \in Ids : ~Existe(t, i) => Chaves(t)[i] = {}
BY Columns DEF Chaves, ChavesDe

\* The keys of a row are those of data that a POST may have sent.
LEMMA KeysOfRow ==
  ASSUME NEW t \in Tabelas, NEW row \in Row[t]
  PROVE  ChavesDe(t, row.dados) \in {ChavesDe(t, d) : d \in Novos[t]}
<1> DEFINE f == row.dados
           d == [c \in {c \in Colunas[t] : f[c] # None} |-> f[c]]
<1>1. /\ \A c \in Unicas[t] : f[c] \in Valores(c)
      /\ \A c \in Colunas[t] : f[c] \in Valores(c) \cup {None}
  BY RowIs
<1>2. /\ d = [c \in DOMAIN d |-> d[c]] /\ DOMAIN d \subseteq Colunas[t]
      /\ \A c \in DOMAIN d : d[c] = f[c] /\ f[c] # None
      /\ \A c \in Colunas[t] : f[c] # None => c \in DOMAIN d
  OBVIOUS
<1> HIDE DEF f, d
<1>3. d \in Patches[t]
  BY <1>1, <1>2, MakePatch
<1>4. \A c \in Unicas[t] : c \in DOMAIN d /\ d[c] = f[c]
  BY <1>1, <1>2, Columns
<1>5. d \in Novos[t] /\ ChavesDe(t, d) = ChavesDe(t, f)
  BY <1>3, <1>4 DEF Novos, ChavesDe
<1> QED
  BY <1>5 DEF f

\* In every step a table gives a row keys that are free, deletes a row, or
\* stays as it is.
LEMMA TableStep ==
  ASSUME TypeOK, rows' = rows \/ UmaEscrita, NEW t \in Tabelas
  PROVE  \/ Chaves(t)' = Chaves(t) /\ Apagadas(t)' = Apagadas(t)
         \/ \E i \in Ids : \E K \in {ChavesDe(t, d) : d \in Novos[t]} :
              /\ Chaves(t)[i] = {} => i \notin Apagadas(t)
              /\ \A j \in Ids \ {i} : K \cap Chaves(t)[j] = {}
              /\ Chaves(t)' = [Chaves(t) EXCEPT ![i] = K] /\ Apagadas(t)' = Apagadas(t)
         \/ \E i \in Ids :
              /\ Chaves(t)[i] # {}
              /\ Chaves(t)' = Chaves(t) /\ Apagadas(t)' = Apagadas(t) \cup {i}
<1>1. CASE rows' = rows
  BY <1>1 DEF Chaves, Apagadas, Existe
<1>2. ASSUME NEW s \in Tabelas, NEW i \in Ids, NEW row \in Row[s], Escreve(s, i, row), s # t
      PROVE  Chaves(t)' = Chaves(t) /\ Apagadas(t)' = Apagadas(t)
  <2>1. \A j \in Ids : rows'[t][j] = rows[t][j]
    BY <1>2, Written
  <2> QED
    BY <2>1 DEF Chaves, Apagadas, Existe
<1>3. ASSUME NEW i \in Ids, NEW row \in Row[t], Escreve(t, i, row)
      PROVE  \/ /\ Chaves(t)[i] = {} => i \notin Apagadas(t)
                /\ \A j \in Ids \ {i} : ChavesDe(t, row.dados) \cap Chaves(t)[j] = {}
                /\ Chaves(t)' = [Chaves(t) EXCEPT ![i] = ChavesDe(t, row.dados)]
                /\ Apagadas(t)' = Apagadas(t)
             \/ /\ Chaves(t)[i] # {}
                /\ Chaves(t)' = Chaves(t) /\ Apagadas(t)' = Apagadas(t) \cup {i}
  <2>1. /\ rows'[t][i] = row /\ row # None
        /\ \A j \in Ids \ {i} : rows'[t][j] = rows[t][j]
    BY <1>3, Written
  <2>2. \A j \in Ids \ {i} : ChavesDe(t, row.dados) \cap Chaves(t)[j] = {}
    <3> SUFFICES ASSUME NEW j \in Ids \ {i}, NEW x \in ChavesDe(t, row.dados), x \in Chaves(t)[j]
                 PROVE  FALSE
      OBVIOUS
    <3>1. Existe(t, j) /\ x \in ChavesDe(t, rows[t][j].dados)
      BY KeysOf
    <3>2. PICK c \in Unicas[t] : x = <<c, row.dados[c]>>
      BY DEF ChavesDe
    <3>3. PICK b \in Unicas[t] : x = <<b, rows[t][j].dados[b]>>
      BY <3>1 DEF ChavesDe
    <3>4. c = b /\ row.dados[c] = Valor(t, j, c)
      BY <3>2, <3>3 DEF Valor
    <3> QED
      BY <1>3, <3>1, <3>4 DEF Escreve, Livre
  <2>3. Chaves(t)' = [Chaves(t) EXCEPT ![i] = ChavesDe(t, row.dados)]
    BY <2>1 DEF Chaves, ChavesDe, Existe
  <2>4. Chaves(t)[i] = {} => i \notin Apagadas(t)
    BY KeysOf DEF Apagadas
  <2>5. CASE ~Existe(t, i) /\ ~row.deleted
    <3>1. Apagadas(t)' = Apagadas(t)
      BY <2>1, <2>5 DEF Apagadas, Existe
    <3> QED
      BY <2>2, <2>3, <2>4, <3>1
  <2>6. CASE Existe(t, i) /\ row.deleted = rows[t][i].deleted
    <3>1. Apagadas(t)' = Apagadas(t)
      BY <2>1, <2>6 DEF Apagadas, Existe
    <3> QED
      BY <2>2, <2>3, <2>4, <3>1
  <2>7. CASE Existe(t, i) /\ row.deleted /\ row.dados = rows[t][i].dados
    <3>1. Apagadas(t)' = Apagadas(t) \cup {i}
      BY <2>1, <2>7 DEF Apagadas, Existe
    <3>2. Chaves(t)' = Chaves(t)
      BY <2>3, <2>7, KeysOf
    <3> QED
      BY <2>7, <3>1, <3>2, KeysOf
  <2> QED
    BY <1>3, <2>5, <2>6, <2>7 DEF Escreve
<1>4. CASE UmaEscrita
  <2>1. PICK s \in Tabelas, i \in Ids : \E row \in Row[s] : Escreve(s, i, row)
    BY <1>4 DEF UmaEscrita
  <2>2. PICK row \in Row[s] : Escreve(s, i, row)
    BY <2>1
  <2>3. CASE s # t
    BY <1>2, <2>2, <2>3
  <2>4. CASE s = t
    BY <1>3, <2>2, <2>4, KeysOfRow
  <2> QED
    BY <2>3, <2>4
<1> QED
  BY <1>1, <1>4

\* The initial tables are initial ones of UniqueTable.
LEMMA InitTable ==
  ASSUME Init, NEW t \in Tabelas
  PROVE  /\ Chaves(t) \in [Ids -> {ChavesDe(t, d) : d \in Novos[t]} \cup {{}}]
         /\ \A i \in Ids : \A j \in Ids \ {i} : Chaves(t)[i] \cap Chaves(t)[j] = {}
         /\ Apagadas(t) = {}
<1>1. IInv
  BY InitInv
<1>2. PICK i \in Ids : \A j \in Ids : j # i => ~Existe(t, j)
  BY DEF Init, Existe, Tabelas
<1>3. \A j \in Ids : Existe(t, j) => ~rows[t][j].deleted
  BY DEF Init, Existe, Tabelas
<1>4. ASSUME NEW j \in Ids
      PROVE  Chaves(t)[j] \in {ChavesDe(t, d) : d \in Novos[t]} \cup {{}}
  <2>1. CASE Existe(t, j)
    <3>1. rows[t][j] \in Row[t]
      BY <1>1, <2>1 DEF IInv, TypeOK, Existe
    <3> QED
      BY <2>1, <3>1, KeysOf, KeysOfRow
  <2>2. CASE ~Existe(t, j)
    BY <2>2, KeysOf
  <2> QED
    BY <2>1, <2>2
<1>5. ASSUME NEW j \in Ids, NEW k \in Ids \ {j} PROVE Chaves(t)[j] \cap Chaves(t)[k] = {}
  <2>1. Chaves(t)[j] = {} \/ Chaves(t)[k] = {}
    BY <1>2, KeysOf
  <2> QED
    BY <2>1
<1>6. Apagadas(t) = {}
  BY <1>3 DEF Apagadas
<1>7. Chaves(t) \in [Ids -> {ChavesDe(t, d) : d \in Novos[t]} \cup {{}}]
  BY <1>4, KeysOf
<1> QED
  BY <1>5, <1>6, <1>7

\* Writes, of a step of the whole specification.
LEMMA RowsStep ==
  ASSUME IInv, Next
  PROVE  rows' = rows \/ UmaEscrita
<1>1. PICK r \in Requests : Etapa(r)
  BY DEF Next, Etapa
<1> QED
  BY <1>1, Writes DEF IInv

\* The same, of any step.
LEMMA TableNext ==
  ASSUME IInv, [Next]_vars, NEW t \in Tabelas
  PROVE  \/ UNCHANGED <<Chaves(t), Apagadas(t)>>
         \/ \E i \in Ids : \E K \in {ChavesDe(t, d) : d \in Novos[t]} :
              /\ Chaves(t)[i] = {} => i \notin Apagadas(t)
              /\ \A j \in Ids \ {i} : K \cap Chaves(t)[j] = {}
              /\ Chaves(t)' = [Chaves(t) EXCEPT ![i] = K] /\ Apagadas(t)' = Apagadas(t)
         \/ \E i \in Ids :
              /\ Chaves(t)[i] # {}
              /\ Chaves(t)' = Chaves(t) /\ Apagadas(t)' = Apagadas(t) \cup {i}
<1>1. CASE UNCHANGED vars
  BY <1>1 DEF vars, Chaves, Apagadas, Existe
<1>2. CASE Next
  BY <1>2, RowsStep, TableStep DEF IInv
<1> QED
  BY <1>1, <1>2

\* The users are a table whose addresses are unique for good and whose deletions
\* last: each step inserts a row, exchanges its address for a free one, deletes
\* it, or changes nothing that UniqueTable sees.
THEOREM UsersAreTable == Spec => Usuarios!Spec
<1>1. Init => Usuarios!Init
  BY InitTable DEF Tabelas, Usuarios!Init, Usuarios!Free
<1>2. IInv /\ [Next]_vars => [Usuarios!Next]_(Usuarios!vars)
  <2> SUFFICES ASSUME IInv, [Next]_vars PROVE [Usuarios!Next]_(Usuarios!vars)
    OBVIOUS
  <2> DEFINE t == "users"
  <2>1. t \in Tabelas
    BY DEF Tabelas
  <2> HIDE DEF t
  <2>2. \/ UNCHANGED <<Chaves(t), Apagadas(t)>>
        \/ \E i \in Ids : \E K \in {ChavesDe(t, d) : d \in Novos[t]} :
             /\ Chaves(t)[i] = {} => i \notin Apagadas(t)
             /\ \A j \in Ids \ {i} : K \cap Chaves(t)[j] = {}
             /\ Chaves(t)' = [Chaves(t) EXCEPT ![i] = K] /\ Apagadas(t)' = Apagadas(t)
        \/ \E i \in Ids :
             /\ Chaves(t)[i] # {}
             /\ Chaves(t)' = Chaves(t) /\ Apagadas(t)' = Apagadas(t) \cup {i}
    BY <2>1, TableNext
  <2> QED
    BY <2>2
       DEF t, Usuarios!Next, Usuarios!vars, Usuarios!Insert, Usuarios!Rekey, Usuarios!Delete,
           Usuarios!Exists, Usuarios!Free
<1> QED
  BY <1>1, <1>2, Invariance, PTL DEF Spec, Usuarios!Spec

\* The same of the profiles and their nome.
THEOREM ProfilesAreTable == Spec => Perfis!Spec
<1>1. Init => Perfis!Init
  BY InitTable DEF Tabelas, Perfis!Init, Perfis!Free
<1>2. IInv /\ [Next]_vars => [Perfis!Next]_(Perfis!vars)
  <2> SUFFICES ASSUME IInv, [Next]_vars PROVE [Perfis!Next]_(Perfis!vars)
    OBVIOUS
  <2> DEFINE t == "perfis"
  <2>1. t \in Tabelas
    BY DEF Tabelas
  <2> HIDE DEF t
  <2>2. \/ UNCHANGED <<Chaves(t), Apagadas(t)>>
        \/ \E i \in Ids : \E K \in {ChavesDe(t, d) : d \in Novos[t]} :
             /\ Chaves(t)[i] = {} => i \notin Apagadas(t)
             /\ \A j \in Ids \ {i} : K \cap Chaves(t)[j] = {}
             /\ Chaves(t)' = [Chaves(t) EXCEPT ![i] = K] /\ Apagadas(t)' = Apagadas(t)
        \/ \E i \in Ids :
             /\ Chaves(t)[i] # {}
             /\ Chaves(t)' = Chaves(t) /\ Apagadas(t)' = Apagadas(t) \cup {i}
    BY <2>1, TableNext
  <2> QED
    BY <2>2
       DEF t, Perfis!Next, Perfis!vars, Perfis!Insert, Perfis!Rekey, Perfis!Delete,
           Perfis!Exists, Perfis!Free
<1> QED
  BY <1>1, <1>2, Invariance, PTL DEF Spec, Perfis!Spec

\* The same of the permissions, whose nome and chave are both keys.
THEOREM PermissionsAreTable == Spec => Permissoes!Spec
<1>1. Init => Permissoes!Init
  BY InitTable DEF Tabelas, Permissoes!Init, Permissoes!Free
<1>2. IInv /\ [Next]_vars => [Permissoes!Next]_(Permissoes!vars)
  <2> SUFFICES ASSUME IInv, [Next]_vars PROVE [Permissoes!Next]_(Permissoes!vars)
    OBVIOUS
  <2> DEFINE t == "permissoes"
  <2>1. t \in Tabelas
    BY DEF Tabelas
  <2> HIDE DEF t
  <2>2. \/ UNCHANGED <<Chaves(t), Apagadas(t)>>
        \/ \E i \in Ids : \E K \in {ChavesDe(t, d) : d \in Novos[t]} :
             /\ Chaves(t)[i] = {} => i \notin Apagadas(t)
             /\ \A j \in Ids \ {i} : K \cap Chaves(t)[j] = {}
             /\ Chaves(t)' = [Chaves(t) EXCEPT ![i] = K] /\ Apagadas(t)' = Apagadas(t)
        \/ \E i \in Ids :
             /\ Chaves(t)[i] # {}
             /\ Chaves(t)' = Chaves(t) /\ Apagadas(t)' = Apagadas(t) \cup {i}
    BY <2>1, TableNext
  <2> QED
    BY <2>2
       DEF t, Permissoes!Next, Permissoes!vars, Permissoes!Insert, Permissoes!Rekey,
           Permissoes!Delete, Permissoes!Exists, Permissoes!Free
<1> QED
  BY <1>1, <1>2, Invariance, PTL DEF Spec, Permissoes!Spec

\* All three tables implement UniqueTable.
THEOREM TablesImplemented == Spec => ImplementsTables
BY UsersAreTable, ProfilesAreTable, PermissionsAreTable DEF ImplementsTables
===============================================================================
