-------------------------------- MODULE Cadastro --------------------------------
(***************************************************************************)
(* The administrators' records: users, profiles (perfis) and permissions   *)
(* (permissoes), and which permissions a profile grants.  Every POST,      *)
(* PATCH and DELETE of UsuariosController, PerfisController and            *)
(* PermissoesController is a request; each of its queries is a step, and   *)
(* other requests come in between.                                         *)
(*                                                                         *)
(* The three tables are used the same way: look for a collision, then      *)
(* write and let the UNIQUE index decide.  So the handlers are written     *)
(* once, for a table t, and the differences between the tables are in      *)
(* Colunas, Unicas, Colide and ColideAoAtualizar.  Columns that no decision *)
(* depends on (a user's nome and senha, descricao) are left out.           *)
(***************************************************************************)
EXTENDS Integers, Sequences, FiniteSets

CONSTANTS
  Ids,        \* row identifiers
  Enderecos,  \* e-mail addresses as a client may write them
  Canonico,   \* what toLowerCase().trim() makes of each
  Nomes,      \* values of nome and chave
  Requests,
  None

ASSUME CanonicoAssumption ==
  /\ Canonico \in [Enderecos -> Enderecos]
  /\ \A e \in Enderecos : Canonico[Canonico[e]] = Canonico[e]

ASSUME NoneAssumption == None \notin Ids \cup Enderecos \cup Nomes

VARIABLES
  rows,     \* rows[t][i]: the row of table t with identifier i, or None
  concede,  \* concede[p]: the permissions profile p grants (_PerfilToPermissao)
  pc,       \* where each request is
  req,      \* what it asks: its table, row and data
  lido,     \* what it has read and still needs
  answer,   \* HTTP status, 0 while there is none
  extintas  \* history: the permissions that had been deleted when an
            \* association arrived

vars == <<rows, concede, pc, req, lido, answer, extintas>>

Tabelas == {"users", "perfis", "permissoes"}

Colunas ==
  [users |-> {"email", "perfilId"}, perfis |-> {"nome"}, permissoes |-> {"nome", "chave"}]

\* The columns with a UNIQUE index, which covers deleted rows too.
Unicas == [users |-> {"email"}, perfis |-> {"nome"}, permissoes |-> {"nome", "chave"}]

Valores(c) ==
  CASE c = "email" -> Enderecos
    [] c = "perfilId" -> Ids
    [] OTHER -> Nomes

\* What a PATCH may send: any columns of the table.
Patches ==
  [t \in Tabelas |->
     UNION {{d \in [S -> Enderecos \cup Ids \cup Nomes] : \A c \in S : d[c] \in Valores(c)} :
              S \in SUBSET Colunas[t]}]

\* What a POST may send: all of them, but a user need not have a profile.
Novos == [t \in Tabelas |-> {d \in Patches[t] : Unicas[t] \subseteq DOMAIN d}]

\* A row: its columns, where one that is not unique may be NULL, and whether it
\* is soft-deleted.
Row ==
  [t \in Tabelas |->
     [dados : {f \in [Colunas[t] -> Enderecos \cup Ids \cup Nomes \cup {None}] :
                 /\ \A c \in Unicas[t] : f[c] \in Valores(c)
                 /\ \A c \in Colunas[t] : f[c] \in Valores(c) \cup {None}},
      deleted : BOOLEAN]]

\* What a request asks: a row of a table and what to do with it.
Pedido ==
  [tab : Tabelas, id : Ids \cup {None},
   dados : {<<>>} \cup [permissoes : Seq(Ids)] \cup (UNION {Patches[t] : t \in Tabelas})]

ASSUME RecordsAssumption == None \notin Pedido /\ \A t \in Tabelas : None \notin Row[t]

\* Data written over a row: a column that is not sent keeps its value.
Sobre(d, base) ==
  [c \in DOMAIN d \cup DOMAIN base |-> IF c \in DOMAIN d THEN d[c] ELSE base[c]]

Existe(t, i) == rows[t][i] # None

\* findById: soft-deleted rows are not found.
Visivel(t, i) == Existe(t, i) /\ ~rows[t][i].deleted

Valor(t, i, c) == rows[t][i].dados[c]

TypeOK ==
  /\ DOMAIN rows = Tabelas /\ DOMAIN lido = Requests
  /\ \A t \in Tabelas : rows[t] \in [Ids -> Row[t] \cup {None}]
  /\ concede \in [Ids -> SUBSET Ids]
  /\ \A p \in Ids : concede[p] # {} => Existe("perfis", p)
  /\ \A p, q \in Ids : q \in concede[p] => Existe("permissoes", q)
  /\ req \in [Requests -> Pedido \cup {None}]
  /\ pc \in [Requests -> {"idle", "procura", "insert", "confere", "update", "delete",
                          "permissoes", "set", "diff", "disconnect", "failed", "done"}]
  /\ answer \in [Requests -> {0, 200, 201, 204, 404, 409, 500}]
  /\ extintas \in [Requests -> SUBSET Ids]

\* The seed has run: there is a user with the administrators' profile; and a
\* permission has been created.
Init ==
  /\ \E i \in Ids, e \in Enderecos, n, k \in Nomes :
       rows = [users |-> [j \in Ids |-> IF j # i THEN None ELSE
                 [dados |-> [email |-> Canonico[e], perfilId |-> i], deleted |-> FALSE]],
               perfis |-> [j \in Ids |-> IF j # i THEN None ELSE
                 [dados |-> [nome |-> n], deleted |-> FALSE]],
               permissoes |-> [j \in Ids |-> IF j # i THEN None ELSE
                 [dados |-> [nome |-> n, chave |-> k], deleted |-> FALSE]]]
  /\ concede = [p \in Ids |-> {}]
  /\ pc = [r \in Requests |-> "idle"]
  /\ req = [r \in Requests |-> None]
  /\ lido = [r \in Requests |-> None]
  /\ answer = [r \in Requests |-> 0]
  /\ extintas = [r \in Requests |-> {}]

-------------------------------------------------------------------------------
(* Steps of a request.                                                     *)

Segue(r, etapa, q, l) ==
  /\ pc' = [pc EXCEPT ![r] = etapa]
  /\ req' = [req EXCEPT ![r] = q]
  /\ lido' = [lido EXCEPT ![r] = l]
  /\ UNCHANGED <<rows, concede, answer>>

Encerra(r, etapa, status, q) ==
  /\ pc' = [pc EXCEPT ![r] = etapa]
  /\ answer' = [answer EXCEPT ![r] = status]
  /\ req' = [req EXCEPT ![r] = q]
  /\ lido' = [lido EXCEPT ![r] = None]

\* The request ends and what it held is gone.
Termina(r, status) == Encerra(r, "done", status, None)

Responde(r, status) ==
  /\ Termina(r, status)
  /\ UNCHANGED <<rows, concede>>

\* Mutant: e-mails are stored as the client wrote them.
ComoEscrito(d) == d

\* A user's e-mail is stored as toLowerCase().trim() makes it.
Normalizado(d) == [c \in DOMAIN d |-> IF c = "email" THEN Canonico[d[c]] ELSE d[c]]

\* Mutant: restricted to the rows that are not deleted, as a partial index would.
ViolaParcial(t, i, d) ==
  \E j \in Ids \ {i}, c \in Unicas[t] \cap DOMAIN d : Visivel(t, j) /\ Valor(t, j, c) = d[c]

\* The UNIQUE indexes of table t reject data d for row i (P2002).
ViolaUnica(t, i, d) ==
  \E j \in Ids \ {i}, c \in Unicas[t] \cap DOMAIN d : Existe(t, j) /\ Valor(t, j, c) = d[c]

\* The foreign key users.perfilId rejects d (P2003): no such profile, not
\* even a deleted one.
ViolaPerfil(d) == "perfilId" \in DOMAIN d /\ ~Existe("perfis", d["perfilId"])

\* Mutant: the P2002 of a race reaches the global filter.
SemTraducao(t, i, d) == 500

\* handlePrismaError: P2002 becomes 409, anything else goes on as it is.
StatusDoErro(t, i, d) == IF ViolaUnica(t, i, d) THEN 409 ELSE 500

Rejeitado(t, i, d) == ViolaUnica(t, i, d) \/ ViolaPerfil(d)

(* POST *)

\* findByEmailIncludingDeleted, findByNome, findByNomeOrChave: the last two
\* skip deleted rows.
Colide(t, c, d) ==
  \E j \in Ids :
    /\ IF t = "users" THEN Existe(t, j) ELSE Visivel(t, j)
    /\ Valor(t, j, c) = d[c]

CriarRecebe(r, t, d) ==
  /\ pc[r] = "idle"
  /\ Segue(r, "procura", [tab |-> t, id |-> None, dados |-> Normalizado(d)], Unicas[t])

\* One lookup per unique column; criar-permissao runs its two in parallel.
CriarProcura(r, c) ==
  LET t == req[r].tab IN
  /\ pc[r] = "procura"
  /\ c \in lido[r]
  /\ \/ Colide(t, c, req[r].dados) /\ Responde(r, 409)
     \/ /\ ~Colide(t, c, req[r].dados)
        /\ Segue(r, IF lido[r] = {c} THEN "insert" ELSE "procura", req[r], lido[r] \ {c})

\* The INSERT, under a fresh identifier; a user without profile gets NULL.
CriarInsere(r) ==
  LET t == req[r].tab
      d == req[r].dados
  IN
  /\ pc[r] = "insert"
  /\ \E i \in Ids :
       /\ ~Existe(t, i)
       /\ \/ Rejeitado(t, i, d) /\ Responde(r, StatusDoErro(t, i, d))
          \/ /\ ~Rejeitado(t, i, d)
             /\ rows' = [rows EXCEPT ![t][i] =
                           [dados |-> Sobre(d, [c \in Colunas[t] |-> None]), deleted |-> FALSE]]
             /\ Termina(r, 201)
             /\ UNCHANGED concede

(* PATCH *)

\* Whether a second lookup is needed: a user whose e-mail changes, a profile
\* given a nome, a permission given a nome or a chave.
Confere(t, d, row) ==
  IF t = "users" THEN "email" \in DOMAIN d /\ d["email"] # row.dados["email"] ELSE DOMAIN d # {}

AtualizarFind(r, t, i, d) ==
  LET n == Normalizado(d) IN
  /\ pc[r] = "idle"
  /\ \/ ~Visivel(t, i) /\ Responde(r, 404)
     \/ /\ Visivel(t, i)
        /\ LET q == [tab |-> t, id |-> i, dados |-> n] IN
           IF Confere(t, n, rows[t][i])
           THEN Segue(r, "confere", q, rows[t][i].dados)
           ELSE Segue(r, "update", q, None)

\* The row the second lookup returns, one of those that match.  For a
\* permission it looks for the nome and the chave the row would have, so it may
\* return the row itself and hide another one.
Achado(t, i, d, velho) ==
  LET efetivo == Sobre(d, velho) IN
  {j \in Ids :
    CASE t = "users" -> Existe(t, j) /\ Valor(t, j, "email") = d["email"]
      [] t = "perfis" -> Visivel(t, j) /\ Valor(t, j, "nome") = d["nome"]
      [] OTHER -> Visivel(t, j) /\ \E c \in Unicas[t] : Valor(t, j, c) = efetivo[c]}

\* It is a collision: another row, holding a value the PATCH sends.
ColideAoAtualizar(t, i, j, d) ==
  j # i /\ \E c \in Unicas[t] \cap DOMAIN d : Valor(t, j, c) = d[c]

AtualizarConfere(r) ==
  LET t == req[r].tab
      i == req[r].id
      d == req[r].dados
      achados == Achado(t, i, d, lido[r])
  IN
  /\ pc[r] = "confere"
  /\ \/ \E j \in achados : ColideAoAtualizar(t, i, j, d) /\ Responde(r, 409)
     \/ /\ achados = {} \/ \E j \in achados : ~ColideAoAtualizar(t, i, j, d)
        /\ Segue(r, "update", req[r], None)

\* The UPDATE by id.  Rows are never removed, so P2025 never comes.
AtualizarGrava(r) ==
  LET t == req[r].tab
      i == req[r].id
      d == req[r].dados
  IN
  /\ pc[r] = "update"
  /\ \/ Rejeitado(t, i, d) /\ Responde(r, StatusDoErro(t, i, d))
     \/ /\ ~Rejeitado(t, i, d)
        /\ rows' = [rows EXCEPT ![t][i].dados = Sobre(d, @)]
        /\ Termina(r, 200)
        /\ UNCHANGED concede

(* DELETE *)

DeletarFind(r, t, i) ==
  /\ pc[r] = "idle"
  /\ \/ ~Visivel(t, i) /\ Responde(r, 404)
     \/ Visivel(t, i) /\ Segue(r, "delete", [tab |-> t, id |-> i, dados |-> <<>>], None)

\* softDelete: users keep their deleted profile, profiles their deleted
\* permissions.
DeletarGrava(r) ==
  /\ pc[r] = "delete"
  /\ rows' = [rows EXCEPT ![req[r].tab][req[r].id].deleted = TRUE]
  /\ Termina(r, 204)
  /\ UNCHANGED concede

(* POST and DELETE of /perfis/:id/permissoes *)

AssociarFind(r, p, lista) ==
  /\ pc[r] = "idle"
  /\ \/ ~Visivel("perfis", p) /\ Responde(r, 404)
     \/ /\ Visivel("perfis", p)
        /\ Segue(r, "permissoes", [tab |-> "perfis", id |-> p, dados |-> [permissoes |-> lista]], None)
  /\ extintas' = [extintas EXCEPT ![r] = {q \in Ids : Existe("permissoes", q) /\ ~Visivel("permissoes", q)}]

\* Mutant: the list is not looked up.
SemProcurar(lista) == {lista[k] : k \in DOMAIN lista}

\* Mutant: findPermissoesByIds without the deletedAt filter.
EncontradasTodas(lista) ==
  {q \in Ids : Existe("permissoes", q) /\ \E k \in DOMAIN lista : lista[k] = q}

\* findPermissoesByIds, whose result must be as long as the list sent: a list
\* that names a permission twice is refused.
Encontradas(lista) == {q \in Ids : Visivel("permissoes", q) /\ \E k \in DOMAIN lista : lista[k] = q}

AssociarConfere(r) ==
  LET lista == req[r].dados.permissoes IN
  /\ pc[r] = "permissoes"
  /\ \/ Cardinality(Encontradas(lista)) # Len(lista) /\ Responde(r, 404)
     \/ Cardinality(Encontradas(lista)) = Len(lista) /\ Segue(r, "set", req[r], None)

Pedidas(r) == {req[r].dados.permissoes[k] : k \in DOMAIN req[r].dados.permissoes}

\* Prisma's `set` of a many-to-many relation: read what is connected, then
\* disconnect and connect what differs, in a READ COMMITTED transaction.
SetLe(r) ==
  /\ pc[r] = "set"
  /\ Segue(r, "diff", req[r], concede[req[r].id])

SetGrava(r) ==
  LET p == req[r].id IN
  /\ pc[r] = "diff"
  /\ concede' = [concede EXCEPT ![p] = (@ \ (lido[r] \ Pedidas(r))) \cup (Pedidas(r) \ lido[r])]
  /\ Encerra(r, "done", 200, req[r])
  /\ UNCHANGED rows

DesassociarFind(r, p, q) ==
  /\ pc[r] = "idle"
  /\ \/ ~Visivel("perfis", p) /\ Responde(r, 404)
     \/ /\ Visivel("perfis", p)
        /\ Segue(r, "disconnect", [tab |-> "perfis", id |-> p, dados |-> [permissoes |-> <<q>>]], None)

\* Mutant: `set: []` instead of `disconnect`.
DesassociarTodas(r) ==
  /\ pc[r] = "disconnect"
  /\ concede' = [concede EXCEPT ![req[r].id] = {}]
  /\ Encerra(r, "done", 204, req[r])
  /\ UNCHANGED rows

\* A permission that is not connected, or does not exist, is not an error.
DesassociarGrava(r) ==
  /\ pc[r] = "disconnect"
  /\ concede' = [concede EXCEPT ![req[r].id] = @ \ Pedidas(r)]
  /\ Encerra(r, "done", 204, req[r])
  /\ UNCHANGED rows

\* A query fails, or the process dies before the next one.
Falha(r) ==
  /\ pc[r] \notin {"idle", "failed", "done"}
  /\ Encerra(r, "failed", 500, None)
  /\ UNCHANGED <<rows, concede>>

\* The lists of permissions a client may send, up to one entry per permission.
Listas == UNION {[1..n -> Ids] : n \in 1..Cardinality(Ids)}

\* What happens to a request but the arrival of an association.
Passo(r) ==
  \/ \E t \in Tabelas : \E d \in Novos[t] : CriarRecebe(r, t, d)
  \/ \E c \in {"email", "nome", "chave"} : CriarProcura(r, c)
  \/ CriarInsere(r)
  \/ \E t \in Tabelas, i \in Ids : \E d \in Patches[t] : AtualizarFind(r, t, i, d)
  \/ AtualizarConfere(r)
  \/ AtualizarGrava(r)
  \/ \E t \in Tabelas, i \in Ids : DeletarFind(r, t, i)
  \/ DeletarGrava(r)
  \/ AssociarConfere(r)
  \/ SetLe(r)
  \/ SetGrava(r)
  \/ \E p, q \in Ids : DesassociarFind(r, p, q)
  \/ DesassociarGrava(r)
  \/ Falha(r)

Next ==
  \E r \in Requests :
    \/ Passo(r) /\ UNCHANGED extintas
    \/ \E p \in Ids, l \in Listas : AssociarFind(r, p, l)

Spec == Init /\ [][Next]_vars

-------------------------------------------------------------------------------
(* What must hold.                                                         *)

\* However a client writes it, an address belongs to one account, live or
\* deleted, even when two POSTs or PATCHes pass the lookup together.
OneAccountPerAddress ==
  \A i, j \in Ids :
    /\ Existe("users", i) /\ Existe("users", j)
    /\ Canonico[Valor("users", i, "email")] = Canonico[Valor("users", j, "email")]
    => i = j

\* A collision is never an internal error, whichever request wins the race: 500
\* is for queries that fail and for a profile that does not exist.
CollisionsAre409 ==
  [][\A r \in Requests :
       pc[r] # "done" /\ pc'[r] = "done" /\ answer'[r] = 500 =>
         req[r].tab = "users" /\ "perfilId" \in DOMAIN req[r].dados]_vars

\* A request, answered, that set what profile p grants, and one that took
\* permission q away from it.
Associou(r, p) == pc[r] = "done" /\ answer[r] = 200 /\ req[r] # None /\ req[r].id = p

Desassociou(r, p, q) ==
  pc[r] = "done" /\ answer[r] = 204 /\ req[r] # None /\ req[r].id = p /\ q \in Pedidas(r)

\* Two administrators who set a profile's permissions at the same time may
\* leave a mixture of both lists, but nothing that neither asked for, and
\* never without what all of them asked for.
GrantsAccounted ==
  \A p, q \in Ids :
    LET pediram == {r \in Requests : Associou(r, p)} IN
    /\ q \in concede[p] => \E r \in pediram : q \in Pedidas(r)
    /\ /\ pediram # {} /\ \A r \in pediram : q \in Pedidas(r)
       /\ ~\E r \in Requests : Desassociou(r, p, q)
       => q \in concede[p]

\* A profile is never given a permission that was deleted before the request
\* came: only a DELETE that overlaps the association leaves it with one
\* (findPermissoesByIds of associar-permissoes-perfil).
NoExtinctGrant ==
  \A r \in Requests, p \in Ids : Associou(r, p) => Pedidas(r) \cap extintas[r] = {}

\* The tables as the specification of a table sees them.
ChavesDe(t, dados) == {<<c, dados[c]>> : c \in Unicas[t]}

Chaves(t) == [i \in Ids |-> IF Existe(t, i) THEN ChavesDe(t, rows[t][i].dados) ELSE {}]

Apagadas(t) == {i \in Ids : Existe(t, i) /\ rows[t][i].deleted}

Usuarios == INSTANCE UniqueTable WITH
  KeySets <- {ChavesDe("users", d) : d \in Novos["users"]},
  keys <- Chaves("users"), dead <- Apagadas("users")

Perfis == INSTANCE UniqueTable WITH
  KeySets <- {ChavesDe("perfis", d) : d \in Novos["perfis"]},
  keys <- Chaves("perfis"), dead <- Apagadas("perfis")

Permissoes == INSTANCE UniqueTable WITH
  KeySets <- {ChavesDe("permissoes", d) : d \in Novos["permissoes"]},
  keys <- Chaves("permissoes"), dead <- Apagadas("permissoes")

\* Users, profiles and permissions are tables whose keys are unique for good
\* and whose deletions last.
ImplementsTables == Usuarios!Spec /\ Perfis!Spec /\ Permissoes!Spec
===============================================================================
