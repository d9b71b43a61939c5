------------------------------ MODULE Restaurantes ------------------------------
(***************************************************************************)
(* The restaurants: POST, PATCH and DELETE of RestaurantesController down  *)
(* to the rows.  A PATCH and a DELETE first read the row and then write it *)
(* in a second query; the rows carry a version nobody looks at, so other   *)
(* requests may write in between.                                          *)
(*                                                                         *)
(* restaurantes.cnpj is UNIQUE, no route changes it and no row is removed, *)
(* so a row is identified by its CNPJ, one that module Cnpj accepts.  A    *)
(* time of day is its number of minutes, a name its place in the collation *)
(* of the database.  Of the other columns only ativo is kept.              *)
(***************************************************************************)
EXTENDS Integers

CONSTANTS
  Cnpjs, Nomes, Horas, Requests, None,
  Patches,   \* the bodies of the PATCH requests
  Rows0      \* the tables there may be in the initial state

ASSUME HorasAssumption == Horas \subseteq Nat /\ None \notin Horas /\ None \notin BOOLEAN

VARIABLES
  rows,      \* the table
  pc,        \* "idle", "update", "delete" or "done"
  target,    \* the row a PATCH or DELETE is about
  patch,     \* what the PATCH sets; None for what it leaves alone
  answer,    \* HTTP status, 0 while there is none
  stale      \* history: updates that found the row deleted when they wrote

vars == <<rows, pc, target, patch, answer, stale>>

Row == [nome : Nomes, abertura : Horas, fechamento : Horas, ativo : BOOLEAN, deleted : BOOLEAN]

ASSUME RowAssumption == None \notin Row /\ None \notin Nomes

Patch == [nome : Nomes \cup {None}, abertura : Horas \cup {None}, fechamento : Horas \cup {None},
          ativo : BOOLEAN \cup {None}]

ASSUME PatchesAssumption == Patches \subseteq Patch

NoPatch == [nome |-> None, abertura |-> None, fechamento |-> None, ativo |-> None]

TypeOK ==
  /\ rows \in [Cnpjs -> Row \cup {None}]
  /\ pc \in [Requests -> {"idle", "update", "delete", "done"}]
  /\ target \in [Requests -> Cnpjs \cup {None}]
  /\ patch \in [Requests -> Patch]
  /\ answer \in [Requests -> {0, 200, 201, 204, 400, 404, 409, 500}]
  /\ stale \subseteq Requests

Init ==
  /\ rows \in Rows0
  /\ pc = [r \in Requests |-> "idle"]
  /\ target = [r \in Requests |-> None]
  /\ patch = [r \in Requests |-> NoPatch]
  /\ answer = [r \in Requests |-> 0]
  /\ stale = {}

-------------------------------------------------------------------------------

\* findById: the row exists and is not soft-deleted.
Visible(c) == rows[c] # None /\ ~rows[c].deleted

compararHorarios(a, b) == a - b

\* Every row has been through POST and through PATCHes that did not cross.
ASSUME Rows0Assumption ==
  \A t \in Rows0 :
    /\ t \in [Cnpjs -> Row \cup {None}]
    /\ \A c \in Cnpjs : t[c] # None => compararHorarios(t[c].abertura, t[c].fechamento) < 0

\* The value a PATCH leads to: dto.x ?? restaurante.x.
Merged(new, old) == IF new = None THEN old ELSE new

\* Mutant: only a PATCH that sends both times is checked.
OnlyBothSent(p, row) ==
  p.abertura # None /\ p.fechamento # None => compararHorarios(p.abertura, p.fechamento) < 0

\* The pair of times the row would have is a pair the domain accepts.
PairAccepted(p, row) ==
  compararHorarios(Merged(p.abertura, row.abertura), Merged(p.fechamento, row.fechamento)) < 0

Answer(r, status) ==
  /\ pc' = [pc EXCEPT ![r] = "done"]
  /\ answer' = [answer EXCEPT ![r] = status]

Send(r, query, c) ==
  /\ pc' = [pc EXCEPT ![r] = query]
  /\ target' = [target EXCEPT ![r] = c]
  /\ UNCHANGED answer

\* POST: the entity rejects an inverted pair.
CriarInvalido(r) ==
  /\ pc[r] = "idle"
  /\ Answer(r, 400)
  /\ UNCHANGED <<rows, target, patch, stale>>

\* Mutant: restaurantes.cnpj without its UNIQUE index.
NeverRegistered(c) == FALSE

\* A row with the CNPJ exists, soft-deleted or not.
Registered(c) == rows[c] # None

\* POST: the INSERT, or P2002 turned into 409.
Criar(r, c, n, a, f) ==
  /\ pc[r] = "idle"
  /\ compararHorarios(a, f) < 0
  /\ target' = [target EXCEPT ![r] = c]
  /\ IF Registered(c)
     THEN Answer(r, 409) /\ UNCHANGED rows
     ELSE /\ Answer(r, 201)
          /\ rows' = [rows EXCEPT ![c] =
                        [nome |-> n, abertura |-> a, fechamento |-> f,
                         ativo |-> TRUE, deleted |-> FALSE]]
  /\ UNCHANGED <<patch, stale>>

\* PATCH: findById, then the pair that would result is checked.
AtualizarFind(r, c, p) ==
  /\ pc[r] = "idle"
  /\ \/ /\ ~Visible(c)
        /\ Answer(r, 404) /\ UNCHANGED <<target, patch>>
     \/ /\ Visible(c) /\ ~PairAccepted(p, rows[c])
        /\ Answer(r, 409) /\ UNCHANGED <<target, patch>>
     \/ /\ Visible(c) /\ PairAccepted(p, rows[c])
        /\ patch' = [patch EXCEPT ![r] = p]
        /\ Send(r, "update", c)
  /\ UNCHANGED <<rows, stale>>

\* Mutant: the columns the PATCH did not send are cleared.
Replaced(row, p) ==
  [row EXCEPT !.nome = p.nome, !.abertura = p.abertura, !.fechamento = p.fechamento,
              !.ativo = p.ativo]

\* Mutant: the whole entity is written back, as it was when some PATCH read it.
WholeRow(row, p) ==
  [nome |-> Merged(p.nome, row.nome),
   abertura |-> Merged(p.abertura, row.abertura),
   fechamento |-> Merged(p.fechamento, row.fechamento),
   ativo |-> Merged(p.ativo, TRUE),
   deleted |-> FALSE]

\* update(id, dto) sets the columns the PATCH sent and no other.
Patched(row, p) ==
  [row EXCEPT !.nome = Merged(p.nome, @),
              !.abertura = Merged(p.abertura, @),
              !.fechamento = Merged(p.fechamento, @),
              !.ativo = Merged(p.ativo, @)]

\* PATCH: the UPDATE by id.  The row still exists, deleted or not, so P2025
\* never comes.
AtualizarWrite(r) ==
  /\ pc[r] = "update"
  /\ rows' = [rows EXCEPT ![target[r]] = Patched(@, patch[r])]
  /\ stale' = IF rows[target[r]].deleted THEN stale \cup {r} ELSE stale
  /\ Answer(r, 200)
  /\ UNCHANGED <<target, patch>>

DeletarFind(r, c) ==
  /\ pc[r] = "idle"
  /\ IF Visible(c) THEN Send(r, "delete", c) ELSE Answer(r, 404) /\ UNCHANGED target
  /\ UNCHANGED <<rows, patch, stale>>

\* softDelete(id), by id as well; ativo is left as it is.
DeletarWrite(r) ==
  /\ pc[r] = "delete"
  /\ rows' = [rows EXCEPT ![target[r]].deleted = TRUE]
  /\ Answer(r, 204)
  /\ UNCHANGED <<target, patch, stale>>

\* The write fails, or the process dies before it is sent.
WriteFails(r) ==
  /\ pc[r] \in {"update", "delete"}
  /\ Answer(r, 500)
  /\ UNCHANGED <<rows, target, patch, stale>>

Next ==
  \E r \in Requests :
    \/ CriarInvalido(r)
    \/ \E c \in Cnpjs, n \in Nomes, a, f \in Horas : Criar(r, c, n, a, f)
    \/ \E c \in Cnpjs, p \in Patches : AtualizarFind(r, c, p)
    \/ \E c \in Cnpjs : DeletarFind(r, c)
    \/ AtualizarWrite(r)
    \/ DeletarWrite(r)
    \/ WriteFails(r)

Spec == Init /\ [][Next]_vars

-------------------------------------------------------------------------------
(* What must hold.                                                         *)

Updated(r) == pc[r] = "done" /\ answer[r] = 200

\* A deleted restaurant never comes back, not even through an update that read
\* it before it was deleted (the partial UPDATE of the repository).
NoResurrection ==
  [][\A c \in Cnpjs : rows[c] # None /\ rows[c].deleted => rows'[c] # None /\ rows'[c].deleted]_vars

\* An accepted PATCH is not lost: what it set is in the row until another
\* accepted PATCH sets the same column.
NoLostPatch ==
  \A r \in Requests : Updated(r) =>
    \A f \in {"nome", "abertura", "fechamento", "ativo"} :
      \/ patch[r][f] \in {None, rows[target[r]][f]}
      \/ \E q \in Requests \ {r} :
           Updated(q) /\ target[q] = target[r] /\ patch[q][f] # None

\* One PATCH alone never leaves a restaurant that opens after it closes: that
\* takes two accepted ones, both about the times of the same row.
HoursOrderedUnlessCrossed ==
  \A c \in Cnpjs :
    rows[c] = None \/ compararHorarios(rows[c].abertura, rows[c].fechamento) < 0
      \/ \E q, r \in Requests :
           /\ q # r /\ Updated(q) /\ Updated(r) /\ target[q] = c /\ target[r] = c
           /\ patch[q].abertura # None /\ patch[r].fechamento # None

\* A CNPJ is registered once, and a deleted restaurant keeps it.
OneRegistration ==
  \A q, r \in Requests :
    answer[q] = 201 /\ answer[r] = 201 /\ target[q] = target[r] => q = r

(* What the documentation says and the code does not do; each is refuted by a
   run of its own. *)

\* atualizar-restaurante.usecase.ts: no PATCH can leave abertura after
\* fechamento, because the resulting pair is validated.
HoursOrdered ==
  \A c \in Cnpjs :
    rows[c] # None => compararHorarios(rows[c].abertura, rows[c].fechamento) < 0

\* restaurantes-repository.impl.ts: a delete between findById and the update
\* turns the update into a 404.
UpdateSeesDelete == \A r \in stale : answer[r] = 404
===============================================================================
