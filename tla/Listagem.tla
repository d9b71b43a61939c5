------------------------------- MODULE Listagem -------------------------------
(***************************************************************************)
(* The listings: GET /restaurantes, /users, /perfis and /permissoes and    *)
(* their /count.  All four parse page and pageSize alike and hand them to  *)
(* a findMany that filters, orders by one column that is not unique, skips *)
(* and takes.  No page is read in the transaction of another.              *)
(*                                                                         *)
(* The walk of a client through one listing: it asks for the count, then   *)
(* for the pages one after the other until one comes back empty, while     *)
(* other requests write the table.  The table belongs to whoever           *)
(* instantiates this module.                                               *)
(***************************************************************************)
EXTENDS Integers, FiniteSets, Sequences

CONSTANTS
  None,               \* an absent or unreadable query parameter
  DEFAULT_PAGE_SIZE, MAX_PAGE_SIZE,
  PageSize            \* the pageSize the client asks for

VARIABLES
  \* the table, as the listing sees it
  listadas,    \* the rows that pass the filter of findAll
  contadas,    \* the rows that pass the filter of count
  chave,       \* for every row the value of its orderBy column
  \* the client
  page,        \* the page it asks for next, 0 before the count
  total,       \* the count it was given
  vistas,      \* the rows it was given
  \* history
  repetidas,   \* rows it was given more than once
  firmes,      \* rows listed ever since the count, alone at their key
  entradas,    \* how many rows came into the listing or moved within it
  saidas,      \* how many rows went out of it or moved within it
  empatou      \* two listed rows had the same key at some time

walk == <<page, total, vistas, repetidas, firmes, entradas, saidas, empatou>>

Maior(a, b) == IF a > b THEN a ELSE b
Menor(a, b) == IF a < b THEN a ELSE b

\* Number.parseInt(raw) || default: 0 counts as absent.
Pedido(raw, default) == IF raw \in {None, 0} THEN default ELSE raw

\* Mutant: pages are counted from 0.
PaginaZero(pageRaw, pageSizeRaw) ==
  LET pageSize == Menor(MAX_PAGE_SIZE, Maior(1, Pedido(pageSizeRaw, DEFAULT_PAGE_SIZE)))
  IN  [skip |-> Maior(1, Pedido(pageRaw, 1)) * pageSize, take |-> pageSize]

parsePagination(pageRaw, pageSizeRaw) ==
  LET pagina == Maior(1, Pedido(pageRaw, 1))
      pageSize == Menor(MAX_PAGE_SIZE, Maior(1, Pedido(pageSizeRaw, DEFAULT_PAGE_SIZE)))
  IN  [skip |-> (pagina - 1) * pageSize, take |-> pageSize]

Sequencias == {s \in [1..Cardinality(listadas) -> listadas] :
                 \A i, j \in DOMAIN s : s[i] = s[j] => i = j}

\* Mutant: findMany without orderBy.
SemOrdem == Sequencias

\* The orders the database may give the rows in: it decides between equal keys,
\* and may decide otherwise for the next page.
Ordenacoes == {s \in Sequencias : \A i, j \in DOMAIN s : i < j => chave[s[i]] <= chave[s[j]]}

\* skip and take of findMany.
Pagina(s, p) == SubSeq(s, p.skip + 1, Menor(p.skip + p.take, Len(s)))

Sozinhas == {l \in listadas : \A m \in listadas \ {l} : chave[m] # chave[l]}

Fim == -1

Init ==
  /\ page = 0 /\ total = 0
  /\ vistas = {} /\ repetidas = {} /\ firmes = {}
  /\ entradas = 0 /\ saidas = 0
  /\ empatou = FALSE

\* GET /count.
Contar ==
  /\ page = 0
  /\ page' = 1
  /\ total' = Cardinality(contadas)
  /\ firmes' = Sozinhas
  /\ empatou' = (Sozinhas # listadas)
  /\ UNCHANGED <<vistas, repetidas, entradas, saidas>>

\* GET ?page&pageSize.
Listar ==
  /\ page > 0
  /\ \E s \in Ordenacoes :
       LET S == Pagina(s, parsePagination(page, PageSize))
           obtidas == {S[i] : i \in DOMAIN S}
       IN  /\ vistas' = vistas \cup obtidas
           /\ repetidas' = repetidas \cup (vistas \cap obtidas)
           /\ page' = IF S = <<>> THEN Fim ELSE page + 1
  /\ UNCHANGED <<total, firmes, entradas, saidas, empatou>>

\* The history follows every step that may write the table.
Observa ==
  IF page > 0
  THEN LET movidas == {l \in listadas \cap listadas' : chave[l] # chave'[l]}
       IN  /\ entradas' = entradas + Cardinality((listadas' \ listadas) \cup movidas)
           /\ saidas' = saidas + Cardinality((listadas \ listadas') \cup movidas)
           /\ firmes' = (firmes \cap Sozinhas') \ movidas
           /\ empatou' = (empatou \/ (Sozinhas # listadas)')
           /\ UNCHANGED <<page, total, vistas, repetidas>>
  ELSE UNCHANGED walk

-------------------------------------------------------------------------------
(* What must hold, whatever is written while the client walks.             *)

\* A row that is listed all the time, under a name of its own, is missed only
\* if another one before it went away: one for each (skip, take and orderBy of
\* findAll).
MissedOnlyByDepartures ==
  page = Fim => Cardinality(firmes \ vistas) <= saidas

\* ... and is given twice only if another one came in before it.
RepeatedOnlyByArrivals ==
  Cardinality(repetidas \cap firmes) <= entradas

\* The count and the pages agree: what the client is given differs from what
\* was counted only by the rows that went and came meanwhile, unless two rows
\* had the same key and swapped places between two pages (count and findAll).
CountAccounts ==
  page = Fim =>
    /\ Cardinality(vistas) <= total + entradas
    /\ empatou \/ Cardinality(vistas) >= total - saidas
===============================================================================
