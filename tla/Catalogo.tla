------------------------------- MODULE Catalogo -------------------------------
(***************************************************************************)
(* The restaurants and a client that walks through their listing while     *)
(* others create, change and delete them: Restaurantes with an instance of *)
(* Listagem over its table.  A restaurant changes its place when a PATCH   *)
(* changes its name, and comes and goes with ativo.                        *)
(***************************************************************************)
EXTENDS Restaurantes, FiniteSets

CONSTANTS DEFAULT_PAGE_SIZE, MAX_PAGE_SIZE, PageSize

ASSUME SizesAssumption ==
  /\ DEFAULT_PAGE_SIZE \in 1..MAX_PAGE_SIZE
  /\ MAX_PAGE_SIZE \in Nat
  /\ PageSize \in Int \cup {None}
  /\ None \notin Int

\* A CNPJ has fourteen digits; names compare by their places in the collation.
ASSUME TableAssumption == IsFiniteSet(Cnpjs) /\ Nomes \subseteq Int

VARIABLES page, total, vistas, repetidas, firmes, entradas, saidas, empatou

\* where: deletedAt null, ativo true.
Listadas == {c \in Cnpjs : Visible(c) /\ rows[c].ativo}

\* Mutant: the inactive restaurants are counted as well.
ContadasInativas == {c \in Cnpjs : Visible(c)}

\* The where of count, written once more.
Contadas == {c \in Cnpjs : Visible(c) /\ rows[c].ativo}

\* orderBy: nome asc.
Chave == [c \in Cnpjs |-> IF rows[c] = None THEN 0 ELSE rows[c].nome]

Lista == INSTANCE Listagem WITH listadas <- Listadas, contadas <- Contadas, chave <- Chave

CatalogoInit == Init /\ Lista!Init

Escreve == Next /\ Lista!Observa

Percorre == (Lista!Contar \/ Lista!Listar) /\ UNCHANGED vars

CatalogoNext == Escreve \/ Percorre

CatalogoSpec == CatalogoInit /\ [][CatalogoNext]_<<vars, Lista!walk>>

-------------------------------------------------------------------------------
(* What must hold of the listing of restaurants: see Listagem.             *)

\* A restaurant that stays listed is missed only if one before it goes
\* (RestaurantesRepositoryImpl.findAll).
MissedOnlyByDepartures == Lista!MissedOnlyByDepartures

\* A restaurant that stays listed is given twice only if one before it comes
\* (RestaurantesRepositoryImpl.findAll).
RepeatedOnlyByArrivals == Lista!RepeatedOnlyByArrivals

\* The count agrees with the pages (count and findAll of
\* RestaurantesRepositoryImpl, whose filters must be the same).
CountAccounts == Lista!CountAccounts
===============================================================================
