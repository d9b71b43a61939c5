------------------------------ MODULE AccessGuard ------------------------------
(***************************************************************************)
(* What lets a request reach a handler: JwtAuthGuard with                  *)
(* JwtStrategy.validate and its validationCache, the revocation lookup of  *)
(* TokenBlacklistService, and RolesAuthGuard, which runs the passport      *)
(* strategy a second time and then checks the profile's name through a     *)
(* cache of its own.                                                       *)
(*                                                                         *)
(* One instance of the backend is modelled: both caches are private to it. *)
(* The database is written by everybody else: accounts are soft-deleted or *)
(* given another profile, profiles are renamed or deleted, logouts revoke  *)
(* tokens and AuthService signs new ones.                                  *)
(*                                                                         *)
(* A query is two steps, the database evaluating it and the handler        *)
(* resuming with its answer; writes and time come in between.  Latency     *)
(* bounds the time a query may take.                                       *)
(***************************************************************************)
EXTENDS Integers, FiniteSets

CONSTANTS
  Users, Perfis, Tokens, Requests,
  None,        \* no user, no profile, no cache entry
  Sub0,        \* whose the tokens are that were signed before now = 0
  Routes,      \* a subset of {"jwt", "admin"}: /auth/me and /auth/logout run
               \* JwtAuthGuard, every other controller runs both guards
  AccessTTL,   \* JWT_EXPIRES_IN
  CacheTTL,    \* CACHE_TTL_MS
  PerfilTTL,   \* PERFIL_CACHE_TTL_MS
  CacheLimit,  \* the 256 entries above which validate sweeps its cache
  Latency,     \* the longest time a query takes
  MaxTime      \* the bound of the clock

ASSUME RoutesAssumption == Routes \subseteq {"jwt", "admin"}

ASSUME TimeAssumption ==
  /\ {AccessTTL, CacheTTL, PerfilTTL, CacheLimit, Latency, MaxTime} \subseteq Nat
  /\ Latency < PerfilTTL
  /\ CacheTTL > 0

ASSUME NoneAssumption == None \notin Users \cup Perfis \cup Nat

ASSUME SubAssumption == Sub0 \in [Tokens -> Users \cup {None}]

VARIABLES
  now,
  \* the database
  deletedAt,     \* users.deletedAt: a time, or None
  perfilOf,      \* users.perfilId
  adminPerfil,   \* the profile whose nome is ADMIN (nome is UNIQUE), or None
  deletedPerfis, \* profiles with deletedAt set
  revoked,       \* the jtis in revoked_jtis
  \* what a signed access token says: sub (None while unsigned), perfilId, exp
  sub, claim, exp,
  \* this instance
  validationCache, \* JwtStrategy: userId -> [valid, expiresAt]
  perfilCache,     \* RolesAuthGuard: perfilId -> [admin, cachedAt]
  \* the requests
  pc,            \* the query a request awaits, or has the answer of
  guard,         \* which guard is running
  route, token,
  seen,          \* the answer of the last query
  since,         \* when the last query was sent
  admittedAt,    \* when the handler was reached, None if it was not
  \* history
  lastAdmin,     \* for every profile the last time it was an active ADMIN
  lastOf,        \* for every user and profile the last time it was theirs
  afterLogout    \* requests begun with a token already revoked

db == <<deletedAt, perfilOf, adminPerfil, deletedPerfis, revoked>>
tokens == <<sub, claim, exp>>
caches == <<validationCache, perfilCache>>
given == <<route, token, afterLogout>>
past == <<lastAdmin, lastOf>>
vars == <<now, db, tokens, caches, given, pc, guard, seen, since, admittedAt, past>>

Labels == {"idle", "askRevoked", "askUser", "gotUser", "askPerfil", "gotPerfil", "done"}

TypeOK ==
  /\ now \in Nat
  /\ deletedAt \in [Users -> Nat \cup {None}]
  /\ perfilOf \in [Users -> Perfis \cup {None}]
  /\ adminPerfil \in Perfis \cup {None}
  /\ deletedPerfis \subseteq Perfis
  /\ revoked \subseteq Tokens
  /\ sub \in [Tokens -> Users \cup {None}]
  /\ claim \in [Tokens -> Perfis \cup {None}]
  /\ exp \in [Tokens -> Nat]
  /\ validationCache \in [Users -> {None} \cup [valid : BOOLEAN, expiresAt : Nat]]
  /\ perfilCache \in [Perfis -> {None} \cup [admin : BOOLEAN, cachedAt : Nat]]
  /\ pc \in [Requests -> Labels]
  /\ guard \in [Requests -> {"jwt", "roles"}]
  /\ route \in [Requests -> {"jwt", "admin"}]
  /\ token \in [Requests -> Tokens \cup {None}]
  /\ seen \in [Requests -> {"nothing", "found", "admin", "absent"}]
  /\ since \in [Requests -> Nat]
  /\ admittedAt \in [Requests -> Nat \cup {None}]
  /\ lastAdmin \in [Perfis -> Nat \cup {None}]
  /\ lastOf \in [Users -> [Perfis -> Nat \cup {None}]]
  /\ afterLogout \subseteq Requests

Active(u) == deletedAt[u] = None
IsAdmin(p) == p # None /\ p = adminPerfil /\ p \notin deletedPerfis
Expired(t) == now >= exp[t]

\* The history follows every write and every tick.
Remember ==
  /\ lastAdmin' = [p \in Perfis |-> IF IsAdmin(p)' THEN now' ELSE lastAdmin[p]]
  /\ lastOf' = [u \in Users |->
                  [p \in Perfis |-> IF perfilOf'[u] = p THEN now' ELSE lastOf[u][p]]]

Init ==
  /\ now = 0
  /\ deletedAt = [u \in Users |-> None]
  /\ perfilOf \in [Users -> Perfis \cup {None}]
  /\ adminPerfil \in Perfis
  /\ deletedPerfis = {}
  /\ revoked = {}
  /\ sub = Sub0
  /\ claim = [t \in Tokens |-> IF Sub0[t] = None THEN None ELSE perfilOf[Sub0[t]]]
  /\ exp = [t \in Tokens |-> IF Sub0[t] = None THEN 0 ELSE AccessTTL]
  /\ validationCache = [u \in Users |-> None]
  /\ perfilCache = [p \in Perfis |-> None]
  /\ pc = [r \in Requests |-> "idle"]
  /\ guard = [r \in Requests |-> "jwt"]
  /\ route = [r \in Requests |-> "jwt"]
  /\ token = [r \in Requests |-> None]
  /\ seen = [r \in Requests |-> "nothing"]
  /\ since = [r \in Requests |-> 0]
  /\ admittedAt = [r \in Requests |-> None]
  /\ lastAdmin = [p \in Perfis |-> IF p = adminPerfil THEN 0 ELSE None]
  /\ lastOf = [u \in Users |-> [p \in Perfis |-> IF perfilOf[u] = p THEN 0 ELSE None]]
  /\ afterLogout = {}

-------------------------------------------------------------------------------
(* The guards.                                                             *)

Goto(r, label) ==
  /\ pc' = [pc EXCEPT ![r] = label]
  /\ UNCHANGED <<guard, admittedAt>>

Refuse(r) == Goto(r, "done")

Ask(r, label) ==
  /\ Goto(r, label)
  /\ since' = [since EXCEPT ![r] = now]

\* The guards of the route are through.
Admit(r) ==
  /\ pc' = [pc EXCEPT ![r] = "done"]
  /\ admittedAt' = [admittedAt EXCEPT ![r] = now]
  /\ UNCHANGED <<guard, since>>

\* The request arrives; passport checks the signature and exp before it calls
\* validate, which sends the revocation lookup.
Arrive(r, t, where) ==
  /\ pc[r] = "idle"
  /\ sub[t] # None
  /\ ~Expired(t)
  /\ route' = [route EXCEPT ![r] = where]
  /\ token' = [token EXCEPT ![r] = t]
  /\ afterLogout' = IF t \in revoked THEN afterLogout \cup {r} ELSE afterLogout
  /\ Ask(r, "askRevoked")
  /\ UNCHANGED <<now, db, tokens, caches, seen, past>>

\* The name of the profile is cached and young enough.
Known(p) == perfilCache[p] # None /\ now - perfilCache[p].cachedAt < PerfilTTL

\* checkRoles: no profile, a cached one, or a query sent after reading the clock.
CheckRoles(r) ==
  LET p == claim[token[r]]
  IN  \/ /\ p = None
         /\ Refuse(r) /\ UNCHANGED since
      \/ /\ p # None /\ Known(p)
         /\ IF perfilCache[p].admin THEN Admit(r) ELSE Refuse(r) /\ UNCHANGED since
      \/ /\ p # None /\ ~Known(p)
         /\ Ask(r, "askPerfil")

\* Mutant: RolesAuthGuard trusts what JwtAuthGuard put into the request.
ValidatedOnce(r) ==
  \/ route[r] = "jwt" /\ Admit(r)
  \/ route[r] = "admin" /\ CheckRoles(r)

\* validate accepted the user.  JwtAuthGuard alone ends here; otherwise
\* RolesAuthGuard starts with super.canActivate: exp, then validate again.
Validated(r) ==
  \/ /\ route[r] = "jwt"
     /\ Admit(r)
  \/ /\ route[r] = "admin" /\ guard[r] = "jwt"
     /\ guard' = [guard EXCEPT ![r] = "roles"]
     /\ pc' = [pc EXCEPT ![r] = IF Expired(token[r]) THEN "done" ELSE "askRevoked"]
     /\ since' = [since EXCEPT ![r] = now]
     /\ UNCHANGED admittedAt
  \/ /\ route[r] = "admin" /\ guard[r] = "roles"
     /\ CheckRoles(r)

\* Mutant: isRevoked compares the wrong way round.
RevokedOnceExpired(t) == t \in revoked /\ exp[t] <= now

\* isRevoked: a row that has expired does not count.
IsRevoked(t) == t \in revoked /\ exp[t] > now

\* Mutant: an entry is used however old it is.
KeepsValid(entry) == entry # None

\* An entry of validationCache that may still be used.
Fresh(entry) == entry # None /\ entry.expiresAt > now

\* The answer of isRevoked, and then the cache.
CheckRevoked(r) ==
  /\ pc[r] = "askRevoked"
  /\ LET entry == validationCache[sub[token[r]]]
     IN  \/ /\ IsRevoked(token[r]) \/ (Fresh(entry) /\ ~entry.valid)
            /\ Refuse(r) /\ UNCHANGED since
         \/ /\ ~IsRevoked(token[r]) /\ Fresh(entry) /\ entry.valid
            /\ Validated(r)
         \/ /\ ~IsRevoked(token[r]) /\ ~Fresh(entry)
            /\ Ask(r, "askUser")
  /\ UNCHANGED <<now, db, tokens, caches, given, seen, past>>

\* The database evaluates findById of validateUser.
ReadUser(r) ==
  /\ pc[r] = "askUser"
  /\ seen' = [seen EXCEPT ![r] = IF Active(sub[token[r]]) THEN "found" ELSE "absent"]
  /\ Goto(r, "gotUser")
  /\ UNCHANGED <<now, db, tokens, caches, given, since, past>>

\* Entries that validate keeps once the cache has grown past its limit.
Swept(cache) ==
  IF Cardinality({u \in Users : cache[u] # None}) > CacheLimit
  THEN [u \in Users |-> IF Fresh(cache[u]) THEN cache[u] ELSE None]
  ELSE cache

\* The answer of validateUser is cached from now on, however long ago the
\* database gave it, over whatever another request cached meanwhile.
CacheUser(r) ==
  /\ pc[r] = "gotUser"
  /\ validationCache' =
       Swept([validationCache EXCEPT ![sub[token[r]]] =
                [valid |-> seen[r] = "found", expiresAt |-> now + CacheTTL]])
  /\ IF seen[r] = "found" THEN Validated(r) ELSE Refuse(r) /\ UNCHANGED since
  /\ UNCHANGED <<now, db, tokens, perfilCache, given, seen, past>>

\* The database evaluates findById of the profile.
ReadPerfil(r) ==
  /\ pc[r] = "askPerfil"
  /\ LET p == claim[token[r]]
     IN  seen' = [seen EXCEPT ![r] = IF p \in deletedPerfis THEN "absent"
                                     ELSE IF IsAdmin(p) THEN "admin" ELSE "found"]
  /\ Goto(r, "gotPerfil")
  /\ UNCHANGED <<now, db, tokens, caches, given, since, past>>

\* Mutant: the age of a cached profile counts from when the answer arrived.
CachedNow(r) == now

\* Mutant: cachedAt is forgotten.
CachedNever(r) == None

\* What cachedAt is set to: the clock before the query was sent.
CachedAt(r) == since[r]

CachePerfil(r) ==
  /\ pc[r] = "gotPerfil"
  /\ perfilCache' = IF seen[r] = "absent" THEN perfilCache
                    ELSE [perfilCache EXCEPT ![claim[token[r]]] =
                            [admin |-> seen[r] = "admin", cachedAt |-> CachedAt(r)]]
  /\ IF seen[r] = "admin" THEN Admit(r) ELSE Refuse(r) /\ UNCHANGED since
  /\ UNCHANGED <<now, db, tokens, validationCache, given, seen, past>>

\* The process restarts: its caches and what it was working on are gone.
Restart ==
  /\ validationCache' = [u \in Users |-> None]
  /\ perfilCache' = [p \in Perfis |-> None]
  /\ pc' = [r \in Requests |-> IF pc[r] = "idle" THEN "idle" ELSE "done"]
  /\ UNCHANGED <<now, db, tokens, given, guard, seen, since, admittedAt, past>>

-------------------------------------------------------------------------------
(* The other writers of the database, and time.                            *)

\* login, register or refreshToken signs an access token with the profile the
\* user has.  The account was found active, which it need not be any more: a
\* refresh signs after its transaction.
Sign(t, u) ==
  /\ sub[t] = None
  /\ sub' = [sub EXCEPT ![t] = u]
  /\ claim' = [claim EXCEPT ![t] = perfilOf[u]]
  /\ exp' = [exp EXCEPT ![t] = now + AccessTTL]
  /\ UNCHANGED <<now, db, caches, given, pc, guard, seen, since, admittedAt, past>>

Write == UNCHANGED <<now, tokens, caches, given, pc, guard, seen, since, admittedAt>>

SoftDeleteUser(u) ==
  /\ Active(u)
  /\ deletedAt' = [deletedAt EXCEPT ![u] = now]
  /\ UNCHANGED <<perfilOf, adminPerfil, deletedPerfis, revoked>>
  /\ Write /\ Remember

\* PATCH /users/:id with a perfilId; one that raced the DELETE comes late.
ChangePerfil(u, p) ==
  /\ perfilOf' = [perfilOf EXCEPT ![u] = p]
  /\ UNCHANGED <<deletedAt, adminPerfil, deletedPerfis, revoked>>
  /\ Write /\ Remember

\* PATCH /perfis/:id: the ADMIN profile gets another name, or a profile the
\* free name ADMIN.  One that raced the DELETE renames a deleted profile.
RenamePerfil(p) ==
  /\ adminPerfil \in {p, None}
  /\ adminPerfil' = IF adminPerfil = p THEN None ELSE p
  /\ UNCHANGED <<deletedAt, perfilOf, deletedPerfis, revoked>>
  /\ Write /\ Remember

DeletePerfil(p) ==
  /\ p \notin deletedPerfis
  /\ deletedPerfis' = deletedPerfis \cup {p}
  /\ UNCHANGED <<deletedAt, perfilOf, adminPerfil, revoked>>
  /\ Write /\ Remember

\* The token may expire between the verify of logout and its upsert.
Revoke(t) ==
  /\ sub[t] # None
  /\ revoked' = revoked \cup {t}
  /\ UNCHANGED <<deletedAt, perfilOf, adminPerfil, deletedPerfis>>
  /\ Write /\ Remember

PurgeExpired ==
  /\ revoked' = {t \in revoked : exp[t] >= now}
  /\ UNCHANGED <<deletedAt, perfilOf, adminPerfil, deletedPerfis>>
  /\ Write /\ Remember

\* No query takes longer than Latency, and no handler longer to resume.
Waiting == {r \in Requests : pc[r] \notin {"idle", "done"}}

Tick ==
  /\ now < MaxTime
  /\ \A r \in Waiting : now - since[r] < Latency
  /\ now' = now + 1
  /\ UNCHANGED db
  /\ Remember
  /\ UNCHANGED <<tokens, caches, given, pc, guard, seen, since, admittedAt>>

-------------------------------------------------------------------------------

Step(r) ==
  \/ \E t \in Tokens, where \in Routes : Arrive(r, t, where)
  \/ CheckRevoked(r)
  \/ ReadUser(r)
  \/ CacheUser(r)
  \/ ReadPerfil(r)
  \/ CachePerfil(r)

Others ==
  \/ \E t \in Tokens : Revoke(t) \/ \E u \in Users : Sign(t, u)
  \/ \E u \in Users : SoftDeleteUser(u) \/ \E p \in Perfis : ChangePerfil(u, p)
  \/ \E p \in Perfis : RenamePerfil(p) \/ DeletePerfil(p)
  \/ PurgeExpired
  \/ Restart

Next ==
  \/ \E r \in Requests : Step(r)
  \/ Others
  \/ Tick

Spec == Init /\ [][Next]_vars

-------------------------------------------------------------------------------
(* What must hold.                                                         *)

Admitted(r) == admittedAt[r] # None
Claimed(r) == claim[token[r]]

\* A deleted account is let in for at most CacheTTL plus the time of the
\* queries that were open, however cache entries overwrite each other
\* (JwtStrategy.validate).
UserStaleness ==
  \A r \in Requests :
    Admitted(r) /\ ~Active(sub[token[r]])
      => admittedAt[r] < deletedAt[sub[token[r]]] + CacheTTL + Latency
                         + (IF route[r] = "admin" THEN Latency ELSE 0)

\* A profile that is renamed or deleted opens the admin routes for less than
\* PerfilTTL, because its age counts from before the query (checkRoles).
PerfilStaleness ==
  \A r \in Requests :
    Admitted(r) /\ route[r] = "admin"
      => /\ Claimed(r) # None /\ lastAdmin[Claimed(r)] # None
         /\ admittedAt[r] < lastAdmin[Claimed(r)] + PerfilTTL

\* A request made with a token that is already revoked never reaches a handler
\* behind RolesAuthGuard.  It passes JwtAuthGuard alone only by an answer that
\* comes when the token has expired: isRevoked no longer counts the row then,
\* and passport looked at exp before (JwtStrategy.validate).
RevokedAdmittedOnlyAtExpiry ==
  \A r \in afterLogout :
    Admitted(r) => route[r] = "jwt" /\ admittedAt[r] >= exp[token[r]]

(* What the documentation says and the code does not do, refuted by a run. *)

\* roles-auth.guard.ts: taking the ADMIN profile from a user takes effect after
\* PERFIL_CACHE_TTL_MS (and the query) at most, not with the next token.
DemotionSeenWithinPerfilTTL ==
  \A r \in Requests :
    Admitted(r) /\ route[r] = "admin"
      => admittedAt[r] <= lastOf[sub[token[r]]][Claimed(r)] + PerfilTTL + Latency
===============================================================================
