--------------------------- MODULE AccessGuardProofs ---------------------------
(***************************************************************************)
(* Theorems about AccessGuard, for any users, profiles, tokens, requests,  *)
(* lifetimes and latency: how stale what lets a request in may be.         *)
(***************************************************************************)
EXTENDS AccessGuard, TLAPS

\* What a request is at each query, and that no query has been open too long.
RequestInv ==
  \A r \in Requests :
    /\ pc[r] = "idle" => admittedAt[r] = None /\ r \notin afterLogout /\ guard[r] = "jwt"
    /\ pc[r] # "idle" => token[r] \in Tokens /\ sub[token[r]] \in Users
    /\ pc[r] \in {"askPerfil", "gotPerfil"} => route[r] = "admin" /\ claim[token[r]] \in Perfis
    /\ Admitted(r) => pc[r] = "done" /\ admittedAt[r] <= now
    /\ pc[r] \notin {"idle", "done"} => since[r] <= now /\ now <= since[r] + Latency

\* A request begun with a revoked token finds the row until it has expired, and
\* gets beyond isRevoked only then, which ends it at RolesAuthGuard.
RevokedInv ==
  \A r \in afterLogout :
    /\ token[r] \in revoked \/ exp[token[r]] < now
    /\ guard[r] = "roles" => pc[r] = "done"
    /\ pc[r] \in {"askUser", "gotUser"} => exp[token[r]] <= now
    /\ pc[r] \notin {"askPerfil", "gotPerfil"}

\* What says ADMIN was true when the query was sent or later: the profile in
\* the cache, and the answer a request holds.
PerfilInv ==
  /\ \A p \in Perfis :
       /\ IsAdmin(p) => lastAdmin[p] = now
       /\ lastAdmin[p] # None => lastAdmin[p] <= now
       /\ perfilCache[p] # None /\ perfilCache[p].admin
            => lastAdmin[p] # None /\ perfilCache[p].cachedAt <= lastAdmin[p]
  /\ \A r \in Requests :
       pc[r] = "gotPerfil" /\ seen[r] = "admin"
         => lastAdmin[Claimed(r)] # None /\ since[r] <= lastAdmin[Claimed(r)]

\* What says a deleted account is active was asked for before the deletion: the
\* entry in the cache,
UserCacheInv ==
  \A u \in Users :
    /\ ~Active(u) => deletedAt[u] <= now
    /\ validationCache[u] # None => validationCache[u].expiresAt <= now + CacheTTL
    /\ validationCache[u] # None /\ validationCache[u].valid /\ ~Active(u)
         => validationCache[u].expiresAt <= deletedAt[u] + CacheTTL + Latency

\* ... the answer a request holds, and what RolesAuthGuard went on from.
UserRequestInv ==
  \A r \in Requests :
    pc[r] # "idle" /\ ~Active(sub[token[r]]) =>
      /\ pc[r] = "gotUser" /\ seen[r] = "found" => since[r] <= deletedAt[sub[token[r]]]
      /\ pc[r] \in {"askPerfil", "gotPerfil"}
           => since[r] < deletedAt[sub[token[r]]] + CacheTTL + Latency

UserInv == UserCacheInv /\ UserRequestInv

Typed == TypeOK /\ RequestInv

\* The sweep drops entries and changes none.
LEMMA SweptDrops ==
  ASSUME NEW cache, NEW S, cache \in [Users -> S]
  PROVE  /\ Swept(cache) \in [Users -> S \cup {None}]
         /\ \A u \in Users : Swept(cache)[u] \in {cache[u], None}
BY DEF Swept

\* What a step of the guards does to its request.
Outcome(r, label, g, s, a) ==
  /\ pc' = [pc EXCEPT ![r] = label]
  /\ guard' = [guard EXCEPT ![r] = g]
  /\ since' = [since EXCEPT ![r] = s]
  /\ admittedAt' = [admittedAt EXCEPT ![r] = a]

Refused(r) == \E g \in {"jwt", "roles"}, s \in {since[r], now} :
                Outcome(r, "done", g, s, admittedAt[r])
LetIn(r) == \E g \in {"jwt", "roles"} : Outcome(r, "done", g, since[r], now)

\* validate accepted the user: the request is let in, by JwtAuthGuard alone or
\* by a cached ADMIN, is refused, or asks on.
ValidatedOutcome(r) ==
  \/ Refused(r)
  \/ LetIn(r) /\ route[r] = "jwt"
  \/ /\ LetIn(r) /\ route[r] = "admin" /\ guard[r] = "roles"
     /\ Claimed(r) # None /\ Known(Claimed(r)) /\ perfilCache[Claimed(r)].admin
  \/ /\ Outcome(r, "askRevoked", "roles", now, admittedAt[r])
     /\ route[r] = "admin" /\ guard[r] = "jwt" /\ ~Expired(token[r])
  \/ /\ Outcome(r, "askPerfil", "roles", now, admittedAt[r])
     /\ route[r] = "admin" /\ guard[r] = "roles" /\ Claimed(r) # None

LEMMA ValidatedCases ==
  ASSUME TypeOK, NEW r \in Requests, Validated(r)
  PROVE  ValidatedOutcome(r)
<1> USE DEF TypeOK, Validated, Outcome, Refused, LetIn, ValidatedOutcome
<1>1. CASE route[r] = "jwt"
  BY <1>1 DEF Admit
<1>2. CASE route[r] = "admin" /\ guard[r] = "jwt"
  BY <1>2
<1>3. CASE route[r] = "admin" /\ guard[r] = "roles"
  <2>1. CheckRoles(r)
    BY <1>3
  <2>2. CASE claim[token[r]] = None
    BY <1>3, <2>1, <2>2 DEF CheckRoles, Refuse, Goto
  <2>3. CASE claim[token[r]] # None /\ Known(claim[token[r]])
    BY <1>3, <2>1, <2>3 DEF CheckRoles, Refuse, Admit, Goto, Claimed
  <2>4. CASE claim[token[r]] # None /\ ~Known(claim[token[r]])
    BY <1>3, <2>1, <2>4 DEF CheckRoles, Ask, Goto, Claimed
  <2> QED
    BY <2>2, <2>3, <2>4
<1> QED
  BY <1>1, <1>2, <1>3

\* What CacheUser leaves in the cache.
LEMMA CacheEntry ==
  ASSUME TypeOK, CacheTTL \in Nat, NEW r \in Requests, CacheUser(r)
  PROVE  /\ validationCache' \in [Users -> {None} \cup [valid : BOOLEAN, expiresAt : Nat]]
         /\ \A u \in Users :
              \/ validationCache'[u] \in {validationCache[u], None}
              \/ /\ u = sub[token[r]]
                 /\ validationCache'[u].valid <=> seen[r] = "found"
                 /\ validationCache'[u].expiresAt = now + CacheTTL
<1> DEFINE entry == [valid |-> seen[r] = "found", expiresAt |-> now + CacheTTL]
           cache == [validationCache EXCEPT ![sub[token[r]]] = entry]
           Entries == {None} \cup [valid : BOOLEAN, expiresAt : Nat]
<1>1. entry \in [valid : BOOLEAN, expiresAt : Nat]
  <2>1. (seen[r] = "found") \in BOOLEAN
    OBVIOUS
  <2>2. now + CacheTTL \in Nat
    BY DEF TypeOK
  <2> QED
    BY <2>1, <2>2
<1>2. cache \in [Users -> Entries]
  BY <1>1 DEF TypeOK
<1>3. validationCache' = Swept(cache)
  BY DEF CacheUser
<1>4. /\ Swept(cache) \in [Users -> Entries \cup {None}]
      /\ \A u \in Users : Swept(cache)[u] \in {cache[u], None}
  <2> HIDE DEF cache, Entries
  <2> QED
    BY <1>2, SweptDrops
<1>5. \A u \in Users : cache[u] = validationCache[u] \/ (u = sub[token[r]] /\ cache[u] = entry)
  BY DEF TypeOK
<1>6. (entry.valid <=> seen[r] = "found") /\ entry.expiresAt = now + CacheTTL
  OBVIOUS
<1> QED
  <2> HIDE DEF entry, cache
  <2> QED
    BY <1>3, <1>4, <1>5, <1>6

\* What CachePerfil leaves in the cache, and what it does to its request.
LEMMA PerfilEntry ==
  ASSUME TypeOK, NEW r \in Requests, CachePerfil(r), claim[token[r]] \in Perfis
  PROVE  /\ perfilCache' \in [Perfis -> {None} \cup [admin : BOOLEAN, cachedAt : Nat]]
         /\ \A p \in Perfis :
              \/ perfilCache'[p] = perfilCache[p]
              \/ /\ p = claim[token[r]]
                 /\ perfilCache'[p].admin <=> seen[r] = "admin"
                 /\ perfilCache'[p].cachedAt = since[r]
         /\ \/ seen[r] = "admin" /\ Outcome(r, "done", guard[r], since[r], now)
            \/ Outcome(r, "done", guard[r], since[r], admittedAt[r])
<1> DEFINE entry == [admin |-> seen[r] = "admin", cachedAt |-> since[r]]
<1>1. /\ entry \in [admin : BOOLEAN, cachedAt : Nat]
      /\ entry.admin <=> seen[r] = "admin"
      /\ entry.cachedAt = since[r]
  <2>1. (seen[r] = "admin") \in BOOLEAN
    OBVIOUS
  <2>2. since[r] \in Nat
    BY DEF TypeOK
  <2> QED
    BY <2>1, <2>2
<1>2. \/ perfilCache' = perfilCache
      \/ perfilCache' = [perfilCache EXCEPT ![claim[token[r]]] = entry]
  BY DEF CachePerfil, CachedAt
<1>3. /\ perfilCache' \in [Perfis -> {None} \cup [admin : BOOLEAN, cachedAt : Nat]]
      /\ \A p \in Perfis : \/ perfilCache'[p] = perfilCache[p]
                           \/ p = claim[token[r]] /\ perfilCache'[p] = entry
  <2> HIDE DEF entry
  <2> QED
    BY <1>1, <1>2 DEF TypeOK
<1>4. \/ seen[r] = "admin" /\ Outcome(r, "done", guard[r], since[r], now)
      \/ Outcome(r, "done", guard[r], since[r], admittedAt[r])
  BY DEF CachePerfil, Admit, Refuse, Goto, Outcome, TypeOK
<1> QED
  <2> HIDE DEF entry
  <2> QED
    BY <1>1, <1>3, <1>4

\* The variables keep their types.
LEMMA TypeStep == Typed /\ [Next]_vars => TypeOK'
<1> SUFFICES ASSUME Typed, [Next]_vars PROVE TypeOK'
  OBVIOUS
<1> USE TimeAssumption, NoneAssumption, RoutesAssumption, SubAssumption
       
     DEF Typed, RequestInv, TypeOK, Labels, db, tokens, caches, given, past, Goto, Write,
         Remember
<1>1. ASSUME NEW r \in Requests, NEW t \in Tokens, NEW where \in Routes, Arrive(r, t, where)
      PROVE TypeOK'
  BY <1>1 DEF Arrive, Ask
<1>2. ASSUME NEW r \in Requests, CheckRevoked(r) PROVE TypeOK'
  <2> USE <1>2 DEF CheckRevoked, Outcome, Refused, LetIn, Fresh
  <2>1. CASE Refuse(r) /\ UNCHANGED since
    BY <2>1 DEF Refuse
  <2>2. CASE Ask(r, "askUser")
    BY <2>2 DEF Ask
  <2>3. CASE Validated(r) /\ Fresh(validationCache[sub[token[r]]])
             /\ validationCache[sub[token[r]]].valid
    <3>0. ValidatedOutcome(r)
      BY <2>3, ValidatedCases
    <3> USE <2>3
    <3>1. CASE Refused(r)
      BY <3>1
    <3>2. CASE LetIn(r) /\ route[r] = "jwt"
      BY <3>2
    <3>3. CASE /\ LetIn(r) /\ route[r] = "admin" /\ guard[r] = "roles"
               /\ Claimed(r) # None /\ Known(Claimed(r)) /\ perfilCache[Claimed(r)].admin
      BY <3>3
    <3>4. CASE /\ Outcome(r, "askRevoked", "roles", now, admittedAt[r])
               /\ route[r] = "admin" /\ guard[r] = "jwt" /\ ~Expired(token[r])
      BY <3>4
    <3>5. CASE /\ Outcome(r, "askPerfil", "roles", now, admittedAt[r])
               /\ route[r] = "admin" /\ guard[r] = "roles" /\ Claimed(r) # None
      BY <3>5 DEF Claimed
    <3> QED
      BY <3>0, <3>1, <3>2, <3>3, <3>4, <3>5 DEF ValidatedOutcome
  <2> QED
    BY <2>1, <2>2, <2>3
<1>3. ASSUME NEW r \in Requests, ReadUser(r) PROVE TypeOK'
  BY <1>3 DEF ReadUser
<1>4. ASSUME NEW r \in Requests, CacheUser(r) PROVE TypeOK'
  <2> USE DEF Outcome, Refused, LetIn
  <2>0. pc[r] = "gotUser" /\ UNCHANGED <<now, db, tokens, perfilCache, given, seen, past>>
    BY <1>4 DEF CacheUser
  <2>1. /\ validationCache' \in [Users -> {None} \cup [valid : BOOLEAN, expiresAt : Nat]]
        /\ \A u \in Users :
             \/ validationCache'[u] \in {validationCache[u], None}
             \/ /\ u = sub[token[r]]
                /\ validationCache'[u].valid <=> seen[r] = "found"
                /\ validationCache'[u].expiresAt = now + CacheTTL
    BY <1>4, CacheEntry
  <2>2. CASE Refuse(r) /\ UNCHANGED since /\ seen[r] # "found"
    BY <2>0, <2>1, <2>2 DEF Refuse
  <2>3. CASE Validated(r) /\ seen[r] = "found"
    <3>0. ValidatedOutcome(r)
      BY <2>3, ValidatedCases
    <3> USE <2>0, <2>1, <2>3
    <3>1. CASE Refused(r)
      BY <3>1
    <3>2. CASE LetIn(r) /\ route[r] = "jwt"
      BY <3>2
    <3>3. CASE /\ LetIn(r) /\ route[r] = "admin" /\ guard[r] = "roles"
               /\ Claimed(r) # None /\ Known(Claimed(r)) /\ perfilCache[Claimed(r)].admin
      BY <3>3
    <3>4. CASE /\ Outcome(r, "askRevoked", "roles", now, admittedAt[r])
               /\ route[r] = "admin" /\ guard[r] = "jwt" /\ ~Expired(token[r])
      BY <3>4
    <3>5. CASE /\ Outcome(r, "askPerfil", "roles", now, admittedAt[r])
               /\ route[r] = "admin" /\ guard[r] = "roles" /\ Claimed(r) # None
      BY <3>5 DEF Claimed
    <3> QED
      BY <3>0, <3>1, <3>2, <3>3, <3>4, <3>5 DEF ValidatedOutcome
  <2> QED
    BY <1>4, <2>2, <2>3 DEF CacheUser
<1>5. ASSUME NEW r \in Requests, ReadPerfil(r) PROVE TypeOK'
  BY <1>5 DEF ReadPerfil
<1>6. ASSUME NEW r \in Requests, CachePerfil(r) PROVE TypeOK'
  <2>1. /\ pc[r] = "gotPerfil" /\ claim[token[r]] \in Perfis
        /\ UNCHANGED <<now, db, tokens, validationCache, given, seen, past>>
    BY <1>6 DEF CachePerfil
  <2>2. /\ perfilCache' \in [Perfis -> {None} \cup [admin : BOOLEAN, cachedAt : Nat]]
        /\ \A p \in Perfis :
             \/ perfilCache'[p] = perfilCache[p]
             \/ /\ p = claim[token[r]]
                /\ perfilCache'[p].admin <=> seen[r] = "admin"
                /\ perfilCache'[p].cachedAt = since[r]
        /\ \/ seen[r] = "admin" /\ Outcome(r, "done", guard[r], since[r], now)
           \/ Outcome(r, "done", guard[r], since[r], admittedAt[r])
    BY <1>6, <2>1, PerfilEntry
  <2>3. /\ pc' \in [Requests -> Labels] /\ guard' \in [Requests -> {"jwt", "roles"}]
        /\ since' \in [Requests -> Nat] /\ admittedAt' \in [Requests -> Nat \cup {None}]
    <3>1. CASE Outcome(r, "done", guard[r], since[r], now)
      BY <3>1 DEF Outcome
    <3>2. CASE Outcome(r, "done", guard[r], since[r], admittedAt[r])
      BY <3>2 DEF Outcome
    <3> QED
      BY <2>2, <3>1, <3>2
  <2> QED
    BY <2>1, <2>2, <2>3
<1>7. ASSUME NEW t \in Tokens, Revoke(t) PROVE TypeOK'
  BY <1>7 DEF Revoke
<1>8. ASSUME NEW t \in Tokens, NEW u \in Users, Sign(t, u) PROVE TypeOK'
  BY <1>8 DEF Sign
<1>9. ASSUME NEW u \in Users, SoftDeleteUser(u) PROVE TypeOK'
  BY <1>9 DEF SoftDeleteUser
<1>10. ASSUME NEW u \in Users, NEW p \in Perfis, ChangePerfil(u, p) PROVE TypeOK'
  BY <1>10 DEF ChangePerfil
<1>11. ASSUME NEW p \in Perfis, RenamePerfil(p) PROVE TypeOK'
  BY <1>11 DEF RenamePerfil
<1>12. ASSUME NEW p \in Perfis, DeletePerfil(p) PROVE TypeOK'
  BY <1>12 DEF DeletePerfil
<1>13. ASSUME PurgeExpired PROVE TypeOK'
  BY <1>13 DEF PurgeExpired
<1>14. ASSUME Restart PROVE TypeOK'
  BY <1>14 DEF Restart
<1>15. ASSUME Tick PROVE TypeOK'
  BY <1>15 DEF Tick
<1>16. ASSUME UNCHANGED vars PROVE TypeOK'
  BY <1>16 DEF vars
<1> QED
  BY <1>1, <1>2, <1>3, <1>4, <1>5, <1>6, <1>7, <1>8, <1>9, <1>10, <1>11, <1>12, <1>13,
     <1>14, <1>15, <1>16
     DEF Next, Step, Others

\* Requests stay in order, and Tick waits for them.
LEMMA RequestStep == Typed /\ TypeOK' /\ [Next]_vars => RequestInv'
<1> SUFFICES ASSUME Typed /\ TypeOK', [Next]_vars PROVE RequestInv'
  OBVIOUS
<1> USE TimeAssumption, NoneAssumption, RoutesAssumption, SubAssumption
       
     DEF Typed, RequestInv, Admitted, Waiting, Expired, TypeOK, Labels, db, tokens, caches,
         given, past, Goto, Write, Remember
<1>1. ASSUME NEW r \in Requests, NEW t \in Tokens, NEW where \in Routes, Arrive(r, t, where)
      PROVE RequestInv'
  BY <1>1 DEF Arrive, Ask
<1>2. ASSUME NEW r \in Requests, CheckRevoked(r) PROVE RequestInv'
  <2> USE <1>2 DEF CheckRevoked, Outcome, Refused, LetIn, Fresh
  <2>1. CASE Refuse(r) /\ UNCHANGED since
    BY <2>1 DEF Refuse
  <2>2. CASE Ask(r, "askUser")
    BY <2>2 DEF Ask
  <2>3. CASE Validated(r) /\ Fresh(validationCache[sub[token[r]]])
             /\ validationCache[sub[token[r]]].valid
    <3>0. ValidatedOutcome(r)
      BY <2>3, ValidatedCases
    <3> USE <2>3
    <3>1. CASE Refused(r)
      BY <3>1
    <3>2. CASE LetIn(r) /\ route[r] = "jwt"
      BY <3>2
    <3>3. CASE /\ LetIn(r) /\ route[r] = "admin" /\ guard[r] = "roles"
               /\ Claimed(r) # None /\ Known(Claimed(r)) /\ perfilCache[Claimed(r)].admin
      BY <3>3
    <3>4. CASE /\ Outcome(r, "askRevoked", "roles", now, admittedAt[r])
               /\ route[r] = "admin" /\ guard[r] = "jwt" /\ ~Expired(token[r])
      BY <3>4
    <3>5. CASE /\ Outcome(r, "askPerfil", "roles", now, admittedAt[r])
               /\ route[r] = "admin" /\ guard[r] = "roles" /\ Claimed(r) # None
      BY <3>5 DEF Claimed
    <3> QED
      BY <3>0, <3>1, <3>2, <3>3, <3>4, <3>5 DEF ValidatedOutcome
  <2> QED
    BY <2>1, <2>2, <2>3
<1>3. ASSUME NEW r \in Requests, ReadUser(r) PROVE RequestInv'
  BY <1>3 DEF ReadUser
<1>4. ASSUME NEW r \in Requests, CacheUser(r) PROVE RequestInv'
  BY <1>4 DEF CacheUser, Refuse, Ask, Validated, CheckRoles, Admit
<1>5. ASSUME NEW r \in Requests, ReadPerfil(r) PROVE RequestInv'
  BY <1>5 DEF ReadPerfil
<1>6. ASSUME NEW r \in Requests, CachePerfil(r) PROVE RequestInv'
  BY <1>6 DEF CachePerfil, CachedAt, Refuse, Admit
<1>7. ASSUME NEW t \in Tokens, Revoke(t) PROVE RequestInv'
  BY <1>7 DEF Revoke
<1>8. ASSUME NEW t \in Tokens, NEW u \in Users, Sign(t, u) PROVE RequestInv'
  BY <1>8 DEF Sign
<1>9. ASSUME NEW u \in Users, SoftDeleteUser(u) PROVE RequestInv'
  BY <1>9 DEF SoftDeleteUser
<1>10. ASSUME NEW u \in Users, NEW p \in Perfis, ChangePerfil(u, p) PROVE RequestInv'
  BY <1>10 DEF ChangePerfil
<1>11. ASSUME NEW p \in Perfis, RenamePerfil(p) PROVE RequestInv'
  BY <1>11 DEF RenamePerfil
<1>12. ASSUME NEW p \in Perfis, DeletePerfil(p) PROVE RequestInv'
  BY <1>12 DEF DeletePerfil
<1>13. ASSUME PurgeExpired PROVE RequestInv'
  BY <1>13 DEF PurgeExpired
<1>14. ASSUME Restart PROVE RequestInv'
  BY <1>14 DEF Restart
<1>15. ASSUME Tick PROVE RequestInv'
  BY <1>15 DEF Tick
<1>16. ASSUME UNCHANGED vars PROVE RequestInv'
  BY <1>16 DEF vars
<1> QED
  BY <1>1, <1>2, <1>3, <1>4, <1>5, <1>6, <1>7, <1>8, <1>9, <1>10, <1>11, <1>12, <1>13,
     <1>14, <1>15, <1>16
     DEF Next, Step, Others

\* The purge and the expiry never open the way to an administrators' route.
LEMMA RevokedStep ==
  Typed /\ RevokedInv /\ RevokedAdmittedOnlyAtExpiry /\ [Next]_vars
    => (RevokedInv /\ RevokedAdmittedOnlyAtExpiry)'
<1> SUFFICES ASSUME Typed /\ RevokedInv /\ RevokedAdmittedOnlyAtExpiry,
     [Next]_vars PROVE (RevokedInv /\ RevokedAdmittedOnlyAtExpiry)'
  OBVIOUS
<1> USE TimeAssumption, NoneAssumption, RoutesAssumption, SubAssumption
       
     DEF Typed, RequestInv, RevokedInv, RevokedAdmittedOnlyAtExpiry, Admitted, Expired,
         TypeOK, Labels, db, tokens, caches, given, past, Goto, Write, Remember
<1>1. ASSUME NEW r \in Requests, NEW t \in Tokens, NEW where \in Routes, Arrive(r, t, where)
      PROVE (RevokedInv /\ RevokedAdmittedOnlyAtExpiry)'
  BY <1>1 DEF Arrive, Ask
<1>2. ASSUME NEW r \in Requests, CheckRevoked(r)
      PROVE (RevokedInv /\ RevokedAdmittedOnlyAtExpiry)'
  BY <1>2 DEF CheckRevoked, Refuse, Ask, Validated, CheckRoles, Admit, IsRevoked
<1>3. ASSUME NEW r \in Requests, ReadUser(r) PROVE (RevokedInv /\ RevokedAdmittedOnlyAtExpiry)'
  BY <1>3 DEF ReadUser
<1>4. ASSUME NEW r \in Requests, CacheUser(r)
      PROVE (RevokedInv /\ RevokedAdmittedOnlyAtExpiry)'
  BY <1>4 DEF CacheUser, Refuse, Ask, Validated, CheckRoles, Admit
<1>5. ASSUME NEW r \in Requests, ReadPerfil(r)
      PROVE (RevokedInv /\ RevokedAdmittedOnlyAtExpiry)'
  BY <1>5 DEF ReadPerfil
<1>6. ASSUME NEW r \in Requests, CachePerfil(r)
      PROVE (RevokedInv /\ RevokedAdmittedOnlyAtExpiry)'
  BY <1>6 DEF CachePerfil, CachedAt, Refuse, Admit
<1>7. ASSUME NEW t \in Tokens, Revoke(t) PROVE (RevokedInv /\ RevokedAdmittedOnlyAtExpiry)'
  BY <1>7 DEF Revoke
<1>8. ASSUME NEW t \in Tokens, NEW u \in Users, Sign(t, u)
      PROVE (RevokedInv /\ RevokedAdmittedOnlyAtExpiry)'
  BY <1>8 DEF Sign
<1>9. ASSUME NEW u \in Users, SoftDeleteUser(u)
      PROVE (RevokedInv /\ RevokedAdmittedOnlyAtExpiry)'
  BY <1>9 DEF SoftDeleteUser
<1>10. ASSUME NEW u \in Users, NEW p \in Perfis, ChangePerfil(u, p)
      PROVE (RevokedInv /\ RevokedAdmittedOnlyAtExpiry)'
  BY <1>10 DEF ChangePerfil
<1>11. ASSUME NEW p \in Perfis, RenamePerfil(p)
      PROVE (RevokedInv /\ RevokedAdmittedOnlyAtExpiry)'
  BY <1>11 DEF RenamePerfil
<1>12. ASSUME NEW p \in Perfis, DeletePerfil(p)
      PROVE (RevokedInv /\ RevokedAdmittedOnlyAtExpiry)'
  BY <1>12 DEF DeletePerfil
<1>13. ASSUME PurgeExpired PROVE (RevokedInv /\ RevokedAdmittedOnlyAtExpiry)'
  BY <1>13 DEF PurgeExpired
<1>14. ASSUME Restart PROVE (RevokedInv /\ RevokedAdmittedOnlyAtExpiry)'
  BY <1>14 DEF Restart
<1>15. ASSUME Tick PROVE (RevokedInv /\ RevokedAdmittedOnlyAtExpiry)'
  BY <1>15 DEF Tick
<1>16. ASSUME UNCHANGED vars PROVE (RevokedInv /\ RevokedAdmittedOnlyAtExpiry)'
  BY <1>16 DEF vars
<1> QED
  BY <1>1, <1>2, <1>3, <1>4, <1>5, <1>6, <1>7, <1>8, <1>9, <1>10, <1>11, <1>12, <1>13,
     <1>14, <1>15, <1>16
     DEF Next, Step, Others

\* The age of a cached name counts from before the query.
LEMMA PerfilStep ==
  Typed /\ TypeOK' /\ PerfilInv /\ PerfilStaleness /\ [Next]_vars
    => (PerfilInv /\ PerfilStaleness)'
<1> SUFFICES ASSUME Typed /\ TypeOK' /\ PerfilInv /\ PerfilStaleness,
     [Next]_vars PROVE (PerfilInv /\ PerfilStaleness)'
  OBVIOUS
<1> USE TimeAssumption, NoneAssumption, RoutesAssumption, SubAssumption
       
     DEF Typed, RequestInv, PerfilInv, PerfilStaleness, Admitted, Claimed, IsAdmin, Known,
         TypeOK, Labels, db, tokens, caches, given, past, Goto, Write, Remember
<1>1. ASSUME NEW r \in Requests, NEW t \in Tokens, NEW where \in Routes, Arrive(r, t, where)
      PROVE (PerfilInv /\ PerfilStaleness)'
  BY <1>1 DEF Arrive, Ask
<1>2. ASSUME NEW r \in Requests, CheckRevoked(r) PROVE (PerfilInv /\ PerfilStaleness)'
  BY <1>2 DEF CheckRevoked, Refuse, Ask, Validated, CheckRoles, Admit, IsRevoked
<1>3. ASSUME NEW r \in Requests, ReadUser(r) PROVE (PerfilInv /\ PerfilStaleness)'
  BY <1>3 DEF ReadUser
<1>4. ASSUME NEW r \in Requests, CacheUser(r) PROVE (PerfilInv /\ PerfilStaleness)'
  BY <1>4 DEF CacheUser, Refuse, Ask, Validated, CheckRoles, Admit
<1>5. ASSUME NEW r \in Requests, ReadPerfil(r) PROVE (PerfilInv /\ PerfilStaleness)'
  BY <1>5 DEF ReadPerfil
<1>6. ASSUME NEW r \in Requests, CachePerfil(r) PROVE (PerfilInv /\ PerfilStaleness)'
  <2>1. /\ pc[r] = "gotPerfil" /\ claim[token[r]] \in Perfis
        /\ UNCHANGED <<now, db, tokens, validationCache, given, seen, past>>
    BY <1>6 DEF CachePerfil
  <2>2. /\ perfilCache' \in [Perfis -> {None} \cup [admin : BOOLEAN, cachedAt : Nat]]
        /\ \A p \in Perfis :
             \/ perfilCache'[p] = perfilCache[p]
             \/ /\ p = claim[token[r]]
                /\ perfilCache'[p].admin <=> seen[r] = "admin"
                /\ perfilCache'[p].cachedAt = since[r]
        /\ \/ seen[r] = "admin" /\ Outcome(r, "done", guard[r], since[r], now)
           \/ Outcome(r, "done", guard[r], since[r], admittedAt[r])
    BY <1>6, <2>1, PerfilEntry
  <2> QED
    BY <2>1, <2>2 DEF Outcome
<1>7. ASSUME NEW t \in Tokens, Revoke(t) PROVE (PerfilInv /\ PerfilStaleness)'
  BY <1>7 DEF Revoke
<1>8. ASSUME NEW t \in Tokens, NEW u \in Users, Sign(t, u)
      PROVE (PerfilInv /\ PerfilStaleness)'
  BY <1>8 DEF Sign
<1>9. ASSUME NEW u \in Users, SoftDeleteUser(u) PROVE (PerfilInv /\ PerfilStaleness)'
  BY <1>9 DEF SoftDeleteUser
<1>10. ASSUME NEW u \in Users, NEW p \in Perfis, ChangePerfil(u, p)
      PROVE (PerfilInv /\ PerfilStaleness)'
  BY <1>10 DEF ChangePerfil
<1>11. ASSUME NEW p \in Perfis, RenamePerfil(p) PROVE (PerfilInv /\ PerfilStaleness)'
  BY <1>11 DEF RenamePerfil
<1>12. ASSUME NEW p \in Perfis, DeletePerfil(p) PROVE (PerfilInv /\ PerfilStaleness)'
  BY <1>12 DEF DeletePerfil
<1>13. ASSUME PurgeExpired PROVE (PerfilInv /\ PerfilStaleness)'
  BY <1>13 DEF PurgeExpired
<1>14. ASSUME Restart PROVE (PerfilInv /\ PerfilStaleness)'
  BY <1>14 DEF Restart
<1>15. ASSUME Tick PROVE (PerfilInv /\ PerfilStaleness)'
  BY <1>15 DEF Tick
<1>16. ASSUME UNCHANGED vars PROVE (PerfilInv /\ PerfilStaleness)'
  BY <1>16 DEF vars
<1> QED
  BY <1>1, <1>2, <1>3, <1>4, <1>5, <1>6, <1>7, <1>8, <1>9, <1>10, <1>11, <1>12, <1>13,
     <1>14, <1>15, <1>16
     DEF Next, Step, Others

\* An answer is old by the latency when it is cached, and then by CacheTTL.
LEMMA UserStep ==
  Typed /\ TypeOK' /\ UserInv /\ UserStaleness /\ [Next]_vars
    => (UserInv /\ UserStaleness)'
<1> SUFFICES ASSUME Typed /\ TypeOK' /\ UserInv /\ UserStaleness,
     [Next]_vars PROVE (UserInv /\ UserStaleness)'
  OBVIOUS
<1> USE TimeAssumption, NoneAssumption, RoutesAssumption, SubAssumption
       
     DEF Typed, RequestInv, UserInv, UserCacheInv, UserRequestInv, UserStaleness, Admitted,
         Active, Fresh, TypeOK, Labels, db, tokens, caches, given, past, Goto, Write,
         Remember
<1>1. ASSUME NEW r \in Requests, NEW t \in Tokens, NEW where \in Routes, Arrive(r, t, where)
      PROVE (UserInv /\ UserStaleness)'
  BY <1>1 DEF Arrive, Ask
<1>2. ASSUME NEW r \in Requests, CheckRevoked(r) PROVE (UserInv /\ UserStaleness)'
  <2> USE <1>2 DEF CheckRevoked, Outcome, Refused, LetIn, Fresh
  <2>1. CASE Refuse(r) /\ UNCHANGED since
    BY <2>1 DEF Refuse
  <2>2. CASE Ask(r, "askUser")
    BY <2>2 DEF Ask
  <2>3. CASE Validated(r) /\ Fresh(validationCache[sub[token[r]]])
             /\ validationCache[sub[token[r]]].valid
    <3>0. ValidatedOutcome(r)
      BY <2>3, ValidatedCases
    <3> USE <2>3
    <3>1. CASE Refused(r)
      BY <3>1
    <3>2. CASE LetIn(r) /\ route[r] = "jwt"
      BY <3>2
    <3>3. CASE /\ LetIn(r) /\ route[r] = "admin" /\ guard[r] = "roles"
               /\ Claimed(r) # None /\ Known(Claimed(r)) /\ perfilCache[Claimed(r)].admin
      BY <3>3
    <3>4. CASE /\ Outcome(r, "askRevoked", "roles", now, admittedAt[r])
               /\ route[r] = "admin" /\ guard[r] = "jwt" /\ ~Expired(token[r])
      BY <3>4
    <3>5. CASE /\ Outcome(r, "askPerfil", "roles", now, admittedAt[r])
               /\ route[r] = "admin" /\ guard[r] = "roles" /\ Claimed(r) # None
      BY <3>5 DEF Claimed
    <3> QED
      BY <3>0, <3>1, <3>2, <3>3, <3>4, <3>5 DEF ValidatedOutcome
  <2> QED
    BY <2>1, <2>2, <2>3
<1>3. ASSUME NEW r \in Requests, ReadUser(r) PROVE (UserInv /\ UserStaleness)'
  BY <1>3 DEF ReadUser
<1>4. ASSUME NEW r \in Requests, CacheUser(r) PROVE (UserInv /\ UserStaleness)'
  <2> USE DEF Outcome, Refused, LetIn
  <2>0. pc[r] = "gotUser" /\ UNCHANGED <<now, db, tokens, perfilCache, given, seen, past>>
    BY <1>4 DEF CacheUser
  <2>1. /\ validationCache' \in [Users -> {None} \cup [valid : BOOLEAN, expiresAt : Nat]]
        /\ \A u \in Users :
             \/ validationCache'[u] \in {validationCache[u], None}
             \/ /\ u = sub[token[r]]
                /\ validationCache'[u].valid <=> seen[r] = "found"
                /\ validationCache'[u].expiresAt = now + CacheTTL
    BY <1>4, CacheEntry
  <2>2. CASE Refuse(r) /\ UNCHANGED since /\ seen[r] # "found"
    BY <2>0, <2>1, <2>2 DEF Refuse
  <2>3. CASE Validated(r) /\ seen[r] = "found"
    <3>0. ValidatedOutcome(r)
      BY <2>3, ValidatedCases
    <3>a. token[r] \in Tokens /\ sub[token[r]] \in Users
      BY <2>0
    <3>b. since[r] \in Nat /\ now <= since[r] + Latency
      BY <2>0
    <3>c. ~Active(sub[token[r]]) => /\ deletedAt[sub[token[r]]] \in Nat
                                    /\ since[r] <= deletedAt[sub[token[r]]]
      BY <2>0, <2>3, <3>a
    <3>d. ~Active(sub[token[r]]) => now <= deletedAt[sub[token[r]]] + Latency
      BY <3>b, <3>c
    <3>e. UserCacheInv'
      <4> SUFFICES ASSUME NEW u \in Users
                   PROVE  /\ ~Active(u)' => deletedAt'[u] <= now'
                          /\ validationCache'[u] # None
                               => validationCache'[u].expiresAt <= now' + CacheTTL
                          /\ validationCache'[u] # None /\ validationCache'[u].valid
                                 /\ ~Active(u)'
                               => validationCache'[u].expiresAt
                                    <= deletedAt'[u] + CacheTTL + Latency
        OBVIOUS
      <4>1. CASE validationCache'[u] \in {validationCache[u], None}
        BY <2>0, <4>1
      <4>2. CASE /\ u = sub[token[r]]
                 /\ validationCache'[u].valid <=> seen[r] = "found"
                 /\ validationCache'[u].expiresAt = now + CacheTTL
        BY <2>0, <3>b, <3>c, <3>d, <4>2
      <4> QED
        BY <2>1, <4>1, <4>2
    <3> SUFFICES (UserRequestInv /\ UserStaleness)'
      BY <3>e
    <3> USE <2>0, <3>a, <3>b, <3>c, <3>d
    <3>1. CASE Refused(r)
      BY <3>1
    <3>2. CASE LetIn(r) /\ route[r] = "jwt"
      BY <3>2
    <3>3. CASE /\ LetIn(r) /\ route[r] = "admin" /\ guard[r] = "roles"
               /\ Claimed(r) # None /\ Known(Claimed(r)) /\ perfilCache[Claimed(r)].admin
      BY <3>3
    <3>4. CASE /\ Outcome(r, "askRevoked", "roles", now, admittedAt[r])
               /\ route[r] = "admin" /\ guard[r] = "jwt" /\ ~Expired(token[r])
      BY <3>4
    <3>5. CASE /\ Outcome(r, "askPerfil", "roles", now, admittedAt[r])
               /\ route[r] = "admin" /\ guard[r] = "roles" /\ Claimed(r) # None
      BY <3>5 DEF Claimed
    <3> QED
      BY <3>0, <3>1, <3>2, <3>3, <3>4, <3>5 DEF ValidatedOutcome
  <2> QED
    BY <1>4, <2>2, <2>3 DEF CacheUser
<1>5. ASSUME NEW r \in Requests, ReadPerfil(r) PROVE (UserInv /\ UserStaleness)'
  BY <1>5 DEF ReadPerfil
<1>6. ASSUME NEW r \in Requests, CachePerfil(r) PROVE (UserInv /\ UserStaleness)'
  <2>1. /\ pc[r] = "gotPerfil" /\ claim[token[r]] \in Perfis
        /\ UNCHANGED <<now, db, tokens, validationCache, given, seen, past>>
    BY <1>6 DEF CachePerfil
  <2>2. /\ perfilCache' \in [Perfis -> {None} \cup [admin : BOOLEAN, cachedAt : Nat]]
        /\ \A p \in Perfis :
             \/ perfilCache'[p] = perfilCache[p]
             \/ /\ p = claim[token[r]]
                /\ perfilCache'[p].admin <=> seen[r] = "admin"
                /\ perfilCache'[p].cachedAt = since[r]
        /\ \/ seen[r] = "admin" /\ Outcome(r, "done", guard[r], since[r], now)
           \/ Outcome(r, "done", guard[r], since[r], admittedAt[r])
    BY <1>6, <2>1, PerfilEntry
  <2> QED
    BY <2>1, <2>2 DEF Outcome
<1>7. ASSUME NEW t \in Tokens, Revoke(t) PROVE (UserInv /\ UserStaleness)'
  BY <1>7 DEF Revoke
<1>8. ASSUME NEW t \in Tokens, NEW u \in Users, Sign(t, u) PROVE (UserInv /\ UserStaleness)'
  BY <1>8 DEF Sign
<1>9. ASSUME NEW u \in Users, SoftDeleteUser(u) PROVE (UserInv /\ UserStaleness)'
  BY <1>9 DEF SoftDeleteUser
<1>10. ASSUME NEW u \in Users, NEW p \in Perfis, ChangePerfil(u, p)
      PROVE (UserInv /\ UserStaleness)'
  BY <1>10 DEF ChangePerfil
<1>11. ASSUME NEW p \in Perfis, RenamePerfil(p) PROVE (UserInv /\ UserStaleness)'
  BY <1>11 DEF RenamePerfil
<1>12. ASSUME NEW p \in Perfis, DeletePerfil(p) PROVE (UserInv /\ UserStaleness)'
  BY <1>12 DEF DeletePerfil
<1>13. ASSUME PurgeExpired PROVE (UserInv /\ UserStaleness)'
  BY <1>13 DEF PurgeExpired
<1>14. ASSUME Restart PROVE (UserInv /\ UserStaleness)'
  BY <1>14 DEF Restart
<1>15. ASSUME Tick PROVE (UserInv /\ UserStaleness)'
  BY <1>15 DEF Tick
<1>16. ASSUME UNCHANGED vars PROVE (UserInv /\ UserStaleness)'
  BY <1>16 DEF vars
<1> QED
  BY <1>1, <1>2, <1>3, <1>4, <1>5, <1>6, <1>7, <1>8, <1>9, <1>10, <1>11, <1>12, <1>13,
     <1>14, <1>15, <1>16
     DEF Next, Step, Others

-------------------------------------------------------------------------------

IInv ==
  /\ Typed
  /\ RevokedInv /\ RevokedAdmittedOnlyAtExpiry
  /\ PerfilInv /\ PerfilStaleness
  /\ UserInv /\ UserStaleness

LEMMA InitInv == Init => IInv
<1> SUFFICES ASSUME Init PROVE IInv
  OBVIOUS
<1> USE TimeAssumption, NoneAssumption, SubAssumption DEF Init, Admitted
<1>1. TypeOK
  BY DEF TypeOK, Labels
<1>2. RequestInv
  BY DEF RequestInv
<1>3. RevokedInv /\ RevokedAdmittedOnlyAtExpiry
  BY DEF RevokedInv, RevokedAdmittedOnlyAtExpiry
<1>4. PerfilInv /\ PerfilStaleness
  BY DEF PerfilInv, PerfilStaleness, IsAdmin
<1>5. UserInv /\ UserStaleness
  BY DEF UserInv, UserCacheInv, UserRequestInv, UserStaleness, Active
<1> QED
  BY <1>1, <1>2, <1>3, <1>4, <1>5 DEF IInv, Typed

\* The invariant behind the theorems below.
THEOREM Invariance == Spec => []IInv
<1>1. IInv /\ [Next]_vars => IInv'
  BY TypeStep, RequestStep, RevokedStep, PerfilStep, UserStep DEF IInv, Typed
<1> QED
  BY InitInv, <1>1, PTL DEF Spec

\* The variables keep their types.
THEOREM TypeCorrect == Spec => []TypeOK
<1>1. IInv => TypeOK
  BY DEF IInv, Typed
<1> QED
  BY Invariance, <1>1, PTL

\* A deleted account is let in for less than CacheTTL and the time of one query,
\* two behind RolesAuthGuard, however many requests fill the cache (JwtStrategy).
THEOREM DeletedNotForLong == Spec => []UserStaleness
<1>1. IInv => UserStaleness
  BY DEF IInv
<1> QED
  BY Invariance, <1>1, PTL

\* A profile that is not an active ADMIN any more opens the administrators'
\* routes for less than PerfilTTL (RolesAuthGuard.checkRoles).
THEOREM DemotedNotForLong == Spec => []PerfilStaleness
<1>1. IInv => PerfilStaleness
  BY DEF IInv
<1> QED
  BY Invariance, <1>1, PTL

\* A request begun with a revoked token is let in only by JwtAuthGuard alone, and
\* only once the token has expired (JwtStrategy.validate, isRevoked, purgeExpired).
THEOREM RevokedIsOut == Spec => []RevokedAdmittedOnlyAtExpiry
<1>1. IInv => RevokedAdmittedOnlyAtExpiry
  BY DEF IInv
<1> QED
  BY Invariance, <1>1, PTL
===============================================================================
