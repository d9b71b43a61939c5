----------------------------- MODULE SistemaProofs -----------------------------
(***************************************************************************)
(* AuthService is an environment that AccessGuard allows for: Sistema      *)
(* implements the specification of the guards, for any users, tokens,      *)
(* requests, visits and lifetimes.  So what AccessGuardProofs proves of    *)
(* the guards with an environment that signs and revokes at will holds     *)
(* with the sessions as they are, and a logout takes effect.               *)
(*                                                                         *)
(* An access token exists from the answer of the request that signed it;   *)
(* every step of AuthService leaves these tokens as they are (SameTokens)  *)
(* or brings a new one (NewToken).                                         *)
(*                                                                         *)
(* That a logout ends all sessions of its user is about the sessions alone *)
(* and takes an invariant for each stage: while the logout runs, nothing   *)
(* else stores a pair of its user (AloneInv); once it is answered, no      *)
(* request can continue a session it ended (ClosedInv).                    *)
(***************************************************************************)
EXTENDS Sistema, AuthRequestsProofs

SameTokens ==
  \A t \in Tokens :
    /\ Signed(t)' <=> Signed(t)
    /\ Signed(t) => owner'[t] = owner[t] /\ accessExp'[t] = accessExp[t]

NewToken(t, u) ==
  /\ ~Signed(t) /\ Signed(t)'
  /\ owner'[t] = u /\ accessExp'[t] = now + AccessTTL
  /\ \A s \in Tokens \ {t} :
       /\ Signed(s)' <=> Signed(s)
       /\ Signed(s) => owner'[s] = owner[s] /\ accessExp'[s] = accessExp[s]

\* What ties the sessions to the guards' view of them.
LinkInv ==
  /\ \A r \in Requests : answer[r] = 201 => op[r] = "register"
  /\ \A t \in revoked : Signed(t)
  /\ \A t \in Tokens : Signed(t) => owner[t] \in Users
  /\ \A u \in Users : account[u] # "deleted" => deletedAt[u] = None

SystemInv == RequestsInv /\ LinkInv

QuietStep(r) ==
  \/ InsertToken(r) \/ InsertUserConflict(r) \/ DropExpired(r) \/ FindUserDeleted(r)
  \/ RotateDelete(r) \/ RotateInsert(r) \/ LogoutSnapshot(r) \/ LogoutSweep(r)
  \/ LogoutRevoke(r) \/ Fail(r)
  \/ Respond(r) /\ op[r] # "refresh"

\* Most steps of a request bring no access token.
LEMMA Quiet ==
  ASSUME SystemInv, NEW r \in Requests
  PROVE  /\ \A u \in Users : LoginRejected(r, u) \/ RegisterCheck(r, u) => SameTokens
         /\ \A t \in Tokens :
              RefreshFind(r, t) \/ LogoutArrive(r, t) \/ FindUser(r, t) => SameTokens
         /\ QuietStep(r) => SameTokens
<1> USE SessionsAssumption
        DEF SystemInv, RequestsInv, LogoutInv, IInv, TypeOK, RequestInv, StoreInv, SameTokens,
            Signed, Goto, Answer, dbVars, tokenVars, inputVars
<1>1. ASSUME NEW u \in Users, LoginRejected(r, u) PROVE SameTokens
  BY <1>1 DEF LoginRejected, Begin
<1>2. ASSUME NEW u \in Users, RegisterCheck(r, u) PROVE SameTokens
  BY <1>2 DEF RegisterCheck, Begin
<1>3. ASSUME NEW t \in Tokens, RefreshFind(r, t) PROVE SameTokens
  BY <1>3 DEF RefreshFind, Begin
<1>4. ASSUME NEW t \in Tokens, LogoutArrive(r, t) PROVE SameTokens
  BY <1>4 DEF LogoutArrive, Begin
<1>5. ASSUME NEW t \in Tokens, FindUser(r, t) PROVE SameTokens
  BY <1>5 DEF FindUser, Sign
<1>6. ASSUME InsertToken(r) PROVE SameTokens
  BY <1>6 DEF InsertToken
<1>7. ASSUME InsertUserConflict(r) PROVE SameTokens
  BY <1>7 DEF InsertUserConflict
<1>8. ASSUME DropExpired(r) PROVE SameTokens
  BY <1>8 DEF DropExpired
<1>9. ASSUME FindUserDeleted(r) PROVE SameTokens
  BY <1>9 DEF FindUserDeleted
<1>10. ASSUME RotateDelete(r) PROVE SameTokens
  BY <1>10 DEF RotateDelete, LostRotation
<1>11. ASSUME RotateInsert(r) PROVE SameTokens
  BY <1>11 DEF RotateInsert
<1>12. ASSUME LogoutSnapshot(r) PROVE SameTokens
  BY <1>12 DEF LogoutSnapshot
<1>13. ASSUME LogoutSweep(r) PROVE SameTokens
  BY <1>13 DEF LogoutSweep
<1>14. ASSUME LogoutRevoke(r) PROVE SameTokens
  BY <1>14 DEF LogoutRevoke
<1>15. ASSUME Fail(r) PROVE SameTokens
  BY <1>15 DEF Fail, LogoutRevokeFails, QueryFails, Crash
<1>16. ASSUME Respond(r), op[r] # "refresh" PROVE SameTokens
  BY <1>16 DEF Respond
<1> QED
  <2> HIDE DEF SameTokens
  <2> QED
    BY <1>1, <1>2, <1>3, <1>4, <1>5, <1>6, <1>7, <1>8, <1>9, <1>10, <1>11, <1>12, <1>13,
     <1>14, <1>15, <1>16
     DEF QuietStep

\* A login, a registration and the answer of a refresh bring one each.
LEMMA Signing ==
  ASSUME SystemInv, NEW r \in Requests
  PROVE  /\ \A u \in Users, t \in Tokens : LoginAccepted(r, u, t) => NewToken(t, u)
         /\ \A t \in Tokens : InsertUser(r, t) => \E u \in Users : NewToken(t, u)
         /\ Respond(r) /\ op[r] = "refresh"
              => \E t \in Tokens, u \in Users : NewToken(t, u)
<1> USE SessionsAssumption
        DEF SystemInv, RequestsInv, LogoutInv, IInv, TypeOK, RequestInv, StoreInv, PairInv,
            NewToken, Signed, Goto, Answer, dbVars, tokenVars, inputVars
<1>1. ASSUME NEW u \in Users, NEW t \in Tokens, LoginAccepted(r, u, t) PROVE NewToken(t, u)
  BY <1>1 DEF LoginAccepted, Begin, Sign
<1>2. ASSUME NEW t \in Tokens, InsertUser(r, t)
      PROVE  \E u \in Users : NewToken(t, u)
  <2>1. PICK u \in Users : u = subject[r]
    BY <1>2 DEF InsertUser
  <2>2. NewToken(t, u)
    BY <1>2, <2>1 DEF InsertUser, Sign
  <2> HIDE DEF NewToken
  <2> QED
    BY <2>2
<1>3. ASSUME Respond(r), op[r] = "refresh"
      PROVE  \E t \in Tokens, u \in Users : NewToken(t, u)
  <2>1. PICK t \in Tokens, u \in Users : t = fresh[r] /\ u = owner[t]
    BY <1>3 DEF Respond
  <2>2. NewToken(t, u)
    BY <1>3, <2>1 DEF Respond
  <2> HIDE DEF NewToken
  <2> QED
    BY <2>2
<1> QED
  BY <1>1, <1>2, <1>3

\* What Sistema does to the variables of AuthService, AuthService does: its
\* invariants hold of the system.
LEMMA SystemSteps == [SystemNext]_systemVars => [Next]_vars
BY
     DEF SystemNext, AuthStep, VisitArrives, VisitContinues, Restart, DeleteAccount, Purge,
         TimePasses,
       systemVars, Next, Environment

\* The invariant holds at the start: the tokens that exist are those of the
\* sessions that are open then.
LEMMA LinkInit == SystemInit => SystemInv
<1> SUFFICES ASSUME SystemInit PROVE SystemInv
  OBVIOUS
<1>1. Init
  BY DEF SystemInit
<1>2. RequestsInv
  BY <1>1, RequestsInit
<1>3. LinkInv
  BY <1>1, SessionsAssumption DEF SystemInit, LinkInv, Init, Signed
<1> QED
  BY <1>2, <1>3 DEF SystemInv

\* A token that exists goes on existing, and the guards' tokens only grow.
LEMMA TokensGrow ==
  ASSUME LinkInv, SameTokens \/ \E t \in Tokens, u \in Users : NewToken(t, u)
  PROVE  /\ \A t \in Tokens : Signed(t) => Signed(t)'
         /\ \A t \in Tokens : Signed(t)' => owner'[t] \in Users
BY DEF LinkInv, SameTokens, NewToken

\* What the steps of AuthService do to the tokens.
LEMMA AuthTokens ==
  ASSUME SystemInv, NEW r \in Requests, Arrive(r) \/ Continue(r) \/ Fail(r)
  PROVE  SameTokens \/ \E t \in Tokens, u \in Users : NewToken(t, u)
<1>1. CASE Arrive(r)
  <2>1. CASE \E u \in Users, t \in Tokens : LoginAccepted(r, u, t)
    BY <2>1, Signing
  <2>2. CASE \E u \in Users : LoginRejected(r, u) \/ RegisterCheck(r, u)
    BY <2>2, Quiet
  <2>3. CASE \E t \in Tokens : RefreshFind(r, t) \/ LogoutArrive(r, t)
    BY <2>3, Quiet
  <2> QED
    BY <1>1, <2>1, <2>2, <2>3 DEF Arrive
<1>2. CASE Continue(r)
  <2>1. CASE \E t \in Tokens : InsertUser(r, t)
    BY <2>1, Signing
  <2>2. CASE \E t \in Tokens : FindUser(r, t)
    BY <2>2, Quiet
  <2>3. CASE Respond(r) /\ op[r] = "refresh"
    BY <2>3, Signing
  <2>4. CASE QuietStep(r)
    BY <2>4, Quiet
  <2> QED
    BY <1>2, <2>1, <2>2, <2>3, <2>4 DEF Continue, QuietStep
<1>3. CASE Fail(r)
  BY <1>3, Quiet DEF QuietStep
<1> QED
  BY <1>1, <1>2, <1>3

\* What the steps of AuthService do to the blacklist.
LEMMA AuthRevokes ==
  ASSUME SystemInv, NEW r \in Requests, Arrive(r) \/ Continue(r) \/ Fail(r)
  PROVE  /\ UNCHANGED now
         /\ \A u \in Users : account[u] = "deleted" => account'[u] = "deleted"
         /\ \A u \in Users : account'[u] = "deleted" => account[u] = "deleted"
         /\ \/ UNCHANGED revoked
            \/ \E t \in Tokens : LogoutRevoke(r) /\ Signed(t) /\ revoked' = revoked \cup {t}
<1> USE DEF SystemInv, RequestsInv, IInv, TypeOK, Goto, Answer, dbVars, tokenVars, inputVars
<1>1. CASE Arrive(r)
  BY <1>1 DEF Arrive, LoginAccepted, LoginRejected, RegisterCheck, RefreshFind, LogoutArrive
<1>2. CASE LogoutRevoke(r)
  <2>1. PICK t \in Tokens : t = presented[r]
    BY <1>2 DEF LogoutRevoke, RequestInv
  <2>2. Signed(t)
    <3>1. t \in Held
      BY <1>2, <2>1 DEF LogoutRevoke, RequestInv, LogoutInv
    <3> QED
      BY <3>1 DEF Held, Signed, LinkInv
  <2> QED
    BY <1>2, <2>1, <2>2 DEF LogoutRevoke
<1>3. CASE Continue(r) /\ ~LogoutRevoke(r)
  BY <1>3 DEF Continue, InsertToken, InsertUser, FindUser, InsertUserConflict, EmailTaken,
              DropExpired, FindUserDeleted, RotateDelete, RotateInsert, Respond,
     LogoutSnapshot,
              LogoutSweep, Remove
<1>4. CASE Fail(r)
  BY <1>4 DEF Fail, LogoutRevokeFails, QueryFails, Crash
<1> QED
  BY <1>1, <1>2, <1>3, <1>4

\* Only a registration is answered with 201.
LEMMA AnswerStep ==
  ASSUME SystemInv, NEW q \in Requests, Arrive(q) \/ Continue(q) \/ Fail(q)
  PROVE  \A r \in Requests : answer'[r] = 201 => op'[r] = "register"
<1> USE DEF SystemInv, RequestsInv, LinkInv, IInv, TypeOK, RequestInv, Goto, Answer, dbVars,
            tokenVars, inputVars
<1>1. CASE Arrive(q)
  BY <1>1
     DEF Arrive, LoginAccepted, LoginRejected, RegisterCheck, RefreshFind, LogoutArrive,
         Begin
<1>2. CASE Continue(q)
  BY <1>2 DEF Continue, InsertToken, InsertUser, FindUser, InsertUserConflict, DropExpired,
              FindUserDeleted, RotateDelete, RotateInsert, Respond, LogoutSnapshot,
     LogoutSweep,
              LogoutRevoke, LostRotation
<1>3. CASE Fail(q)
  BY <1>3 DEF Fail, LogoutRevokeFails, QueryFails, Crash
<1> QED
  BY <1>1, <1>2, <1>3

\* Every step of the system preserves the invariant.
LEMMA LinkStep == SystemInv /\ [SystemNext]_systemVars => SystemInv'
<1> SUFFICES ASSUME SystemInv, [SystemNext]_systemVars PROVE SystemInv'
  OBVIOUS
<1>1. RequestsInv'
  BY SystemSteps, RequestsStep DEF SystemInv
<1>2. ASSUME AuthStep PROVE LinkInv'
  <2>1. PICK r \in Requests : Arrive(r) \/ Continue(r) \/ Fail(r)
    BY <1>2 DEF AuthStep
  <2>2. \A t \in Tokens : (Signed(t) => Signed(t)') /\ (Signed(t)' => owner'[t] \in Users)
    BY <2>1, AuthTokens, TokensGrow DEF SystemInv
  <2>3. \A t \in revoked' : Signed(t)'
    BY <2>1, <2>2, AuthRevokes DEF SystemInv, LinkInv, RequestsInv, IInv, TypeOK
  <2>4. \A u \in Users : account'[u] # "deleted" => deletedAt'[u] = None
    BY <1>2, <2>1, AuthRevokes DEF SystemInv, LinkInv, AuthStep
  <2>5. \A q \in Requests : answer'[q] = 201 => op'[q] = "register"
    BY <2>1, AnswerStep
  <2> QED
    BY <2>2, <2>3, <2>4, <2>5 DEF LinkInv
<1>3. ASSUME NEW u \in Users, DeleteAccount(u) PROVE LinkInv'
  BY <1>3 DEF DeleteAccount, SoftDelete, SystemInv, LinkInv, RequestsInv, IInv, TypeOK, Signed,
              tokenVars, inputVars
<1>4. ASSUME Purge PROVE LinkInv'
  BY <1>4 DEF Purge, PurgeExpired, SystemInv, LinkInv, Signed, tokenVars, inputVars
<1>5. ASSUME UNCHANGED <<dbVars, tokenVars, inputVars, fresh, answer, deletedAt>>
      PROVE LinkInv'
  BY <1>5 DEF SystemInv, LinkInv, Signed, dbVars, tokenVars, inputVars
<1>6. ASSUME TimePasses PROVE LinkInv'
  BY <1>5, <1>6 DEF TimePasses, Tick
<1>7. ASSUME UNCHANGED vars, UNCHANGED deletedAt PROVE LinkInv'
  BY <1>5, <1>7 DEF vars
<1> QED
  BY <1>1, <1>2, <1>3, <1>4, <1>6, <1>7
     DEF SystemInv, SystemNext, VisitArrives, VisitContinues, Restart, systemVars

\* A blacklisted access token is one that was signed, a signed one belongs to
\* an account, and users.deletedAt agrees with the accounts, in any system.
THEOREM SystemInvariance == SystemSpec => []SystemInv
BY LinkInit, LinkStep, PTL DEF SystemSpec

-------------------------------------------------------------------------------
\* The guards see a new token as one that somebody signed, and the others as
\* they were.
LEMMA SeenSame ==
  ASSUME SameTokens, UNCHANGED <<now, deletedAt, revoked, visitVars>>
  PROVE  UNCHANGED Guard!vars
BY
     DEF SameTokens, Sub, visitVars, Guard!vars, Guard!db, Guard!tokens, Guard!caches,
         Guard!given,
       Guard!past

\* A token that is new to the sessions is signed for its user, who may be any.
LEMMA SeenNew ==
  ASSUME SystemInv, NEW t \in Tokens, NEW u \in Users, NewToken(t, u),
         UNCHANGED <<now, deletedAt, revoked, visitVars>>
  PROVE  Guard!Sign(t, u)
<1>1. Sub[t] = None /\ Sub' = [Sub EXCEPT ![t] = u]
  BY DEF NewToken, Sub
<1> QED
  BY <1>1
     DEF NewToken, Sub, visitVars, Guard!Sign, Guard!db, Guard!caches, Guard!given,
         Guard!past

\* What the guards remember of profiles is the present: everybody has Admin.
LEMMA Remembers == Guard!Remember
BY GuardAssumption DEF Guard!Remember, Guard!IsAdmin

\* A logout revokes a token as AccessGuard lets somebody do.
LEMMA SeenRevoked ==
  ASSUME SystemInv, NEW t \in Tokens, Signed(t), SameTokens, revoked' = revoked \cup {t},
         UNCHANGED <<now, deletedAt, visitVars>>
  PROVE  Guard!Revoke(t)
<1>1. Sub[t] # None
  BY SessionsAssumption DEF Sub, SystemInv, LinkInv
<1> QED
  BY <1>1, Remembers
    
     DEF SameTokens, Sub, visitVars, Guard!Revoke, Guard!Write, Guard!tokens, Guard!caches,
         Guard!given

\* An account is soft-deleted once.
LEMMA SeenDeleted ==
  ASSUME SystemInv, NEW u \in Users, DeleteAccount(u)
  PROVE  Guard!SoftDeleteUser(u)
<1>1. SameTokens
  BY DEF DeleteAccount, SoftDelete, SameTokens, Signed, tokenVars, inputVars
<1>2. deletedAt[u] = None
  BY DEF DeleteAccount, SoftDelete, SystemInv, LinkInv
<1> QED
  BY <1>1, <1>2, Remembers
    
     DEF DeleteAccount, SoftDelete, SameTokens, Sub, visitVars, tokenVars,
         Guard!SoftDeleteUser,
         Guard!Active, Guard!Write, Guard!tokens, Guard!caches, Guard!given

\* purgeExpired drops from the guards' blacklist what it drops from the sessions'.
LEMMA SeenPurge ==
  ASSUME SystemInv, Purge
  PROVE  Guard!PurgeExpired
<1>1. SameTokens
  BY DEF Purge, PurgeExpired, SameTokens, Signed, tokenVars, inputVars
<1>2. revoked' = {t \in revoked : ~(accessExp[t] < now)}
  BY DEF Purge, PurgeExpired, Purgeable
<1>3. revoked \subseteq Tokens /\ now \in Nat /\ accessExp \in [Tokens -> Nat]
  BY DEF SystemInv, RequestsInv, IInv, TypeOK
<1>4. \A t \in revoked : Signed(t)
  BY DEF SystemInv, LinkInv
<1>5. revoked' = {t \in revoked :
                    [s \in Tokens |-> IF Signed(s) THEN accessExp[s] ELSE 0][t] >= now}
  BY <1>2, <1>3, <1>4
<1> QED
  BY <1>1, <1>5, Remembers
     DEF Purge, PurgeExpired, SameTokens, Sub, visitVars, tokenVars, Guard!PurgeExpired,
         Guard!Write, Guard!tokens, Guard!caches, Guard!given

\* The clock is one and the same.
LEMMA SeenTick ==
  ASSUME TimePasses
  PROVE  Guard!Tick
<1>1. SameTokens
  BY DEF TimePasses, Tick, SameTokens, Signed, tokenVars, inputVars
<1> QED
  BY <1>1, Remembers
     DEF TimePasses, Tick, SameTokens, Sub, visitVars, tokenVars, dbVars, Guard!Tick, Guard!db,
         Guard!tokens, Guard!caches, Guard!given

\* The system starts where the guards start.
LEMMA GuardInit == SystemInit => Guard!Init
<1> SUFFICES ASSUME SystemInit PROVE Guard!Init
  OBVIOUS
<1>1. \A t \in Tokens : Signed(t) <=> t \in Sessions0
  BY SessionsAssumption DEF SystemInit, Init, Signed
<1> QED
  BY <1>1, SessionsAssumption DEF SystemInit, Init, Sub, Guard!Init

\* Every step of the system is a step of the guards or of what surrounds them,
\* or none that they notice.
LEMMA GuardStep == SystemInv /\ [SystemNext]_systemVars => [Guard!Next]_(Guard!vars)
<1> SUFFICES ASSUME SystemInv, [SystemNext]_systemVars
             PROVE  Guard!Next \/ UNCHANGED Guard!vars
  OBVIOUS
<1>1. ASSUME AuthStep PROVE Guard!Next \/ UNCHANGED Guard!vars
  <2>1. PICK r \in Requests : Arrive(r) \/ Continue(r) \/ Fail(r)
    BY <1>1 DEF AuthStep
  <2>2. UNCHANGED <<now, deletedAt, visitVars>>
    BY <1>1, <2>1, AuthRevokes DEF AuthStep
  <2>3. CASE UNCHANGED revoked /\ SameTokens
    BY <2>2, <2>3, SeenSame
  <2>4. CASE UNCHANGED revoked /\ \E t \in Tokens, u \in Users : NewToken(t, u)
    <3>1. PICK t \in Tokens, u \in Users : NewToken(t, u)
      BY <2>4
    <3>2. Guard!Sign(t, u)
      BY <2>2, <2>4, <3>1, SeenNew
    <3> QED
      BY <3>2 DEF Guard!Next, Guard!Others
  <2>5. CASE \E t \in Tokens : LogoutRevoke(r) /\ Signed(t) /\ revoked' = revoked \cup {t}
    <3>1. PICK t \in Tokens : LogoutRevoke(r) /\ Signed(t) /\ revoked' = revoked \cup {t}
      BY <2>5
    <3>2. SameTokens
      BY <3>1, Quiet DEF QuietStep
    <3>3. Guard!Revoke(t)
      BY <2>2, <3>1, <3>2, SeenRevoked
    <3> QED
      BY <3>3 DEF Guard!Next, Guard!Others
  <2> QED
    BY <2>1, <2>3, <2>4, <2>5, AuthTokens, AuthRevokes
<1>2. ASSUME NEW v \in Visits, NEW t \in Tokens, NEW where \in Routes, VisitArrives(v, t,
     where)
      PROVE  Guard!Next
  BY <1>2 DEF VisitArrives, Guard!Next, Guard!Step
<1>3. ASSUME NEW v \in Visits, VisitContinues(v) PROVE Guard!Next
  BY <1>3 DEF VisitContinues, Guard!Next, Guard!Step
<1>4. ASSUME Restart PROVE Guard!Next
  BY <1>4 DEF Restart, Guard!Next, Guard!Others
<1>5. ASSUME NEW u \in Users, DeleteAccount(u) PROVE Guard!Next
  BY <1>5, SeenDeleted DEF Guard!Next, Guard!Others
<1>6. ASSUME Purge PROVE Guard!Next
  BY <1>6, SeenPurge DEF Guard!Next, Guard!Others
<1>7. ASSUME TimePasses PROVE Guard!Next
  BY <1>7, SeenTick DEF Guard!Next
<1>8. ASSUME UNCHANGED systemVars PROVE UNCHANGED Guard!vars
  <2>1. SameTokens
    BY <1>8 DEF systemVars, vars, tokenVars, inputVars, SameTokens, Signed
  <2> QED
    BY <1>8, <2>1, SeenSame DEF systemVars, vars, dbVars
<1> QED
  BY <1>1, <1>2, <1>3, <1>4, <1>5, <1>6, <1>7, <1>8 DEF SystemNext

\* The sessions and the guards together implement the specification of the
\* guards, for any number of users, tokens, requests and visits:
\* Sistema!ImplementsGuard.
THEOREM Composition == SystemSpec => ImplementsGuard
<1>1. SystemInit => Guard!Init
  BY GuardInit
<1>2. SystemInv /\ [SystemNext]_systemVars => [Guard!Next]_(Guard!vars)
  BY GuardStep
<1> QED
  BY <1>1, <1>2, SystemInvariance, PTL DEF SystemSpec, ImplementsGuard, Guard!Spec

-------------------------------------------------------------------------------
\* The theorems about the guards, for the guards of the system.
GuardProofs == INSTANCE AccessGuardProofs WITH
  Requests <- Visits, pc <- visit, Perfis <- {Admin},
  Sub0 <- [t \in Tokens |-> IF t \in Sessions0 THEN Owner0[t] ELSE None],
  sub <- Sub,
  claim <- [t \in Tokens |-> IF Signed(t) THEN Admin ELSE None],
  exp <- [t \in Tokens |-> IF Signed(t) THEN accessExp[t] ELSE 0],
  perfilOf <- [u \in Users |-> Admin],
  adminPerfil <- (CHOOSE p \in {Admin} : TRUE),
  deletedPerfis <- {},
  lastAdmin <- [p \in {Admin} |-> now],
  lastOf <- [u \in Users |-> [p \in {Admin} |-> now]]

\* It is one specification, here with its theorems.
LEMMA SameGuard ==
  /\ Guard!Init => GuardProofs!Init
  /\ [Guard!Next]_(Guard!vars) => [GuardProofs!Next]_(GuardProofs!vars)
<1>1. Guard!Init => GuardProofs!Init
  BY DEF Guard!Init, GuardProofs!Init
<1>2. [Guard!Next]_(Guard!vars) => [GuardProofs!Next]_(GuardProofs!vars)
  <2>1. \A r \in Visits, t \in Tokens, where \in Routes :
         Guard!Arrive(r, t, where) => GuardProofs!Arrive(r, t, where)
    BY DEF Guard!Arrive, GuardProofs!Arrive, Guard!db, GuardProofs!db, Guard!tokens,
           GuardProofs!tokens, Guard!caches, GuardProofs!caches, Guard!given,
           GuardProofs!given, Guard!past, GuardProofs!past, Guard!Expired,
           GuardProofs!Expired, Guard!Ask, GuardProofs!Ask, Guard!Goto, GuardProofs!Goto
  <2>2. \A r \in Visits : Guard!CheckRevoked(r) => GuardProofs!CheckRevoked(r)
    BY DEF Guard!CheckRevoked, GuardProofs!CheckRevoked, Guard!db, GuardProofs!db,
           Guard!tokens, GuardProofs!tokens, Guard!caches, GuardProofs!caches, Guard!given,
           GuardProofs!given, Guard!past, GuardProofs!past, Guard!IsRevoked,
           GuardProofs!IsRevoked, Guard!Expired, GuardProofs!Expired, Guard!Fresh,
           GuardProofs!Fresh, Guard!Validated, GuardProofs!Validated, Guard!CheckRoles,
           GuardProofs!CheckRoles, Guard!Refuse, GuardProofs!Refuse, Guard!Known,
           GuardProofs!Known, Guard!Admit, GuardProofs!Admit, Guard!Ask, GuardProofs!Ask,
           Guard!Goto, GuardProofs!Goto
  <2>3. \A r \in Visits : Guard!ReadUser(r) => GuardProofs!ReadUser(r)
    BY DEF Guard!ReadUser, GuardProofs!ReadUser, Guard!Goto, GuardProofs!Goto, Guard!db,
           GuardProofs!db, Guard!tokens, GuardProofs!tokens, Guard!caches,
           GuardProofs!caches, Guard!given, GuardProofs!given, Guard!past, GuardProofs!past,
           Guard!Active, GuardProofs!Active
  <2>4. \A S : Guard!Cardinality(S) = GuardProofs!Cardinality(S)
    BY DEF Guard!Cardinality, GuardProofs!Cardinality
  <2>5. \A r \in Visits : Guard!CacheUser(r) => GuardProofs!CacheUser(r)
    BY <2>4 DEF Guard!CacheUser, GuardProofs!CacheUser, Guard!Expired, GuardProofs!Expired,
                Guard!db, GuardProofs!db, Guard!tokens, GuardProofs!tokens, Guard!caches,
                GuardProofs!caches, Guard!given, GuardProofs!given, Guard!past,
                GuardProofs!past, Guard!Swept, GuardProofs!Swept, Guard!Fresh,
                GuardProofs!Fresh, Guard!Validated, GuardProofs!Validated, Guard!CheckRoles,
                GuardProofs!CheckRoles, Guard!Refuse, GuardProofs!Refuse, Guard!Known,
                GuardProofs!Known, Guard!Admit, GuardProofs!Admit, Guard!Ask,
                GuardProofs!Ask, Guard!Goto, GuardProofs!Goto
  <2>6. \A r \in Visits : Guard!ReadPerfil(r) => GuardProofs!ReadPerfil(r)
    BY DEF Guard!ReadPerfil, GuardProofs!ReadPerfil, Guard!Goto, GuardProofs!Goto, Guard!db,
           GuardProofs!db, Guard!tokens, GuardProofs!tokens, Guard!caches,
           GuardProofs!caches, Guard!given, GuardProofs!given, Guard!past, GuardProofs!past,
           Guard!IsAdmin, GuardProofs!IsAdmin
  <2>7. \A r \in Visits : Guard!CachePerfil(r) => GuardProofs!CachePerfil(r)
    BY DEF Guard!CachePerfil, GuardProofs!CachePerfil, Guard!db, GuardProofs!db,
           Guard!tokens, GuardProofs!tokens, Guard!caches, GuardProofs!caches, Guard!given,
           GuardProofs!given, Guard!past, GuardProofs!past, Guard!CachedAt,
           GuardProofs!CachedAt, Guard!Refuse, GuardProofs!Refuse, Guard!Admit,
           GuardProofs!Admit, Guard!Goto, GuardProofs!Goto
  <2>8. \A t \in Tokens : Guard!Revoke(t) => GuardProofs!Revoke(t)
    BY DEF Guard!Revoke, GuardProofs!Revoke, Guard!db, GuardProofs!db, Guard!tokens,
           GuardProofs!tokens, Guard!caches, GuardProofs!caches, Guard!given,
           GuardProofs!given, Guard!past, GuardProofs!past, Guard!Write, GuardProofs!Write,
           Guard!Remember, GuardProofs!Remember, Guard!IsAdmin, GuardProofs!IsAdmin
  <2>9. \A t \in Tokens, u \in Users : Guard!Sign(t, u) => GuardProofs!Sign(t, u)
    BY DEF Guard!Sign, GuardProofs!Sign, Guard!db, GuardProofs!db, Guard!tokens,
           GuardProofs!tokens, Guard!caches, GuardProofs!caches, Guard!given,
           GuardProofs!given, Guard!past, GuardProofs!past
  <2>10. \A u \in Users : Guard!SoftDeleteUser(u) => GuardProofs!SoftDeleteUser(u)
    BY DEF Guard!SoftDeleteUser, GuardProofs!SoftDeleteUser, Guard!db, GuardProofs!db,
           Guard!tokens, GuardProofs!tokens, Guard!caches, GuardProofs!caches, Guard!given,
           GuardProofs!given, Guard!past, GuardProofs!past, Guard!Active,
           GuardProofs!Active, Guard!Write, GuardProofs!Write, Guard!Remember,
           GuardProofs!Remember, Guard!IsAdmin, GuardProofs!IsAdmin
  <2>11. \A u \in Users, p \in {Admin} :
         Guard!ChangePerfil(u, p) => GuardProofs!ChangePerfil(u, p)
    BY DEF Guard!ChangePerfil, GuardProofs!ChangePerfil, Guard!db, GuardProofs!db,
           Guard!tokens, GuardProofs!tokens, Guard!caches, GuardProofs!caches, Guard!given,
           GuardProofs!given, Guard!past, GuardProofs!past, Guard!Write, GuardProofs!Write,
           Guard!Remember, GuardProofs!Remember, Guard!IsAdmin, GuardProofs!IsAdmin
  <2>12. \A p \in {Admin} : Guard!RenamePerfil(p) => GuardProofs!RenamePerfil(p)
    BY DEF Guard!RenamePerfil, GuardProofs!RenamePerfil, Guard!db, GuardProofs!db,
           Guard!tokens, GuardProofs!tokens, Guard!caches, GuardProofs!caches, Guard!given,
           GuardProofs!given, Guard!past, GuardProofs!past, Guard!Write, GuardProofs!Write,
           Guard!Remember, GuardProofs!Remember, Guard!IsAdmin, GuardProofs!IsAdmin
  <2>13. \A p \in {Admin} : Guard!DeletePerfil(p) => GuardProofs!DeletePerfil(p)
    BY DEF Guard!DeletePerfil, GuardProofs!DeletePerfil, Guard!db, GuardProofs!db,
           Guard!tokens, GuardProofs!tokens, Guard!caches, GuardProofs!caches, Guard!given,
           GuardProofs!given, Guard!past, GuardProofs!past, Guard!Write, GuardProofs!Write,
           Guard!Remember, GuardProofs!Remember, Guard!IsAdmin, GuardProofs!IsAdmin
  <2>14. Guard!PurgeExpired => GuardProofs!PurgeExpired
    BY DEF Guard!PurgeExpired, GuardProofs!PurgeExpired, Guard!db, GuardProofs!db,
           Guard!tokens, GuardProofs!tokens, Guard!caches, GuardProofs!caches, Guard!given,
           GuardProofs!given, Guard!past, GuardProofs!past, Guard!Write, GuardProofs!Write,
           Guard!Remember, GuardProofs!Remember, Guard!IsAdmin, GuardProofs!IsAdmin
  <2>15. Guard!Restart => GuardProofs!Restart
    BY DEF Guard!Restart, GuardProofs!Restart, Guard!db, GuardProofs!db, Guard!tokens,
           GuardProofs!tokens, Guard!caches, GuardProofs!caches, Guard!given,
           GuardProofs!given, Guard!past, GuardProofs!past
  <2>16. Guard!Tick => GuardProofs!Tick
    BY DEF Guard!Tick, GuardProofs!Tick, Guard!db, GuardProofs!db, Guard!tokens,
           GuardProofs!tokens, Guard!caches, GuardProofs!caches, Guard!given,
           GuardProofs!given, Guard!past, GuardProofs!past, Guard!Waiting,
           GuardProofs!Waiting, Guard!Write, GuardProofs!Write, Guard!Remember,
           GuardProofs!Remember, Guard!IsAdmin, GuardProofs!IsAdmin
  <2>17. UNCHANGED Guard!vars => UNCHANGED GuardProofs!vars
    BY DEF Guard!vars, GuardProofs!vars, Guard!db, GuardProofs!db, Guard!tokens,
           GuardProofs!tokens, Guard!caches, GuardProofs!caches, Guard!given,
           GuardProofs!given, Guard!past, GuardProofs!past
  <2> QED
    BY <2>1, <2>2, <2>3, <2>5, <2>6, <2>7, <2>8, <2>9, <2>10, <2>11, <2>12, <2>13, <2>14,
       <2>15, <2>16, <2>17
       DEF Guard!Next, GuardProofs!Next, Guard!Step, GuardProofs!Step, Guard!Others,
           GuardProofs!Others
<1> QED
  BY <1>1, <1>2

\* What AccessGuardProofs proves of revoked tokens holds of the system.
LEMMA RevokedIsOutHere == SystemSpec => []GuardProofs!RevokedAdmittedOnlyAtExpiry
<1>1. GuardProofs!Spec => []GuardProofs!RevokedAdmittedOnlyAtExpiry
  BY GuardProofs!RevokedIsOut, GuardAssumption, SessionsAssumption, TimeAssumption
<1>2. SystemInit => GuardProofs!Init
  BY GuardInit, SameGuard
<1>3. SystemInv /\ [SystemNext]_systemVars => [GuardProofs!Next]_(GuardProofs!vars)
  BY GuardStep, SameGuard
<1> QED
  BY <1>1, <1>2, <1>3, SystemInvariance, PTL DEF SystemSpec, GuardProofs!Spec

\* A visit begun after a logout was answered, with the token of the logout, is
\* one that AccessGuard knows to carry a revoked token.
VisitInv ==
  /\ DOMAIN token = Visits /\ DOMAIN before = Visits
  /\ \A v \in Visits : \A r \in before[v] \ faulted :
       /\ r \in Requests /\ pc[r] # "idle"
       /\ token[v] = presented[r]
            => token[v] \in Tokens /\ Signed(token[v]) /\ v \in afterLogout

\* Whoever holds a token was given it by a request that signed it.
LEMMA HeldSigned == ASSUME SystemInv, NEW t \in Held PROVE t \in Tokens /\ Signed(t)
BY SessionsAssumption DEF SystemInv, LinkInv, RequestsInv, IInv, TypeOK, Held, Signed

\* A fault is not forgotten.
LEMMA FaultedGrows == [Next]_vars => faulted \subseteq faulted'
<1> USE DEF vars, tokenVars, inputVars, dbVars
<1>1. ASSUME NEW r \in Requests, Arrive(r) PROVE faulted \subseteq faulted'
  BY <1>1 DEF Arrive, LoginAccepted, LoginRejected, RegisterCheck, RefreshFind, LogoutArrive
<1>2. ASSUME NEW r \in Requests, Continue(r) PROVE faulted \subseteq faulted'
  BY <1>2 DEF Continue, InsertToken, InsertUser, FindUser, InsertUserConflict, DropExpired,
              FindUserDeleted, RotateDelete, RotateInsert, Respond, LogoutSnapshot, LogoutSweep,
              LogoutRevoke
<1>3. ASSUME NEW r \in Requests, Fail(r) PROVE faulted \subseteq faulted'
  BY <1>3 DEF Fail, LogoutRevokeFails, QueryFails, Crash
<1>4. ASSUME Environment PROVE faulted \subseteq faulted'
  BY <1>4 DEF Environment, SoftDelete, PurgeExpired, Tick
<1> QED
  BY <1>1, <1>2, <1>3, <1>4 DEF Next

\* No step of the system takes a token back.
LEMMA SignedStays ==
  ASSUME SystemInv, [SystemNext]_systemVars, NEW t \in Tokens, Signed(t)
  PROVE  Signed(t)'
<1>1. ASSUME AuthStep PROVE Signed(t)'
  <2>1. PICK r \in Requests : Arrive(r) \/ Continue(r) \/ Fail(r)
    BY <1>1 DEF AuthStep
  <2> QED
    BY <2>1, AuthTokens, TokensGrow DEF SystemInv
<1>2. ASSUME UNCHANGED <<op, fresh, answer>> PROVE Signed(t)'
  BY <1>2 DEF Signed
<1>3. ASSUME UNCHANGED vars PROVE Signed(t)'
  BY <1>2, <1>3 DEF vars, inputVars
<1>4. ASSUME NEW u \in Users, DeleteAccount(u) PROVE Signed(t)'
  BY <1>2, <1>4 DEF DeleteAccount, SoftDelete, inputVars
<1>5. ASSUME Purge \/ TimePasses PROVE Signed(t)'
  BY <1>2, <1>5 DEF Purge, PurgeExpired, TimePasses, Tick, inputVars
<1> QED
  BY <1>1, <1>3, <1>4, <1>5
     DEF SystemNext, VisitArrives, VisitContinues, Restart, systemVars

\* Every step of the system preserves it.
LEMMA VisitStep == SystemInv /\ VisitInv /\ [SystemNext]_systemVars => VisitInv'
<1> SUFFICES ASSUME SystemInv, VisitInv, [SystemNext]_systemVars PROVE VisitInv'
  OBVIOUS
<1>1. [Next]_vars
  BY SystemSteps
<1>2. faulted \subseteq faulted'
  BY <1>1, FaultedGrows
<1>3. \A r \in Requests : pc[r] # "idle" => pc'[r] # "idle" /\ presented'[r] = presented[r]
  BY <1>1, KeptStep DEF Kept, SystemInv, RequestsInv
<1>4. ASSUME UNCHANGED <<token, before, afterLogout>> PROVE VisitInv'
  BY <1>2, <1>3, <1>4, SignedStays DEF VisitInv
<1>5. ASSUME NEW v \in Visits, NEW t \in Tokens, NEW where \in Routes, VisitArrives(v, t, where)
      PROVE  VisitInv'
  <2>1. Signed(t) /\ accessExp[t] > now
    BY <1>5, HeldSigned DEF VisitArrives, Guard!Arrive, Guard!Expired, SystemInv, RequestsInv,
                            IInv, TypeOK
  <2>2. \A r \in Requests \ faulted :
          LoggedOut(r) => pc[r] # "idle" /\ (t = presented[r] => t \in revoked)
    BY <2>1 DEF LoggedOut, AccessExpired, LogoutSticks, SystemInv, RequestsInv, IInv, RequestInv,
                TypeOK
  <2>3. /\ UNCHANGED vars
        /\ token' = [token EXCEPT ![v] = t]
        /\ before' = [before EXCEPT ![v] = {r \in Requests : LoggedOut(r)}]
        /\ afterLogout' = IF t \in revoked THEN afterLogout \cup {v} ELSE afterLogout
    BY <1>5 DEF VisitArrives, Guard!Arrive
  <2> QED
    BY <2>1, <2>2, <2>3, SignedStays DEF VisitInv, vars, inputVars, Signed
<1>6. ASSUME AuthStep \/ Restart \/ Purge \/ TimePasses \/ \E u \in Users : DeleteAccount(u)
      PROVE  VisitInv'
  BY <1>4, <1>6 DEF AuthStep, Restart, Guard!Restart, Guard!given, Purge, TimePasses, DeleteAccount,
                    visitVars
<1>7. ASSUME NEW v \in Visits, VisitContinues(v) PROVE VisitInv'
  BY <1>4, <1>7 DEF VisitContinues, Guard!CheckRevoked, Guard!ReadUser, Guard!CacheUser,
                    Guard!ReadPerfil, Guard!CachePerfil, Guard!given
<1>8. ASSUME UNCHANGED systemVars PROVE VisitInv'
  BY <1>4, <1>8 DEF systemVars, visitVars
<1> QED
  BY <1>5, <1>6, <1>7, <1>8 DEF SystemNext

\* After the answer to its logout an access token opens nothing any more, unless
\* it expires while the visit is on its way: Sistema!LogoutTakesEffect.
THEOREM LogoutIsEffective == SystemSpec => []LogoutTakesEffect
<1>1. SystemInit => VisitInv
  BY DEF SystemInit, VisitInv
<1>2. VisitInv /\ GuardProofs!RevokedAdmittedOnlyAtExpiry => LogoutTakesEffect
  BY DEF VisitInv, GuardProofs!RevokedAdmittedOnlyAtExpiry, GuardProofs!Admitted, LogoutTakesEffect,
         Admitted
<1> QED
  BY <1>1, <1>2, VisitStep, SystemInvariance, RevokedIsOutHere, PTL DEF SystemSpec

-------------------------------------------------------------------------------
(* The end of all sessions.                                                *)

\* The requests that open or continue a session.
Opening == {"login", "register", "refresh"}

\* A session belongs to one user, and no access token outlives the longest
\* lifetime one signed now would have.
ChainInv ==
  /\ \A r \in Requests : pc[r] # "idle" => op[r] # "none"
  /\ \A r \in Requests : op[r] = "logout" => subject[r] = owner[presented[r]]
  /\ \A t \in Tokens : owner[t] # None => session[t] \in Tokens /\ owner[session[t]] = owner[t]
  /\ \A t \in Tokens : accessExp[t] <= now + AccessTTL

\* What a step of request q does to tokens and sessions.
Effect(q) ==
  /\ UNCHANGED now
  /\ \A r \in Requests \ {q} :
       /\ pc'[r] = pc[r] /\ op'[r] = op[r] /\ subject'[r] = subject[r]
       /\ presented'[r] = presented[r] /\ fresh'[r] = fresh[r] /\ snapshot'[r] = snapshot[r]
       /\ answer'[r] = answer[r]
  /\ \A t \in stored' \ stored :
       t = fresh[q] /\ pc[q] \in {"insertToken", "rotateInsert"}
  /\ \A t \in Tokens :
       /\ owner[t] # None => session'[t] = session[t] /\ owner'[t] = owner[t]
       /\ owner[t] = None /\ owner'[t] # None =>
            /\ fresh'[q] = t /\ accessExp'[t] = now + AccessTTL
            /\ \/ session'[t] = t
               \/ /\ pc[q] = "findUser" /\ presented[q] \in Tokens
                  /\ session'[t] = session[presented[q]]
                  /\ owner'[t] = owner[presented[q]]
       /\ owner[t] # None /\ accessExp'[t] # accessExp[t] =>
            pc[q] = "respond" /\ t = fresh[q] /\ accessExp'[t] = now + AccessTTL
       /\ owner[t] = None /\ owner'[t] = None => accessExp'[t] = accessExp[t]
  /\ fresh'[q] # fresh[q] => fresh'[q] \in Tokens /\ owner[fresh'[q]] = None
  /\ op'[q] = "none" => pc'[q] = "idle"
  /\ pc[q] # "idle" =>
       op'[q] = op[q] /\ presented'[q] = presented[q] /\ subject'[q] = subject[q]
  /\ pc[q] = "idle" /\ op'[q] = "logout" =>
       presented'[q] \in Held /\ subject'[q] = owner[presented'[q]]
  /\ pc[q] = "idle" /\ op'[q] = "refresh" /\ pc'[q] # "done" =>
       presented'[q] \in stored /\ owner[presented'[q]] # None

\* What a logout finds and leaves, and when it is answered.
LogoutEffect(q) ==
  /\ pc[q] # "done"
  /\ pc'[q] = "sweep" =>
       snapshot'[q] = {t \in stored : owner[t] = owner[presented[q]]} /\ pc[q] = "guarded"
  /\ pc'[q] = "revoke" => pc[q] = "sweep" /\ stored' = stored \ snapshot[q]
  /\ op'[q] = "logout" /\ answer'[q] = 200 /\ q \notin faulted' =>
       \/ pc[q] = "sweep" /\ stored' = stored \ snapshot[q]
       \/ pc[q] = "revoke" /\ UNCHANGED stored

\* Every step of a request q is such a step.
LEMMA Effects ==
  ASSUME RequestsInv, ChainInv, NEW q \in Requests, Arrive(q) \/ Continue(q) \/ Fail(q)
  PROVE  Effect(q)
<1> USE SessionsAssumption, TimeAssumption
        DEF RequestsInv, IInv, TypeOK, RequestInv, StoreInv, ChainInv, Effect, dbVars, tokenVars,
            inputVars, Goto, Answer, Begin, Sign, Used, Held, Remove, RowExists, LostRotation
<1>1. ASSUME NEW u \in Users, NEW t \in Tokens, LoginAccepted(q, u, t) PROVE Effect(q)
  BY <1>1 DEF LoginAccepted
<1>2. ASSUME NEW u \in Users, LoginRejected(q, u) PROVE Effect(q)
  BY <1>2 DEF LoginRejected
<1>3. ASSUME NEW u \in Users, RegisterCheck(q, u) PROVE Effect(q)
  BY <1>3 DEF RegisterCheck
<1>4. ASSUME NEW t \in Tokens, RefreshFind(q, t) PROVE Effect(q)
  BY <1>4 DEF RefreshFind
<1>5. ASSUME NEW t \in Tokens, LogoutArrive(q, t) PROVE Effect(q)
  BY <1>5 DEF LogoutArrive
<1>6. ASSUME InsertToken(q) PROVE Effect(q)
  BY <1>6 DEF InsertToken
<1>7. ASSUME NEW t \in Tokens, InsertUser(q, t) PROVE Effect(q)
  BY <1>7 DEF InsertUser
<1>8. ASSUME NEW t \in Tokens, FindUser(q, t) PROVE Effect(q)
  BY <1>8 DEF FindUser
<1>9. ASSUME InsertUserConflict(q) PROVE Effect(q)
  BY <1>9 DEF InsertUserConflict
<1>10. ASSUME DropExpired(q) PROVE Effect(q)
  BY <1>10 DEF DropExpired
<1>11. ASSUME FindUserDeleted(q) PROVE Effect(q)
  BY <1>11 DEF FindUserDeleted
<1>12. ASSUME RotateDelete(q) PROVE Effect(q)
  BY <1>12 DEF RotateDelete
<1>13. ASSUME RotateInsert(q) PROVE Effect(q)
  BY <1>13 DEF RotateInsert
<1>14. ASSUME Respond(q) PROVE Effect(q)
  BY <1>14 DEF Respond
<1>15. ASSUME LogoutSnapshot(q) PROVE Effect(q)
  BY <1>15 DEF LogoutSnapshot
<1>16. ASSUME LogoutSweep(q) PROVE Effect(q)
  BY <1>16 DEF LogoutSweep
<1>17. ASSUME LogoutRevoke(q) PROVE Effect(q)
  BY <1>17 DEF LogoutRevoke
<1>18. ASSUME Fail(q) PROVE Effect(q)
  BY <1>18 DEF Fail, LogoutRevokeFails, QueryFails, Crash
<1> HIDE DEF Effect
<1> QED
  BY <1>1, <1>2, <1>3, <1>4, <1>5, <1>6, <1>7, <1>8, <1>9, <1>10, <1>11, <1>12, <1>13,
     <1>14, <1>15, <1>16, <1>17, <1>18
     DEF Arrive, Continue

\* And its logout is as LogoutEffect says.
LEMMA LogoutEffects ==
  ASSUME RequestsInv, NEW q \in Requests, Arrive(q) \/ Continue(q) \/ Fail(q)
  PROVE  LogoutEffect(q)
<1> USE DEF RequestsInv, IInv, TypeOK, RequestInv, LogoutInv, LogoutEffect, dbVars, tokenVars,
            inputVars, Goto, Answer, Begin, Remove, LostRotation
<1>1. CASE Arrive(q)
  BY <1>1
     DEF Arrive, LoginAccepted, LoginRejected, RegisterCheck, RefreshFind, LogoutArrive
<1>2. CASE LogoutSweep(q) \/ LogoutSnapshot(q) \/ LogoutRevoke(q)
  BY <1>2 DEF LogoutSweep, LogoutSnapshot, LogoutRevoke
<1>3. CASE Continue(q) /\ ~(LogoutSweep(q) \/ LogoutSnapshot(q) \/ LogoutRevoke(q))
  BY <1>3
     DEF Continue, InsertToken, InsertUser, FindUser, InsertUserConflict, DropExpired,
         FindUserDeleted, RotateDelete, RotateInsert, Respond
<1>4. CASE Fail(q)
  BY <1>4 DEF Fail, LogoutRevokeFails, QueryFails, Crash
<1> QED
  BY <1>1, <1>2, <1>3, <1>4

\* The steps of the system that are none of AuthService's requests.
Beside ==
  /\ UNCHANGED <<stored, tokenVars, op, subject, presented, pc, fresh, snapshot, answer,
                 faulted, endedAt, ended, overlapped>>
  /\ now' \in Nat /\ now' >= now

\* Visits, restarts, soft deletes, purges and the clock are beside the requests.
LEMMA BesideStep ==
  ASSUME SystemInv, [SystemNext]_systemVars, ~AuthStep
  PROVE  Beside
<1>1. now \in Nat
  BY DEF SystemInv, RequestsInv, IInv, TypeOK
<1> QED
  BY <1>1
     DEF SystemNext, VisitArrives, VisitContinues, Restart, DeleteAccount, Purge, TimePasses,
         SoftDelete, PurgeExpired, Tick, systemVars, vars, dbVars, tokenVars, inputVars,
         Beside

\* A logout is about the owner of the token it carries, also after a step of any
\* request.
LEMMA SubjectKept ==
  ASSUME SystemInv, ChainInv, NEW q \in Requests, Effect(q), NEW r \in Requests,
         op'[r] = "logout"
  PROVE  subject'[r] = owner'[presented'[r]]
<1>1. presented'[r] \in Held /\ subject'[r] = owner[presented'[r]]
  <2>1. op[r] = "logout" => presented[r] \in Held /\ subject[r] = owner[presented[r]]
    BY DEF SystemInv, RequestsInv, LogoutInv, ChainInv
  <2>2. CASE r # q
    BY <2>1, <2>2 DEF Effect
  <2>3. CASE r = q /\ pc[q] # "idle"
    BY <2>1, <2>3 DEF Effect
  <2>4. CASE r = q /\ pc[q] = "idle"
    BY <2>4 DEF Effect
  <2> QED
    BY <2>2, <2>3, <2>4
<1>2. presented'[r] \in Tokens /\ owner[presented'[r]] # None
  BY <1>1, HeldSigned, SessionsAssumption DEF SystemInv, LinkInv
<1> QED
  BY <1>1, <1>2 DEF Effect

\* A session stays one user's.
LEMMA SessionKept ==
  ASSUME ChainInv, NEW q \in Requests, Effect(q), NEW t \in Tokens, owner'[t] # None
  PROVE  session'[t] \in Tokens /\ owner'[session'[t]] = owner'[t]
<1>1. CASE owner[t] # None
  <2>1. /\ owner'[t] = owner[t] /\ session'[t] = session[t]
        /\ session[t] \in Tokens /\ owner[session[t]] = owner[t]
    BY <1>1 DEF Effect, ChainInv
  <2> QED
    BY <1>1, <2>1 DEF Effect
<1>2. CASE owner[t] = None /\ session'[t] = t
  BY <1>2
<1>3. CASE owner[t] = None /\ session'[t] # t
  <2>1. /\ presented[q] \in Tokens /\ session'[t] = session[presented[q]]
        /\ owner'[t] = owner[presented[q]]
    BY <1>3 DEF Effect
  <2>2. session'[t] \in Tokens /\ owner[session'[t]] = owner[presented[q]]
    BY <2>1 DEF ChainInv
  <2> QED
    BY <2>1, <2>2 DEF Effect
<1> QED
  BY <1>1, <1>2, <1>3

\* An access token expires at the latest when one signed now would.
LEMMA LifetimeKept ==
  ASSUME SystemInv, ChainInv, NEW q \in Requests, Effect(q), NEW t \in Tokens
  PROVE  accessExp'[t] <= now' + AccessTTL
<1>1. accessExp'[t] = accessExp[t] \/ accessExp'[t] = now + AccessTTL
  BY DEF Effect
<1>2. now' = now /\ now \in Nat /\ accessExp[t] \in Nat /\ accessExp[t] <= now + AccessTTL
  BY DEF Effect, ChainInv, SystemInv, RequestsInv, IInv, TypeOK
<1> QED
  BY <1>1, <1>2, TimeAssumption

\* Every step of the system preserves ChainInv.
LEMMA LineageStep ==
  ASSUME SystemInv, ChainInv, [SystemNext]_systemVars
  PROVE  ChainInv'
<1>1. ASSUME NEW q \in Requests, Arrive(q) \/ Continue(q) \/ Fail(q) PROVE ChainInv'
  <2>1. Effect(q)
    BY <1>1, Effects DEF SystemInv
  <2>2. \A r \in Requests : pc'[r] # "idle" => op'[r] # "none"
    BY <2>1 DEF Effect, ChainInv
  <2> QED
    BY <2>1, <2>2, SubjectKept, SessionKept, LifetimeKept DEF ChainInv
<1>2. ASSUME Beside PROVE ChainInv'
  <2>1. now \in Nat /\ accessExp \in [Tokens -> Nat]
    BY DEF SystemInv, RequestsInv, IInv, TypeOK
  <2>2. \A t \in Tokens : accessExp[t] <= now' + AccessTTL
    BY <1>2, <2>1, TimeAssumption DEF Beside, ChainInv
  <2> QED
    BY <1>2, <2>2 DEF Beside, ChainInv, tokenVars
<1> QED
  BY <1>1, <1>2, BesideStep DEF AuthStep

\* A logout that nothing overlapped is alone with the tokens of its user.
AloneInv ==
  \A r \in Requests \ overlapped :
    /\ op[r] = "logout" /\ pc[r] # "done" => UnderWay(Opening) = {}
    /\ pc[r] = "sweep" => \A t \in stored : owner[t] = subject[r] => t \in snapshot[r]
    /\ pc[r] = "revoke" => \A t \in stored : owner[t] # subject[r]

\* Every step of the system preserves AloneInv.
LEMMA AloneStep ==
  ASSUME SystemInv, ChainInv, AloneInv, [SystemNext]_systemVars
  PROVE  AloneInv'
<1>1. RequestsInv /\ TypeOK
  BY DEF SystemInv, RequestsInv, IInv
<1>2. CASE AuthStep
  <2>1. PICK q \in Requests : Arrive(q) \/ Continue(q) \/ Fail(q)
    BY <1>2 DEF AuthStep
  <2>2. Effect(q) /\ LogoutEffect(q)
    BY <1>1, <2>1, Effects, LogoutEffects
  <2> SUFFICES ASSUME NEW r \in Requests \ overlapped'
               PROVE  /\ op'[r] = "logout" /\ pc'[r] # "done" => UnderWay(Opening)' = {}
                      /\ pc'[r] = "sweep" =>
                           \A t \in stored' : owner'[t] = subject'[r] => t \in snapshot'[r]
                      /\ pc'[r] = "revoke" => \A t \in stored' : owner'[t] # subject'[r]
    BY DEF AloneInv
  <2>3. r \notin overlapped
    BY <1>2 DEF AuthStep
  <2>4. ASSUME op'[r] = "logout", pc'[r] # "done" PROVE UnderWay(Opening)' = {}
    BY <1>2, <2>4 DEF AuthStep, UnderWay, Opening
  <2>5. ASSUME NEW t \in stored', pc[r] \in {"guarded", "sweep", "revoke"}
        PROVE  /\ t \in stored /\ owner'[t] = owner[t]
               /\ subject'[r] = subject[r] /\ owner[presented[r]] = subject[r]
    <3>1. UnderWay(Opening) = {}
      BY <1>1, <2>3, <2>5 DEF AloneInv, RequestsInv, IInv, RequestInv
    <3>2. pc[q] \notin {"insertToken", "rotateInsert"}
      <4>1. ASSUME pc[q] \in {"insertToken", "rotateInsert"} PROVE op[q] \in Opening
        BY <1>1, <4>1 DEF RequestsInv, IInv, TypeOK, RequestInv, LogoutInv, ChainInv, Ops, Opening
      <4> QED
        BY <3>1, <4>1 DEF UnderWay
    <3>3. t \in stored
      BY <2>2, <3>2 DEF Effect
    <3>4. t \in Tokens /\ owner[t] # None
      BY <1>1, <3>3 DEF TypeOK, RequestsInv, IInv, StoreInv, Used
    <3>5. op[r] = "logout"
      BY <1>1, <2>5 DEF RequestsInv, IInv, RequestInv
    <3> QED
      BY <2>2, <2>5, <3>3, <3>4, <3>5 DEF Effect, ChainInv
  <2>6. CASE r = q
    <3>1. ASSUME pc'[r] = "sweep", NEW t \in stored', owner'[t] = subject'[r]
          PROVE  t \in snapshot'[r]
      BY <2>2, <2>5, <2>6, <3>1 DEF LogoutEffect
    <3>2. ASSUME pc'[r] = "revoke", NEW t \in stored', owner'[t] = subject'[r]
          PROVE  FALSE
      BY <2>2, <2>3, <2>5, <2>6, <3>2 DEF LogoutEffect, AloneInv
    <3> QED
      BY <2>4, <3>1, <3>2
  <2>7. CASE r # q
    <3>1. pc'[r] = pc[r] /\ snapshot'[r] = snapshot[r]
      BY <2>2, <2>7 DEF Effect
    <3>2. ASSUME pc'[r] = "sweep", NEW t \in stored', owner'[t] = subject'[r]
          PROVE  t \in snapshot'[r]
      BY <2>3, <2>5, <3>1, <3>2 DEF AloneInv
    <3>3. ASSUME pc'[r] = "revoke", NEW t \in stored', owner'[t] = subject'[r]
          PROVE  FALSE
      BY <2>3, <2>5, <3>1, <3>3 DEF AloneInv
    <3> QED
      BY <2>4, <3>2, <3>3
  <2> QED
    BY <2>6, <2>7
<1>3. CASE ~AuthStep
  BY <1>3, BesideStep DEF Beside, AloneInv, UnderWay, tokenVars
<1> QED
  BY <1>2, <1>3

\* The pair t continues a session that the logout r was to end.
OfEnded(r, t) == \E s \in ended[r] : session[s] = session[t]

\* A session that a logout alone has ended stays ended: no row of it is stored,
\* and no request is under way that could store one or sign an access token.
SessionsClosed(r) ==
  /\ ended[r] \subseteq {t \in Tokens : owner[t] # None}
  /\ \A t \in Tokens : owner[t] # None /\ OfEnded(r, t) =>
       t \notin stored /\ accessExp[t] <= endedAt[r] + AccessTTL
  /\ \A q \in UnderWay(Opening) :
       /\ fresh[q] # None => ~OfEnded(r, fresh[q])
       /\ op[q] = "refresh" => ~OfEnded(r, presented[q])

ClosedInv ==
  /\ \A r \in Requests : LoggedOut(r) => endedAt[r] # None
  /\ \A r \in Requests \ (faulted \cup overlapped) : endedAt[r] # None => SessionsClosed(r)

\* A request whose pair is about to be stored or answered is a login, a
\* registration or a refresh.
LEMMA OpensByLabel ==
  ASSUME SystemInv, ChainInv, NEW q \in Requests,
         pc[q] \in {"insertToken", "rotateInsert", "respond", "findUser"}
  PROVE  q \in UnderWay(Opening)
BY DEF SystemInv, RequestsInv, IInv, TypeOK, RequestInv, LogoutInv, ChainInv, Ops, UnderWay,
       Opening

\* The step that answers a logout which nothing overlapped closes the sessions.
LEMMA ClosedByLogout ==
  ASSUME SystemInv, ChainInv, AloneInv, ChainInv', ClosedInv, AuthStep,
         NEW q \in Requests, Effect(q), LogoutEffect(q),
         NEW r \in Requests \ (faulted' \cup overlapped'), JustLoggedOut(r)
  PROVE  SessionsClosed(r)'
<1>1. r = q
  BY DEF JustLoggedOut, LoggedOut, ClosedInv, Effect
<1>2. /\ endedAt'[r] = now /\ now' = now
      /\ ended'[r] = {t \in Tokens : Sub[t] = subject[r]}
      /\ r \notin overlapped
  BY DEF AuthStep, Effect
<1>3. pc[q] \in {"sweep", "revoke"} /\ op[q] = "logout" /\ op'[q] = "logout"
  BY <1>1 DEF JustLoggedOut, LoggedOut, LogoutEffect, Effect
<1>4. subject[q] # None
  <2>1. presented[q] \in Held /\ subject[q] = owner[presented[q]]
    BY <1>3 DEF SystemInv, RequestsInv, LogoutInv, ChainInv
  <2> QED
    BY <2>1, HeldSigned, SessionsAssumption DEF SystemInv, LinkInv
<1>5. \A s \in ended'[r] : s \in Tokens /\ owner[s] = subject[q]
  BY <1>1, <1>2, <1>4 DEF Sub
<1>6. UnderWay(Opening) = {}
  BY <1>1, <1>2, <1>3 DEF AloneInv
<1>7. UnderWay(Opening)' = {}
  BY <1>3, <1>6 DEF Effect, UnderWay, Opening
<1>8. ASSUME NEW t \in stored' PROVE t \in Tokens /\ owner[t] # None /\ owner[t] # subject[q]
  <2>1. t \in stored
    BY <1>3, <1>8 DEF Effect
  <2>2. owner[t] # subject[q]
    BY <1>1, <1>2, <1>3, <1>8, <2>1 DEF AloneInv, LogoutEffect, JustLoggedOut, LoggedOut
  <2> QED
    BY <2>1, <2>2 DEF SystemInv, RequestsInv, IInv, TypeOK, StoreInv, Used
<1>9. ASSUME NEW t \in Tokens, owner'[t] # None, OfEnded(r, t)'
      PROVE  owner'[t] = subject[q]
  <2>1. PICK s \in ended'[r] : session'[s] = session'[t]
    BY <1>9 DEF OfEnded
  <2>2. s \in Tokens /\ owner'[s] = subject[q]
    BY <1>4, <1>5, <2>1 DEF Effect
  <2> QED
    BY <1>4, <1>9, <2>1, <2>2 DEF ChainInv
<1>10. ended'[r] \subseteq {t \in Tokens : owner'[t] # None}
  BY <1>4, <1>5 DEF Effect
<1>11. ASSUME NEW t \in Tokens, owner'[t] # None, OfEnded(r, t)'
       PROVE  t \notin stored' /\ accessExp'[t] <= endedAt'[r] + AccessTTL
  BY <1>2, <1>8, <1>9, <1>11 DEF Effect, ChainInv
<1> QED
  BY <1>7, <1>10, <1>11 DEF SessionsClosed

\* A closed session gets no new pair.
LEMMA NoSuccessor ==
  ASSUME SystemInv, ChainInv, NEW q \in Requests, Effect(q),
         NEW r \in Requests, SessionsClosed(r), ended'[r] = ended[r],
         NEW t \in Tokens, owner'[t] # None, OfEnded(r, t)'
  PROVE  owner[t] # None /\ OfEnded(r, t)
<1>1. PICK s \in ended[r] : session'[s] = session'[t]
  BY DEF OfEnded
<1>2. /\ s \in Tokens /\ owner[s] # None /\ session'[s] = session[s]
      /\ session[s] \in Tokens /\ owner[session[s]] # None
  BY <1>1 DEF SessionsClosed, Effect, ChainInv
<1>3. CASE owner[t] # None
  BY <1>1, <1>2, <1>3 DEF OfEnded, Effect
<1>4. CASE owner[t] = None
  <2>1. session'[t] # t
    BY <1>1, <1>2, <1>4
  <2>2. pc[q] = "findUser" /\ session[presented[q]] = session[s]
    BY <1>1, <1>2, <1>4, <2>1 DEF Effect
  <2>3. q \in UnderWay(Opening) /\ op[q] = "refresh"
    BY <2>2, OpensByLabel DEF SystemInv, RequestsInv, IInv, RequestInv
  <2>4. OfEnded(r, presented[q])
    BY <2>2 DEF OfEnded
  <2> QED
    BY <2>3, <2>4 DEF SessionsClosed
<1> QED
  BY <1>3, <1>4

\* The sessions a logout closed stay closed under every step of a request.
LEMMA ClosedStays ==
  ASSUME SystemInv, ChainInv, SystemInv', NEW q \in Requests, Effect(q), LogoutEffect(q),
         NEW r \in Requests, SessionsClosed(r), ended'[r] = ended[r], endedAt'[r] = endedAt[r]
  PROVE  SessionsClosed(r)'
<1>1. \A t \in Tokens : owner'[t] # None /\ OfEnded(r, t)' => owner[t] # None /\ OfEnded(r, t)
  BY NoSuccessor
<1>2. ended'[r] \subseteq {t \in Tokens : owner'[t] # None}
  BY DEF SessionsClosed, Effect
<1>3. ASSUME NEW t \in Tokens, owner'[t] # None, OfEnded(r, t)'
      PROVE  t \notin stored' /\ accessExp'[t] <= endedAt'[r] + AccessTTL
  <2>1. owner[t] # None /\ OfEnded(r, t)
    BY <1>1, <1>3
  <2>2. t \notin stored /\ accessExp[t] <= endedAt[r] + AccessTTL
    BY <2>1 DEF SessionsClosed
  <2>3. t = fresh[q] => q \notin UnderWay(Opening)
    BY <2>1, SessionsAssumption DEF SessionsClosed
  <2>4. t \notin stored'
    BY <2>2, <2>3, OpensByLabel DEF Effect
  <2>5. accessExp'[t] = accessExp[t]
    BY <2>1, <2>3, OpensByLabel DEF Effect
  <2> QED
    BY <2>2, <2>4, <2>5
<1>4. ASSUME NEW x \in UnderWay(Opening)', fresh'[x] # None, OfEnded(r, fresh[x])'
      PROVE  FALSE
  <2>1. x \in Requests /\ fresh'[x] \in Tokens /\ owner'[fresh'[x]] # None
    BY <1>4 DEF UnderWay, SystemInv, RequestsInv, IInv, TypeOK, RequestInv
  <2>2. owner[fresh'[x]] # None /\ OfEnded(r, fresh'[x])
    BY <1>1, <1>4, <2>1 DEF OfEnded
  <2>3. fresh'[x] = fresh[x]
    BY <2>1, <2>2 DEF Effect
  <2>4. pc[x] # "idle"
    BY <1>4, <2>1, <2>3 DEF SystemInv, RequestsInv, IInv, RequestInv
  <2>5. x \in UnderWay(Opening)
    BY <1>4, <2>1, <2>4 DEF UnderWay, Effect, LogoutEffect
  <2> QED
    BY <1>4, <2>2, <2>3, <2>5 DEF SessionsClosed
<1>5. ASSUME NEW x \in UnderWay(Opening)', op'[x] = "refresh", OfEnded(r, presented[x])'
      PROVE  FALSE
  <2>1. x \in Requests /\ presented'[x] \in Tokens /\ owner'[presented'[x]] # None
    BY <1>5 DEF UnderWay, SystemInv, RequestsInv, IInv, TypeOK, StoreInv, RequestInv, Used
  <2>2. owner[presented'[x]] # None /\ OfEnded(r, presented'[x])
    BY <1>1, <1>5, <2>1 DEF OfEnded
  <2>3. CASE x = q /\ pc[q] = "idle"
    BY <1>5, <2>1, <2>2, <2>3 DEF UnderWay, Effect, SessionsClosed
  <2>4. CASE ~(x = q /\ pc[q] = "idle")
    <3>1. presented'[x] = presented[x] /\ x \in UnderWay(Opening) /\ op[x] = "refresh"
      BY <1>5, <2>1, <2>4 DEF UnderWay, Effect, LogoutEffect
    <3> QED
      BY <2>2, <3>1 DEF SessionsClosed
  <2> QED
    BY <2>3, <2>4
<1> QED
  BY <1>2, <1>3, <1>4, <1>5 DEF SessionsClosed

\* A logout that had a fault or an overlap stays out; of the others, one closes its
\* sessions when it is answered, and they stay closed.
LEMMA ClosedStep ==
  ASSUME SystemInv, ChainInv, AloneInv, ClosedInv, [SystemNext]_systemVars
  PROVE  ClosedInv'
<1>1. SystemInv' /\ ChainInv'
  BY LinkStep, LineageStep
<1>2. CASE AuthStep
  <2>1. PICK q \in Requests : Arrive(q) \/ Continue(q) \/ Fail(q)
    BY <1>2 DEF AuthStep
  <2>2. Effect(q) /\ LogoutEffect(q)
    BY <2>1, Effects, LogoutEffects DEF SystemInv
  <2>3. faulted \subseteq faulted' /\ overlapped \subseteq overlapped'
    BY <1>2, SystemSteps, FaultedGrows DEF AuthStep
  <2>4. ASSUME NEW r \in Requests, LoggedOut(r)' PROVE endedAt'[r] # None
    BY <1>2, <2>4, GuardAssumption DEF AuthStep, JustLoggedOut, SystemInv, RequestsInv, IInv, TypeOK
  <2>5. ASSUME NEW r \in Requests \ (faulted' \cup overlapped'), endedAt'[r] # None
        PROVE  SessionsClosed(r)'
    <3>1. CASE JustLoggedOut(r)
      BY <1>1, <1>2, <2>2, <3>1, ClosedByLogout
    <3>2. CASE ~JustLoggedOut(r)
      <4>1. ended'[r] = ended[r] /\ endedAt'[r] = endedAt[r]
        BY <1>2, <3>2 DEF AuthStep
      <4>2. SessionsClosed(r)
        BY <2>3, <2>5, <4>1 DEF ClosedInv
      <4> QED
        BY <1>1, <2>2, <4>1, <4>2, ClosedStays
    <3> QED
      BY <3>1, <3>2
  <2> QED
    BY <2>4, <2>5 DEF ClosedInv
<1>3. CASE ~AuthStep
  BY <1>3, BesideStep
     DEF Beside, ClosedInv, SessionsClosed, OfEnded, LoggedOut, UnderWay, tokenVars
<1> QED
  BY <1>2, <1>3

\* The invariants hold at the start: nothing has been asked for.
LEMMA ClosedInit == SystemInit => ChainInv /\ AloneInv /\ ClosedInv
<1> SUFFICES ASSUME SystemInit PROVE ChainInv /\ AloneInv /\ ClosedInv
  OBVIOUS
<1> USE DEF SystemInit, Init
<1>1. ChainInv
  BY SessionsAssumption, TimeAssumption DEF ChainInv
<1>2. AloneInv
  BY DEF AloneInv
<1>3. ClosedInv
  BY DEF ClosedInv, LoggedOut
<1> QED
  BY <1>1, <1>2, <1>3

\* Once a logout that no login, registration or refresh overlapped is answered,
\* every session its user had is over: its access tokens run out within AccessTTL
\* and no refresh continues it, for any number of users, tokens, requests and
\* visits: Sistema!LogoutEndsAllSessions.
THEOREM AllSessionsEnd == SystemSpec => []LogoutEndsAllSessions
<1>1. SystemInv /\ ClosedInv => LogoutEndsAllSessions
  <2> SUFFICES ASSUME SystemInv, ClosedInv, NEW r \in Requests \ (faulted \cup overlapped),
                      endedAt[r] # None, NEW t \in Tokens, Sub[t] # None,
                      NEW s \in ended[r], session[s] = session[t]
               PROVE  accessExp[t] <= endedAt[r] + AccessTTL
    BY DEF LogoutEndsAllSessions
  <2>1. owner[t] # None /\ OfEnded(r, t)
    BY DEF Sub, OfEnded
  <2> QED
    BY <2>1 DEF ClosedInv, SessionsClosed
<1>2. SystemInv /\ (ChainInv /\ AloneInv /\ ClosedInv) /\ [SystemNext]_systemVars
        => (ChainInv /\ AloneInv /\ ClosedInv)'
  BY LineageStep, AloneStep, ClosedStep
<1> QED
  BY <1>1, <1>2, ClosedInit, SystemInvariance, PTL DEF SystemSpec
===============================================================================
