-------------------------------- MODULE Sistema --------------------------------
(***************************************************************************)
(* The sessions and the guards as one system: AuthService signs access     *)
(* tokens, revokes them and deletes accounts, and requests that carry      *)
(* those tokens (visits) pass AccessGuard, over one database and one       *)
(* clock.  AccessGuard alone lets its environment sign and revoke at will; *)
(* here the environment is AuthService, step for step.                     *)
(*                                                                         *)
(* Everybody has the ADMIN profile and nobody changes profiles: what their *)
(* changes do is AccessGuard's matter.  A logout passes JwtAuthGuard as    *)
(* AuthService says; the visits are the requests to all other routes.      *)
(***************************************************************************)
EXTENDS AuthService

CONSTANTS
  Visits,
  Routes, CacheTTL, PerfilTTL, CacheLimit, Latency, \* of AccessGuard
  Admin                                             \* the ADMIN profile

\* What AccessGuard assumes.
ASSUME GuardAssumption ==
  /\ Routes \subseteq {"jwt", "admin"}
  /\ {CacheTTL, PerfilTTL, CacheLimit, Latency} \subseteq Nat
  /\ Latency < PerfilTTL
  /\ CacheTTL > 0
  /\ None \notin {Admin} \cup Nat

VARIABLES
  deletedAt,       \* users.deletedAt
  validationCache, perfilCache,
  visit,           \* where each visit is: the pc of AccessGuard
  guard, route, token, seen, since, admittedAt, afterLogout,
  \* history
  endedAt,         \* when a logout was answered with 200, None before that
  ended,           \* the pairs its user had been given by then
  overlapped,      \* logouts under way together with a request that opens or
                   \* continues a session
  before           \* the logouts already answered when a visit arrived

visitVars == <<validationCache, perfilCache, visit, guard, route, token, seen, since,
               admittedAt, afterLogout>>
systemVars == <<vars, deletedAt, visitVars, endedAt, ended, overlapped, before>>

\* The access token of pair t exists: a refresh signs it when it answers.
Signed(t) ==
  \/ t \in Sessions0
  \/ \E r \in Requests : fresh[r] = t /\ (op[r] # "refresh" \/ answer[r] = 200)

Sub == [t \in Tokens |-> IF Signed(t) THEN owner[t] ELSE None]

Guard == INSTANCE AccessGuard WITH
  Requests <- Visits, pc <- visit, Perfis <- {Admin},
  Sub0 <- [t \in Tokens |-> IF t \in Sessions0 THEN Owner0[t] ELSE None],
  sub <- Sub,
  claim <- [t \in Tokens |-> IF Signed(t) THEN Admin ELSE None],
  exp <- [t \in Tokens |-> IF Signed(t) THEN accessExp[t] ELSE 0],
  perfilOf <- [u \in Users |-> Admin],
  adminPerfil <- (CHOOSE p \in {Admin} : TRUE), \* TLC takes no bare constant here
  deletedPerfis <- {},
  lastAdmin <- [p \in {Admin} |-> now],
  lastOf <- [u \in Users |-> [p \in {Admin} |-> now]]

SystemInit ==
  /\ Init
  /\ deletedAt = [u \in Users |-> None]
  /\ validationCache = [u \in Users |-> None]
  /\ perfilCache = [p \in {Admin} |-> None]
  /\ visit = [v \in Visits |-> "idle"]
  /\ guard = [v \in Visits |-> "jwt"]
  /\ route = [v \in Visits |-> "jwt"]
  /\ token = [v \in Visits |-> None]
  /\ seen = [v \in Visits |-> "nothing"]
  /\ since = [v \in Visits |-> 0]
  /\ admittedAt = [v \in Visits |-> None]
  /\ afterLogout = {}
  /\ endedAt = [r \in Requests |-> None]
  /\ ended = [r \in Requests |-> {}]
  /\ overlapped = {}
  /\ before = [v \in Visits |-> {}]

-------------------------------------------------------------------------------

UnderWay(ops) == {r \in Requests : op[r] \in ops /\ pc[r] # "done"}

LoggedOut(r) == op[r] = "logout" /\ answer[r] = 200

\* The history: r is a logout that this step answers with 200.
JustLoggedOut(r) == LoggedOut(r)' /\ endedAt[r] = None

\* login, register, refresh and logout do not touch an instance's caches.
AuthStep ==
  /\ \E r \in Requests : Arrive(r) \/ Continue(r) \/ Fail(r)
  /\ endedAt' = [r \in Requests |-> IF JustLoggedOut(r) THEN now ELSE endedAt[r]]
  /\ ended' = [r \in Requests |->
                 IF JustLoggedOut(r) THEN {t \in Tokens : Sub[t] = subject[r]} ELSE ended[r]]
  /\ overlapped' = overlapped \cup
       IF UnderWay({"login", "register", "refresh"})' = {} THEN {} ELSE UnderWay({"logout"})'
  /\ UNCHANGED <<deletedAt, visitVars, before>>

\* A client visits a route with an access token it was given.
VisitArrives(v, t, where) ==
  /\ UNCHANGED <<vars, deletedAt, endedAt, ended, overlapped>>
  /\ t \in Held
  /\ Guard!Arrive(v, t, where)
  /\ before' = [before EXCEPT ![v] = {r \in Requests : LoggedOut(r)}]

VisitContinues(v) ==
  /\ UNCHANGED <<vars, deletedAt, endedAt, ended, overlapped, before>>
  /\ \/ Guard!CheckRevoked(v)
     \/ Guard!ReadUser(v)
     \/ Guard!CacheUser(v)
     \/ Guard!ReadPerfil(v)
     \/ Guard!CachePerfil(v)

\* The instance that serves the visits restarts.  Requests of AuthService end
\* by Crash, here or at another instance.  A restart after the last visit is
\* left out: nobody sees the caches any more.
Restart ==
  /\ \E v \in Visits : visit[v] # "done"
  /\ UNCHANGED <<vars, deletedAt, endedAt, ended, overlapped, before>>
  /\ Guard!Restart

DeleteAccount(u) ==
  /\ SoftDelete(u)
  /\ deletedAt' = [deletedAt EXCEPT ![u] = now]
  /\ UNCHANGED <<visitVars, endedAt, ended, overlapped, before>>

Purge ==
  /\ PurgeExpired
  /\ UNCHANGED <<deletedAt, visitVars, endedAt, ended, overlapped, before>>

TimePasses ==
  /\ Tick
  /\ \A v \in Guard!Waiting : now - since[v] < Latency
  /\ UNCHANGED <<deletedAt, visitVars, endedAt, ended, overlapped, before>>

SystemNext ==
  \/ AuthStep
  \/ \E v \in Visits :
       \/ \E t \in Tokens, where \in Routes : VisitArrives(v, t, where)
       \/ VisitContinues(v)
  \/ Restart
  \/ \E u \in Users : DeleteAccount(u)
  \/ Purge
  \/ TimePasses

SystemSpec == SystemInit /\ [][SystemNext]_systemVars

-------------------------------------------------------------------------------
(* What must hold.                                                         *)

\* AuthService does nothing that AccessGuard does not expect of whoever signs
\* and revokes tokens, so what holds of AccessGuard holds of the system.
ImplementsGuard == Guard!Spec

Admitted(v) == admittedAt[v] # None

\* A client that got its answer to a logout has no more use of the access token:
\* no visit it begins afterwards reaches an administrators' route, and one that
\* runs only JwtAuthGuard gets through at best when the token has expired
\* meanwhile (logout, purgeExpired, isRevoked and both guards together).
LogoutTakesEffect ==
  \A v \in Visits : \A r \in before[v] \ faulted :
    Admitted(v) /\ token[v] = presented[r]
      => route[v] = "jwt" /\ admittedAt[v] >= accessExp[token[v]]

\* A logout that no login, registration or refresh overlapped ends all sessions
\* of the user: of their access tokens only one is revoked, but the others run
\* out within AccessTTL and the sessions are never continued with new ones
\* (deleteByUserId of logout, findByToken and rotate of refreshToken).
LogoutEndsAllSessions ==
  \A r \in Requests \ (faulted \cup overlapped) :
    endedAt[r] # None =>
      \A t \in Tokens :
        Sub[t] # None /\ (\E s \in ended[r] : session[s] = session[t])
          => accessExp[t] <= endedAt[r] + AccessTTL
===============================================================================
