------------------------------ MODULE AuthService ------------------------------
(***************************************************************************)
(* The session life cycle of the API: AuthService (login, register,        *)
(* refreshToken, logout), the refresh-token repository it drives, the      *)
(* revoked_jtis table behind TokenBlacklistService and the soft delete of  *)
(* the account a session belongs to.                                       *)
(*                                                                         *)
(* A request is a process.  One action is what a handler does between two  *)
(* awaits: it consumes the answer of the query sent last, runs on and      *)
(* sends the next one.  Between two actions of a request any other request *)
(* of any instance may run, a query may fail or the process may die.       *)
(*                                                                         *)
(* A member of Tokens stands for the pair one request signs: the access    *)
(* token and the refresh token.  Both carry a jti of 128 random bits,      *)
(* taken to be fresh, so the P2002 arm of generateRefreshTokenTransactional*)
(* is unreachable here.                                                    *)
(*                                                                         *)
(* PostgreSQL runs at its default level, READ COMMITTED: a DELETE sees the *)
(* rows committed when the statement starts, waits for a transaction that  *)
(* already deleted one of them, and finds the row gone if it commits.      *)
(***************************************************************************)
EXTENDS Integers

CONSTANTS
  Users,       \* accounts; users.email is UNIQUE and rows are never removed,
               \* so an account is identified by its normalised e-mail
  Tokens,      \* token pairs
  Requests,    \* requests, each handled once
  Sessions0,   \* tokens of the sessions open in the initial state
  Owner0,      \* their users
  None,        \* no user, no token
  AccessTTL,   \* JWT_EXPIRES_IN
  RefreshTTL,  \* JWT_REFRESH_EXPIRES_IN
  MaxTime      \* the bound of the clock

ASSUME SessionsAssumption ==
  /\ Sessions0 \subseteq Tokens
  /\ Owner0 \in [Sessions0 -> Users]
  /\ None \notin Users \cup Tokens

ASSUME TimeAssumption ==
  /\ AccessTTL \in Nat
  /\ RefreshTTL \in Nat
  /\ MaxTime \in Nat

VARIABLES
  \* the database
  account,     \* users: "none", "active" or "deleted" (deletedAt set)
  stored,      \* refresh_tokens: the committed rows
  revoked,     \* revoked_jtis: the pairs whose access token is blacklisted
  \* what a signed pair carries
  owner,       \* sub; None while the pair is unsigned
  refreshExp,  \* expiresAt of the refresh token
  accessExp,   \* exp of the access token
  \* the requests
  op,          \* what was asked for
  pc,          \* the query whose answer the request awaits
  subject,     \* the account a login or a registration is about
  presented,   \* the token the client presented
  fresh,       \* the pair the request signed
  snapshot,    \* the rows the logout's DELETE saw when it started
  answer,      \* HTTP status sent, 0 while there is none
  now,
  \* history
  session,     \* the first pair of the chain a signed pair belongs to
  spent,       \* rows that were stored and were removed
  faulted,     \* requests one of whose queries failed
  late         \* requests begun after their account had been deleted

dbVars == <<account, stored, revoked, spent>>
tokenVars == <<owner, refreshExp, accessExp, session>>
inputVars == <<op, subject, presented, late>>
vars == <<dbVars, tokenVars, inputVars, pc, fresh, snapshot, answer, now, faulted>>

Ops == {"none", "login", "register", "refresh", "logout"}

Labels == {"idle", "insertUser", "insertToken", "dropExpired", "findUser",
           "rotateDelete", "rotateInsert", "respond", "guarded", "sweep", "revoke", "done"}

Statuses == {0, 200, 201, 401, 409, 500}

TypeOK ==
  /\ account \in [Users -> {"none", "active", "deleted"}]
  /\ stored \subseteq Tokens
  /\ revoked \subseteq Tokens
  /\ owner \in [Tokens -> Users \cup {None}]
  /\ refreshExp \in [Tokens -> Nat]
  /\ accessExp \in [Tokens -> Nat]
  /\ op \in [Requests -> Ops]
  /\ pc \in [Requests -> Labels]
  /\ subject \in [Requests -> Users \cup {None}]
  /\ presented \in [Requests -> Tokens \cup {None}]
  /\ fresh \in [Requests -> Tokens \cup {None}]
  /\ snapshot \in [Requests -> SUBSET Tokens]
  /\ answer \in [Requests -> Statuses]
  /\ now \in Nat
  /\ session \in [Tokens -> Tokens \cup {None}]
  /\ spent \subseteq Tokens
  /\ faulted \subseteq Requests
  /\ late \subseteq Requests

Init ==
  /\ account = [u \in Users |-> IF \E t \in Sessions0 : Owner0[t] = u THEN "active" ELSE "none"]
  /\ stored = Sessions0
  /\ revoked = {}
  /\ owner = [t \in Tokens |-> IF t \in Sessions0 THEN Owner0[t] ELSE None]
  /\ refreshExp = [t \in Tokens |-> IF t \in Sessions0 THEN RefreshTTL ELSE 0]
  /\ accessExp = [t \in Tokens |-> IF t \in Sessions0 THEN AccessTTL ELSE 0]
  /\ op = [r \in Requests |-> "none"]
  /\ pc = [r \in Requests |-> "idle"]
  /\ subject = [r \in Requests |-> None]
  /\ presented = [r \in Requests |-> None]
  /\ fresh = [r \in Requests |-> None]
  /\ snapshot = [r \in Requests |-> {}]
  /\ answer = [r \in Requests |-> 0]
  /\ now = 0
  /\ session = [t \in Tokens |-> IF t \in Sessions0 THEN t ELSE None]
  /\ spent = {}
  /\ faulted = {}
  /\ late = {}

-------------------------------------------------------------------------------
(* What the handlers are made of.                                          *)

\* Pairs some client received, in the initial state or in an answer.
Held == Sessions0 \cup ({fresh[r] : r \in {x \in Requests : answer[x] \in {200, 201}}}
                          \ {None})

\* Mutant: the isolation level gives no row locks.
NeverLocked(t) == FALSE

\* Mutant: a transaction whose process died keeps its lock.
LeakedLock(t) ==
  \E r \in Requests :
    /\ presented[r] = t
    /\ \/ pc[r] = "rotateInsert"
       \/ pc[r] = "done" /\ answer[r] = 0 /\ fresh[r] \notin stored \cup spent \cup {None}

\* The row is deleted by a transaction that has not committed yet.
Locked(t) == \E r \in Requests : pc[r] = "rotateInsert" /\ presented[r] = t

\* Mutant: users.email without its UNIQUE index.
NeverTaken(u) == FALSE

\* A row with the e-mail exists, soft-deleted or not.
EmailTaken(u) == account[u] # "none"

\* Mutant: findById without the deletedAt filter.
FoundDeleted(u) == account[u] # "none"

\* What findById and findByEmail return is never a soft-deleted account.
Found(u) == account[u] = "active"

\* Mutant: deleteMany, which does not mind a missing row.
AlwaysDeletes(t) == TRUE

\* prisma.refreshToken.delete finds its row; otherwise it throws P2025.
RowExists(t) == t \in stored

\* Mutant: the P2025 of a lost rotation is not translated.
NotTranslated == 500

\* What generateRefreshTokenTransactional makes of P2025.
LostRotation == 401

\* Mutant: the purge takes the entries that are still needed.
StillNeeded(t) == accessExp[t] >= now

\* The rows purgeExpired deletes.
Purgeable(t) == accessExp[t] < now

AccessExpired(t) == now >= accessExp[t]
RefreshExpired(t) == refreshExp[t] < now

Goto(r, label) ==
  /\ pc' = [pc EXCEPT ![r] = label]
  /\ UNCHANGED answer

Answer(r, status) ==
  /\ pc' = [pc EXCEPT ![r] = "done"]
  /\ answer' = [answer EXCEPT ![r] = status]

Begin(r, what, u, t) ==
  /\ pc[r] = "idle"
  /\ op' = [op EXCEPT ![r] = what]
  /\ subject' = [subject EXCEPT ![r] = u]
  /\ presented' = [presented EXCEPT ![r] = t]
  /\ late' = IF account[u] = "deleted" THEN late \cup {r} ELSE late

\* Sign a pair for user u that continues chain s, or starts one (s = None).
Sign(r, t, u, s) ==
  /\ owner[t] = None
  /\ owner' = [owner EXCEPT ![t] = u]
  /\ refreshExp' = [refreshExp EXCEPT ![t] = now + RefreshTTL]
  /\ accessExp' = [accessExp EXCEPT ![t] = now + AccessTTL]
  /\ session' = [session EXCEPT ![t] = IF s = None THEN t ELSE s]
  /\ fresh' = [fresh EXCEPT ![r] = t]

Remove(S) ==
  /\ stored' = stored \ S
  /\ spent' = spent \cup (S \cap stored)

-------------------------------------------------------------------------------
(* POST /auth/login                                                        *)

\* The account is found active and bcrypt accepts the password: sign a pair
\* and send the INSERT of its refresh token.
LoginAccepted(r, u, t) ==
  /\ Begin(r, "login", u, None)
  /\ Found(u)
  /\ Sign(r, t, u, None)
  /\ Goto(r, "insertToken")
  /\ UNCHANGED <<dbVars, snapshot, now, faulted>>

\* No active account, or the wrong password.
LoginRejected(r, u) ==
  /\ Begin(r, "login", u, None)
  /\ Answer(r, 401)
  /\ UNCHANGED <<dbVars, tokenVars, fresh, snapshot, now, faulted>>

InsertToken(r) ==
  /\ pc[r] = "insertToken"
  /\ stored' = stored \cup {fresh[r]}
  /\ Goto(r, "respond")
  /\ UNCHANGED <<account, revoked, spent, tokenVars, inputVars, fresh, snapshot, now, faulted>>

-------------------------------------------------------------------------------
(* POST /auth/register                                                     *)

\* findByEmailIncludingDeleted: a soft-deleted account keeps its e-mail.
RegisterCheck(r, u) ==
  /\ Begin(r, "register", u, None)
  /\ IF EmailTaken(u) THEN Answer(r, 409) ELSE Goto(r, "insertUser")
  /\ UNCHANGED <<dbVars, tokenVars, fresh, snapshot, now, faulted>>

\* The INSERT of the account, then the pair is signed.
InsertUser(r, t) ==
  /\ pc[r] = "insertUser"
  /\ ~EmailTaken(subject[r])
  /\ account' = [account EXCEPT ![subject[r]] = "active"]
  /\ Sign(r, t, subject[r], None)
  /\ Goto(r, "insertToken")
  /\ UNCHANGED <<stored, revoked, spent, inputVars, snapshot, now, faulted>>

\* Mutant: handlePrismaError returns, so the handler goes on with no account
\* and no pair.
InsertUserConflictGoesOn(r) ==
  /\ pc[r] = "insertUser"
  /\ EmailTaken(subject[r])
  /\ Goto(r, "insertToken")
  /\ UNCHANGED <<dbVars, tokenVars, inputVars, fresh, snapshot, now, faulted>>

\* Somebody else inserted the e-mail first: P2002, which handlePrismaError
\* turns into 409.
InsertUserConflict(r) ==
  /\ pc[r] = "insertUser"
  /\ EmailTaken(subject[r])
  /\ Answer(r, 409)
  /\ UNCHANGED <<dbVars, tokenVars, inputVars, fresh, snapshot, now, faulted>>

-------------------------------------------------------------------------------
(* POST /auth/refresh                                                      *)

RefreshFind(r, t) ==
  /\ t \in Held
  /\ Begin(r, "refresh", owner[t], t)
  /\ \/ ~RowExists(t) /\ Answer(r, 401)
     \/ RowExists(t) /\ RefreshExpired(t) /\ Goto(r, "dropExpired")
     \/ RowExists(t) /\ ~RefreshExpired(t) /\ Goto(r, "findUser")
  /\ UNCHANGED <<dbVars, tokenVars, fresh, snapshot, now, faulted>>

\* deleteByToken: the row is gone, or Prisma throws P2025, which nothing
\* catches on this path and the filter answers with 500.
DropExpired(r) ==
  /\ pc[r] = "dropExpired"
  /\ ~Locked(presented[r])
  /\ Remove({presented[r]})
  /\ Answer(r, IF RowExists(presented[r]) THEN 401 ELSE 500)
  /\ UNCHANGED <<account, revoked, tokenVars, inputVars, fresh, snapshot, now, faulted>>

\* The owner is still active: sign the successor and open the transaction.
FindUser(r, t) ==
  /\ pc[r] = "findUser"
  /\ Found(owner[presented[r]])
  /\ Sign(r, t, owner[presented[r]], session[presented[r]])
  /\ Goto(r, "rotateDelete")
  /\ UNCHANGED <<dbVars, inputVars, snapshot, now, faulted>>

FindUserDeleted(r) ==
  /\ pc[r] = "findUser"
  /\ ~Found(owner[presented[r]])
  /\ Answer(r, 401)
  /\ UNCHANGED <<dbVars, tokenVars, inputVars, fresh, snapshot, now, faulted>>

\* Mutant: the delete commits on its own.
RotateDeleteAlone(r) ==
  /\ pc[r] = "rotateDelete"
  /\ ~Locked(presented[r])
  /\ IF RowExists(presented[r]) THEN Goto(r, "rotateInsert") ELSE Answer(r, LostRotation)
  /\ Remove({presented[r]})
  /\ UNCHANGED <<account, revoked, tokenVars, inputVars, fresh, snapshot, now, faulted>>

\* The DELETE inside the transaction: it takes the row's lock, or waits for
\* whoever has it; a row that is gone is P2025, answered with 401.
RotateDelete(r) ==
  /\ pc[r] = "rotateDelete"
  /\ ~Locked(presented[r])
  /\ IF RowExists(presented[r]) THEN Goto(r, "rotateInsert") ELSE Answer(r, LostRotation)
  /\ UNCHANGED <<dbVars, tokenVars, inputVars, fresh, snapshot, now, faulted>>

\* Mutant: the old row survives the rotation.
RotateInsertKeepsOld(r) ==
  /\ pc[r] = "rotateInsert"
  /\ stored' = stored \cup {fresh[r]}
  /\ Goto(r, "respond")
  /\ UNCHANGED <<account, revoked, spent, tokenVars, inputVars, fresh, snapshot, now, faulted>>

\* The INSERT and the commit, which publishes both changes at once.
RotateInsert(r) ==
  /\ pc[r] = "rotateInsert"
  /\ stored' = (stored \ {presented[r]}) \cup {fresh[r]}
  /\ spent' = spent \cup {presented[r]}
  /\ Goto(r, "respond")
  /\ UNCHANGED <<account, revoked, tokenVars, inputVars, fresh, snapshot, now, faulted>>

\* The last continuation of login, register and refresh.  A refresh signs its
\* access token only now, after the commit.
Respond(r) ==
  /\ pc[r] = "respond"
  /\ accessExp' = IF op[r] = "refresh"
                  THEN [accessExp EXCEPT ![fresh[r]] = now + AccessTTL]
                  ELSE accessExp
  /\ Answer(r, IF op[r] = "register" THEN 201 ELSE 200)
  /\ UNCHANGED <<dbVars, owner, refreshExp, session, inputVars, fresh, snapshot, now, faulted>>

-------------------------------------------------------------------------------
(* POST /auth/logout                                                       *)

\* JwtAuthGuard lets the access token of pair t through: it has not expired
\* and is not on the blacklist.  The guard may know of a soft delete only some
\* seconds later, so the account is not constrained.
LogoutArrive(r, t) ==
  /\ t \in Held
  /\ ~AccessExpired(t)
  /\ t \notin revoked
  /\ Begin(r, "logout", owner[t], t)
  /\ Goto(r, "guarded")
  /\ UNCHANGED <<dbVars, tokenVars, fresh, snapshot, now, faulted>>

\* The guard has its answers, which may be out of date, and the handler sends
\* deleteByUserId: the DELETE sees the rows committed now.
LogoutSnapshot(r) ==
  /\ pc[r] = "guarded"
  /\ snapshot' = [snapshot EXCEPT ![r] = {t \in stored : owner[t] = owner[presented[r]]}]
  /\ Goto(r, "sweep")
  /\ UNCHANGED <<dbVars, tokenVars, inputVars, fresh, now, faulted>>

\* Mutant: the refresh tokens are left alone.
LogoutSweepsNothing(r) ==
  /\ pc[r] = "sweep"
  /\ IF AccessExpired(presented[r]) THEN Answer(r, 200) ELSE Goto(r, "revoke")
  /\ UNCHANGED <<dbVars, tokenVars, inputVars, fresh, snapshot, now, faulted>>

\* deleteByUserId ends; then jwtService.verify rejects an access token that
\* expired in the meantime and the blacklist is left alone.
LogoutSweep(r) ==
  /\ pc[r] = "sweep"
  /\ \A t \in snapshot[r] : ~Locked(t)
  /\ Remove(snapshot[r])
  /\ IF AccessExpired(presented[r]) THEN Answer(r, 200) ELSE Goto(r, "revoke")
  /\ UNCHANGED <<account, revoked, tokenVars, inputVars, fresh, snapshot, now, faulted>>

LogoutRevoke(r) ==
  /\ pc[r] = "revoke"
  /\ revoked' = revoked \cup {presented[r]}
  /\ Answer(r, 200)
  /\ UNCHANGED <<account, stored, spent, tokenVars, inputVars, fresh, snapshot, now, faulted>>

\* The upsert fails and the catch-all around it swallows the error.
LogoutRevokeFails(r) ==
  /\ pc[r] = "revoke"
  /\ Answer(r, 200)
  /\ faulted' = faulted \cup {r}
  /\ UNCHANGED <<dbVars, tokenVars, inputVars, fresh, snapshot, now>>

-------------------------------------------------------------------------------
(* Failures, other writers and time.                                       *)

\* A query fails (connection lost, transaction timeout P2028, ...): an open
\* transaction rolls back and the filter answers 500.  At "respond" it is the
\* answer of a write that had been applied which is lost.
QueryFails(r) ==
  /\ pc[r] \notin {"idle", "revoke", "done"}
  /\ Answer(r, 500)
  /\ faulted' = faulted \cup {r}
  /\ UNCHANGED <<dbVars, tokenVars, inputVars, fresh, snapshot, now>>

\* The process dies, or the client goes away before it has the answer.
Crash(r) ==
  /\ pc[r] \notin {"idle", "done"}
  /\ pc' = [pc EXCEPT ![r] = "done"]
  /\ UNCHANGED <<dbVars, tokenVars, inputVars, fresh, snapshot, answer, now, faulted>>

\* DELETE /users/:id; the refresh tokens of the account stay where they are.
SoftDelete(u) ==
  /\ account[u] = "active"
  /\ account' = [account EXCEPT ![u] = "deleted"]
  /\ UNCHANGED <<stored, revoked, spent, tokenVars, inputVars, pc, fresh, snapshot, answer, now, faulted>>

\* The timer of TokenBlacklistService.
PurgeExpired ==
  /\ revoked' = {t \in revoked : ~Purgeable(t)}
  /\ UNCHANGED <<account, stored, spent, tokenVars, inputVars, pc, fresh, snapshot, answer, now, faulted>>

Tick ==
  /\ now < MaxTime
  /\ now' = now + 1
  /\ UNCHANGED <<dbVars, tokenVars, inputVars, pc, fresh, snapshot, answer, faulted>>

-------------------------------------------------------------------------------

Arrive(r) ==
  \/ \E u \in Users, t \in Tokens : LoginAccepted(r, u, t)
  \/ \E u \in Users : LoginRejected(r, u) \/ RegisterCheck(r, u)
  \/ \E t \in Tokens : RefreshFind(r, t) \/ LogoutArrive(r, t)

Continue(r) ==
  \/ InsertToken(r)
  \/ \E t \in Tokens : InsertUser(r, t) \/ FindUser(r, t)
  \/ InsertUserConflict(r)
  \/ DropExpired(r)
  \/ FindUserDeleted(r)
  \/ RotateDelete(r)
  \/ RotateInsert(r)
  \/ Respond(r)
  \/ LogoutSnapshot(r)
  \/ LogoutSweep(r)
  \/ LogoutRevoke(r)

Fail(r) ==
  \/ LogoutRevokeFails(r)
  \/ QueryFails(r)
  \/ Crash(r)

Environment ==
  \/ \E u \in Users : SoftDelete(u)
  \/ PurgeExpired
  \/ Tick

Next ==
  \/ \E r \in Requests : Arrive(r) \/ Continue(r) \/ Fail(r)
  \/ Environment

Spec == Init /\ [][Next]_vars

\* The database answers every query and the event loop resumes every handler;
\* a failure may always come instead, but none has to.
FairSpec == Spec /\ \A r \in Requests : WF_vars(Continue(r))

-------------------------------------------------------------------------------
(* What must hold.                                                         *)

\* The abstract store: a session has one refresh token at a time, and one
\* that lost its token is closed for good (refreshToken, logout, rotate).
Chain == INSTANCE SessionChain WITH
           live <- stored,
           chain <- [t \in stored \cup spent |-> session[t]]

ImplementsChain == Chain!Spec

\* However refreshes of one session interleave, fail or are retried, at most
\* one of its refresh tokens can be exchanged (refreshToken and rotate).
OneLivePerSession ==
  \A s, t \in stored : session[s] = session[t] => s = t

\* No two refresh requests exchange the same refresh token, not even when both
\* pass findByToken before either rotates (the row lock of rotate).
SingleUse ==
  \A q, r \in Requests :
    /\ op[q] = "refresh" /\ fresh[q] \in stored \cup spent
    /\ op[r] = "refresh" /\ fresh[r] \in stored \cup spent
    /\ presented[q] = presented[r]
    => q = r

\* A refresh token is never consumed for nothing: it has a successor, or a
\* logout swept it, or it had expired.  A rotation that fails half way gives
\* the old token back (the transaction of rotate).
ConsumedForCause ==
  \A t \in spent :
    \/ RefreshExpired(t)
    \/ \E r \in Requests :
         \/ presented[r] = t /\ op[r] = "refresh" /\ fresh[r] \in stored \cup spent
         \/ t \in snapshot[r]

\* After a logout whose queries all succeeded, the access token it was called
\* with is blacklisted for as long as it lives, whatever the purge does.
LogoutSticks ==
  \A r \in Requests \ faulted :
    op[r] = "logout" /\ answer[r] = 200
      => presented[r] \in revoked \/ AccessExpired(presented[r])

\* Whoever starts a request after the account was deleted gets no session out
\* of it: neither an answer with tokens nor a row in refresh_tokens.
NothingAfterDelete ==
  \A r \in late : op[r] # "logout" => answer[r] \notin {200, 201} /\ fresh[r] \notin stored

\* Two registrations of one e-mail never both succeed, although both may have
\* passed the check (the UNIQUE index and handlePrismaError).
OneRegistration ==
  \A q, r \in Requests :
    /\ op[q] = "register" /\ answer[q] = 201
    /\ op[r] = "register" /\ answer[r] = 201
    /\ subject[q] = subject[r]
    => q = r

\* Races are answered with 401 or 409.  Without a failing query the only 500
\* comes from a refresh that drops an expired token somebody else just removed.
RacesAreNot500 ==
  \A r \in Requests \ faulted :
    answer[r] = 500 => op[r] = "refresh" /\ RefreshExpired(presented[r])

\* Every request ends, so no wait for a row lock is for ever: a rotation holds
\* one lock and waits for none, a logout waits and holds none.
EveryRequestEnds ==
  \A r \in Requests : op[r] # "none" ~> pc[r] = "done"

(* What the documentation says and the code does not do; each is refuted by a
   run of its own. *)

\* token-blacklist.service.ts: a logout that was not persisted is not accepted.
RevokeFailsClosed ==
  \A r \in Requests :
    op[r] = "logout" /\ answer[r] = 200
      => presented[r] \in revoked \/ AccessExpired(presented[r])

\* auth.service.ts: of two refreshes with one token that both passed findByToken,
\* the second delete never answers 500.
RefreshRaceIsNot500 ==
  \A q, r \in Requests :
    /\ op[q] = "refresh" /\ answer[q] # 0
    /\ op[r] = "refresh" /\ r \notin faulted
    /\ presented[q] = presented[r] /\ q # r
    => answer[r] # 500

\* auth.service.ts: when a logout answers, the refresh token of its session is
\* already invalid.
LogoutEndsSession ==
  \A r \in Requests :
    op[r] = "logout" /\ answer[r] = 200
      => \A t \in stored : session[t] # session[presented[r]]
===============================================================================
