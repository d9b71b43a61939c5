--------------------------- MODULE AuthServiceProofs ---------------------------
(***************************************************************************)
(* Proofs about AuthService, for any number of users, tokens and requests. *)
(*                                                                         *)
(* OneLivePerSession is not inductive.  What makes it hold is that a token *)
(* enters refresh_tokens only once, in the step that either opens its      *)
(* session or takes the previous token of its session out, and that the    *)
(* row lock makes "the previous token is still there" true from the DELETE *)
(* of a rotation to its commit.  IInv says so.                             *)
(***************************************************************************)
EXTENDS AuthService, TLAPS

Used == stored \cup spent

\* A row that ever existed was signed and belongs to a session, and every
\* session but a new one is named after a row that existed.
StoreInv ==
  /\ stored \cap spent = {}
  /\ Sessions0 \subseteq Used
  /\ \A t \in Used : owner[t] # None
  /\ \A t \in Tokens : owner[t] # None => session[t] # None
  /\ \A t \in Tokens : session[t] # None => session[t] = t \/ session[t] \in Used

\* Where a request stands tells what it has signed and what it was given.
RequestInv ==
  \A r \in Requests :
    /\ fresh[r] # None => owner[fresh[r]] # None
    /\ pc[r] = "idle" => op[r] = "none"
    /\ pc[r] # "done" => answer[r] = 0
    /\ pc[r] \in {"idle", "insertUser", "findUser", "dropExpired", "guarded", "sweep", "revoke"}
         => fresh[r] = None
    /\ pc[r] \in {"insertToken", "rotateDelete", "rotateInsert"}
         => fresh[r] # None /\ fresh[r] \notin Used
    /\ pc[r] = "respond" \/ answer[r] \in {200, 201} => fresh[r] \in Used \cup {None}
    /\ pc[r] = "respond" => fresh[r] # None
    /\ pc[r] = "insertUser" => op[r] = "register" /\ subject[r] \in Users
    /\ pc[r] \in {"guarded", "sweep", "revoke"} => op[r] = "logout" /\ presented[r] \in Tokens
    /\ pc[r] = "insertToken" => op[r] # "refresh" /\ session[fresh[r]] = fresh[r]
    /\ pc[r] \in {"dropExpired", "findUser"} => op[r] = "refresh"
    /\ pc[r] \in {"rotateDelete", "rotateInsert"}
         => op[r] = "refresh" /\ session[fresh[r]] = session[presented[r]]
    /\ op[r] = "refresh" => presented[r] \in Used
    /\ op[r] = "refresh" /\ fresh[r] \in Used => presented[r] \in spent
    /\ pc[r] = "rotateInsert" => presented[r] \in stored

\* No two requests sign the same pair, and no two lock the same row.
PairInv ==
  \A q, r \in Requests :
    /\ fresh[q] = fresh[r] /\ fresh[r] # None => q = r
    /\ pc[q] = "rotateInsert" /\ pc[r] = "rotateInsert" /\ presented[q] = presented[r] => q = r

IInv ==
  /\ TypeOK
  /\ StoreInv
  /\ RequestInv
  /\ PairInv
  /\ OneLivePerSession
  /\ SingleUse

LEMMA InitInv == Init => IInv
<1> SUFFICES ASSUME Init PROVE IInv
  OBVIOUS
<1> USE SessionsAssumption, TimeAssumption DEF Init
<1>1. TypeOK
  BY DEF TypeOK, Ops, Labels, Statuses
<1>2. StoreInv
  BY DEF StoreInv, Used
<1>3. RequestInv
  BY DEF RequestInv, Used
<1>4. PairInv /\ SingleUse
  BY DEF PairInv, SingleUse
<1>5. OneLivePerSession
  BY DEF OneLivePerSession
<1> QED
  BY <1>1, <1>2, <1>3, <1>4, <1>5 DEF IInv

LEMMA StepInv == IInv /\ [Next]_vars => IInv'
<1> SUFFICES ASSUME IInv, [Next]_vars PROVE IInv'
  OBVIOUS
<1> USE SessionsAssumption, TimeAssumption DEF IInv, dbVars, tokenVars, inputVars,
        Goto, Answer, Begin, Sign, Remove, Locked, RowExists, Held, RefreshExpired
<1>1. ASSUME NEW r \in Requests, NEW u \in Users, NEW t \in Tokens, LoginAccepted(r, u, t)
     PROVE IInv'
  <2> USE <1>1 DEF LoginAccepted
  <2>1. TypeOK'
    BY DEF TypeOK, RequestInv, Ops, Labels, Statuses, Used
  <2>2. StoreInv'
    BY DEF TypeOK, StoreInv, RequestInv, Used
  <2>3. RequestInv'
    <3> SUFFICES ASSUME NEW q \in Requests PROVE RequestInv!(q)'
      BY DEF RequestInv
    <3>1. CASE q = r
      BY <3>1 DEF TypeOK, StoreInv, RequestInv, Used
    <3>2. CASE q # r
      BY <3>2 DEF TypeOK, StoreInv, RequestInv, Used
    <3> QED
      BY <3>1, <3>2
  <2>4. PairInv'
    BY DEF TypeOK, StoreInv, RequestInv, PairInv, Used
  <2>5. OneLivePerSession'
    BY DEF TypeOK, StoreInv, RequestInv, OneLivePerSession, Used
  <2>6. SingleUse'
    BY DEF TypeOK, StoreInv, RequestInv, PairInv, SingleUse, Used
  <2> QED
    BY <2>1, <2>2, <2>3, <2>4, <2>5, <2>6
<1>2. ASSUME NEW r \in Requests, NEW u \in Users, LoginRejected(r, u)
     PROVE IInv'
  <2> USE <1>2 DEF LoginRejected
  <2>1. TypeOK'
    BY DEF TypeOK, RequestInv, Ops, Labels, Statuses, LostRotation, Used
  <2>2. StoreInv' /\ OneLivePerSession'
    BY DEF StoreInv, OneLivePerSession, Used
  <2>3. RequestInv' /\ PairInv' /\ SingleUse'
    BY DEF TypeOK, StoreInv, RequestInv, PairInv, SingleUse, LostRotation, Used
  <2> QED
    BY <2>1, <2>2, <2>3
<1>3. ASSUME NEW r \in Requests, NEW u \in Users, RegisterCheck(r, u)
     PROVE IInv'
  <2> USE <1>3 DEF RegisterCheck
  <2>1. TypeOK'
    BY DEF TypeOK, RequestInv, Ops, Labels, Statuses, LostRotation, Used
  <2>2. StoreInv' /\ OneLivePerSession'
    BY DEF StoreInv, OneLivePerSession, Used
  <2>3. RequestInv' /\ PairInv' /\ SingleUse'
    BY DEF TypeOK, StoreInv, RequestInv, PairInv, SingleUse, LostRotation, Used
  <2> QED
    BY <2>1, <2>2, <2>3
<1>4. ASSUME NEW r \in Requests, NEW t \in Tokens, RefreshFind(r, t)
     PROVE IInv'
  <2> USE <1>4 DEF RefreshFind
  <2>1. TypeOK'
    BY DEF TypeOK, RequestInv, Ops, Labels, Statuses, LostRotation, Used
  <2>2. StoreInv' /\ OneLivePerSession'
    BY DEF StoreInv, OneLivePerSession, Used
  <2>3. RequestInv' /\ PairInv' /\ SingleUse'
    BY DEF TypeOK, StoreInv, RequestInv, PairInv, SingleUse, LostRotation, Used
  <2> QED
    BY <2>1, <2>2, <2>3
<1>5. ASSUME NEW r \in Requests, \/ LogoutSnapshot(r)
                                \/ \E t \in Tokens : LogoutArrive(r, t)
     PROVE IInv'
  <2> USE <1>5 DEF LogoutSnapshot, LogoutArrive
  <2>1. TypeOK'
    BY DEF TypeOK, RequestInv, Ops, Labels, Statuses, LostRotation, Used
  <2>2. StoreInv' /\ OneLivePerSession'
    BY DEF StoreInv, OneLivePerSession, Used
  <2>3. RequestInv' /\ PairInv' /\ SingleUse'
    BY DEF TypeOK, StoreInv, RequestInv, PairInv, SingleUse, LostRotation, Used
  <2> QED
    BY <2>1, <2>2, <2>3
<1>6. ASSUME NEW r \in Requests, InsertToken(r)
     PROVE IInv'
  <2> USE <1>6 DEF InsertToken
  <2>1. TypeOK'
    BY DEF TypeOK, RequestInv, Ops, Labels, Statuses, Used
  <2>2. StoreInv'
    BY DEF TypeOK, StoreInv, RequestInv, Used
  <2>3. RequestInv'
    BY DEF TypeOK, StoreInv, RequestInv, PairInv, Used
  <2>4. PairInv'
    BY DEF TypeOK, StoreInv, RequestInv, PairInv, Used
  <2>5. OneLivePerSession'
    BY DEF TypeOK, StoreInv, RequestInv, OneLivePerSession, Used
  <2>6. SingleUse'
    BY DEF TypeOK, StoreInv, RequestInv, PairInv, SingleUse, Used
  <2> QED
    BY <2>1, <2>2, <2>3, <2>4, <2>5, <2>6
<1>7. ASSUME NEW r \in Requests, NEW t \in Tokens, InsertUser(r, t)
     PROVE IInv'
  <2> USE <1>7 DEF InsertUser
  <2>1. TypeOK'
    BY DEF TypeOK, RequestInv, Ops, Labels, Statuses, Used
  <2>2. StoreInv'
    BY DEF TypeOK, StoreInv, RequestInv, Used
  <2>3. RequestInv'
    <3> SUFFICES ASSUME NEW q \in Requests PROVE RequestInv!(q)'
      BY DEF RequestInv
    <3>1. CASE q = r
      BY <3>1 DEF TypeOK, StoreInv, RequestInv, Used
    <3>2. CASE q # r
      BY <3>2 DEF TypeOK, StoreInv, RequestInv, Used
    <3> QED
      BY <3>1, <3>2
  <2>4. PairInv'
    BY DEF TypeOK, StoreInv, RequestInv, PairInv, Used
  <2>5. OneLivePerSession'
    BY DEF TypeOK, StoreInv, RequestInv, OneLivePerSession, Used
  <2>6. SingleUse'
    BY DEF TypeOK, StoreInv, RequestInv, PairInv, SingleUse, Used
  <2> QED
    BY <2>1, <2>2, <2>3, <2>4, <2>5, <2>6
<1>8. ASSUME NEW r \in Requests, NEW t \in Tokens, FindUser(r, t)
     PROVE IInv'
  <2> USE <1>8 DEF FindUser
  <2>1. TypeOK'
    BY DEF TypeOK, RequestInv, Ops, Labels, Statuses, Used
  <2>2. StoreInv'
    BY DEF TypeOK, StoreInv, RequestInv, Used
  <2>3. RequestInv'
    <3> SUFFICES ASSUME NEW q \in Requests PROVE RequestInv!(q)'
      BY DEF RequestInv
    <3>1. CASE q = r
      BY <3>1 DEF TypeOK, StoreInv, RequestInv, Used
    <3>2. CASE q # r
      BY <3>2 DEF TypeOK, StoreInv, RequestInv, Used
    <3> QED
      BY <3>1, <3>2
  <2>4. PairInv'
    BY DEF TypeOK, StoreInv, RequestInv, PairInv, Used
  <2>5. OneLivePerSession'
    BY DEF TypeOK, StoreInv, RequestInv, OneLivePerSession, Used
  <2>6. SingleUse'
    BY DEF TypeOK, StoreInv, RequestInv, PairInv, SingleUse, Used
  <2> QED
    BY <2>1, <2>2, <2>3, <2>4, <2>5, <2>6
<1>9. ASSUME NEW r \in Requests, InsertUserConflict(r)
     PROVE IInv'
  <2> USE <1>9 DEF InsertUserConflict
  <2>1. TypeOK'
    BY DEF TypeOK, RequestInv, Ops, Labels, Statuses, LostRotation, Used
  <2>2. StoreInv' /\ OneLivePerSession'
    BY DEF StoreInv, OneLivePerSession, Used
  <2>3. RequestInv' /\ PairInv' /\ SingleUse'
    BY DEF TypeOK, StoreInv, RequestInv, PairInv, SingleUse, LostRotation, Used
  <2> QED
    BY <2>1, <2>2, <2>3
<1>10. ASSUME NEW r \in Requests, DropExpired(r)
     PROVE IInv'
  <2> USE <1>10 DEF DropExpired
  <2>1. TypeOK'
    BY DEF TypeOK, RequestInv, Ops, Labels, Statuses, Used
  <2>2. StoreInv'
    BY DEF TypeOK, StoreInv, RequestInv, Used
  <2>3. RequestInv'
    BY DEF TypeOK, StoreInv, RequestInv, PairInv, Used
  <2>4. PairInv'
    BY DEF TypeOK, StoreInv, RequestInv, PairInv, Used
  <2>5. OneLivePerSession'
    BY DEF TypeOK, StoreInv, RequestInv, OneLivePerSession, Used
  <2>6. SingleUse'
    BY DEF TypeOK, StoreInv, RequestInv, PairInv, SingleUse, Used
  <2> QED
    BY <2>1, <2>2, <2>3, <2>4, <2>5, <2>6
<1>11. ASSUME NEW r \in Requests, FindUserDeleted(r)
     PROVE IInv'
  <2> USE <1>11 DEF FindUserDeleted
  <2>1. TypeOK'
    BY DEF TypeOK, RequestInv, Ops, Labels, Statuses, LostRotation, Used
  <2>2. StoreInv' /\ OneLivePerSession'
    BY DEF StoreInv, OneLivePerSession, Used
  <2>3. RequestInv' /\ PairInv' /\ SingleUse'
    BY DEF TypeOK, StoreInv, RequestInv, PairInv, SingleUse, LostRotation, Used
  <2> QED
    BY <2>1, <2>2, <2>3
<1>12. ASSUME NEW r \in Requests, RotateDelete(r)
     PROVE IInv'
  <2> USE <1>12 DEF RotateDelete
  <2>1. TypeOK'
    BY DEF TypeOK, RequestInv, Ops, Labels, Statuses, LostRotation, Used
  <2>2. StoreInv' /\ OneLivePerSession'
    BY DEF StoreInv, OneLivePerSession, Used
  <2>3. RequestInv' /\ PairInv' /\ SingleUse'
    BY DEF TypeOK, StoreInv, RequestInv, PairInv, SingleUse, LostRotation, Used
  <2> QED
    BY <2>1, <2>2, <2>3
<1>13. ASSUME NEW r \in Requests, RotateInsert(r)
     PROVE IInv'
  <2> USE <1>13 DEF RotateInsert
  <2>1. TypeOK'
    BY DEF TypeOK, RequestInv, Ops, Labels, Statuses, Used
  <2>2. StoreInv'
    BY DEF TypeOK, StoreInv, RequestInv, Used
  <2>3. RequestInv'
    BY DEF TypeOK, StoreInv, RequestInv, PairInv, Used
  <2>4. PairInv'
    BY DEF TypeOK, StoreInv, RequestInv, PairInv, Used
  <2>5. OneLivePerSession'
    BY DEF TypeOK, StoreInv, RequestInv, OneLivePerSession, Used
  <2>6. SingleUse'
    BY DEF TypeOK, StoreInv, RequestInv, PairInv, SingleUse, Used
  <2> QED
    BY <2>1, <2>2, <2>3, <2>4, <2>5, <2>6
<1>14. ASSUME NEW r \in Requests, Respond(r)
     PROVE IInv'
  <2> USE <1>14 DEF Respond
  <2>1. TypeOK'
    BY DEF TypeOK, RequestInv, Ops, Labels, Statuses, LostRotation, Used
  <2>2. StoreInv' /\ OneLivePerSession'
    BY DEF StoreInv, OneLivePerSession, Used
  <2>3. RequestInv' /\ PairInv' /\ SingleUse'
    BY DEF TypeOK, StoreInv, RequestInv, PairInv, SingleUse, LostRotation, Used
  <2> QED
    BY <2>1, <2>2, <2>3
<1>15. ASSUME NEW r \in Requests, LogoutSweep(r)
     PROVE IInv'
  <2> USE <1>15 DEF LogoutSweep
  <2>1. TypeOK'
    BY DEF TypeOK, RequestInv, Ops, Labels, Statuses, Used
  <2>2. StoreInv'
    BY DEF TypeOK, StoreInv, RequestInv, Used
  <2>3. RequestInv'
    BY DEF TypeOK, StoreInv, RequestInv, PairInv, Used
  <2>4. PairInv'
    BY DEF TypeOK, StoreInv, RequestInv, PairInv, Used
  <2>5. OneLivePerSession'
    BY DEF TypeOK, StoreInv, RequestInv, OneLivePerSession, Used
  <2>6. SingleUse'
    BY DEF TypeOK, StoreInv, RequestInv, PairInv, SingleUse, Used
  <2> QED
    BY <2>1, <2>2, <2>3, <2>4, <2>5, <2>6
<1>16. ASSUME NEW r \in Requests, LogoutRevoke(r)
     PROVE IInv'
  <2> USE <1>16 DEF LogoutRevoke
  <2>1. TypeOK'
    BY DEF TypeOK, RequestInv, Ops, Labels, Statuses, LostRotation, Used
  <2>2. StoreInv' /\ OneLivePerSession'
    BY DEF StoreInv, OneLivePerSession, Used
  <2>3. RequestInv' /\ PairInv' /\ SingleUse'
    BY DEF TypeOK, StoreInv, RequestInv, PairInv, SingleUse, LostRotation, Used
  <2> QED
    BY <2>1, <2>2, <2>3
<1>17. ASSUME NEW r \in Requests, LogoutRevokeFails(r)
     PROVE IInv'
  <2> USE <1>17 DEF LogoutRevokeFails
  <2>1. TypeOK'
    BY DEF TypeOK, RequestInv, Ops, Labels, Statuses, LostRotation, Used
  <2>2. StoreInv' /\ OneLivePerSession'
    BY DEF StoreInv, OneLivePerSession, Used
  <2>3. RequestInv' /\ PairInv' /\ SingleUse'
    BY DEF TypeOK, StoreInv, RequestInv, PairInv, SingleUse, LostRotation, Used
  <2> QED
    BY <2>1, <2>2, <2>3
<1>18. ASSUME NEW r \in Requests, QueryFails(r)
     PROVE IInv'
  <2> USE <1>18 DEF QueryFails
  <2>1. TypeOK'
    BY DEF TypeOK, RequestInv, Ops, Labels, Statuses, LostRotation, Used
  <2>2. StoreInv' /\ OneLivePerSession'
    BY DEF StoreInv, OneLivePerSession, Used
  <2>3. RequestInv' /\ PairInv' /\ SingleUse'
    BY DEF TypeOK, StoreInv, RequestInv, PairInv, SingleUse, LostRotation, Used
  <2> QED
    BY <2>1, <2>2, <2>3
<1>19. ASSUME NEW r \in Requests, Crash(r)
     PROVE IInv'
  <2> USE <1>19 DEF Crash
  <2>1. TypeOK'
    BY DEF TypeOK, RequestInv, Ops, Labels, Statuses, LostRotation, Used
  <2>2. StoreInv' /\ OneLivePerSession'
    BY DEF StoreInv, OneLivePerSession, Used
  <2>3. RequestInv' /\ PairInv' /\ SingleUse'
    BY DEF TypeOK, StoreInv, RequestInv, PairInv, SingleUse, LostRotation, Used
  <2> QED
    BY <2>1, <2>2, <2>3
<1>20. ASSUME Environment
     PROVE IInv'
  BY <1>20 DEF Environment, SoftDelete, PurgeExpired, Tick, TypeOK, StoreInv, RequestInv, PairInv,
     OneLivePerSession, SingleUse, Used
<1>21. CASE UNCHANGED vars
  BY <1>21 DEF vars, TypeOK, StoreInv, RequestInv, PairInv, OneLivePerSession, SingleUse, Used
<1> QED
  BY <1>1, <1>2, <1>3, <1>4, <1>5, <1>6, <1>7, <1>8, <1>9, <1>10, <1>11, <1>12, <1>13, <1>14, <1>15, <1>16, <1>17, <1>18, <1>19, <1>20, <1>21
     DEF Next, Arrive, Continue, Fail

THEOREM Invariance == Spec => []IInv
BY InitInv, StepInv, PTL DEF Spec

\* Every variable keeps its type: AuthService!TypeOK.
THEOREM TypeCorrect == Spec => []TypeOK
BY Invariance, PTL DEF IInv

\* A session has at most one refresh token that can be exchanged, whatever the
\* number of refreshes, logouts and failures: AuthService!OneLivePerSession.
THEOREM OneLive == Spec => []OneLivePerSession
BY Invariance, PTL DEF IInv

\* No refresh token is exchanged by two requests: AuthService!SingleUse.
THEOREM ExchangedOnce == Spec => []SingleUse
BY Invariance, PTL DEF IInv

-------------------------------------------------------------------------------
(* AuthService implements SessionChain.                                    *)

LEMMA ChainInit == Init => Chain!Init
BY SessionsAssumption DEF Init, Chain!Init

\* Steps that leave the two sets of rows alone leave the chain alone too: what
\* they sign is not a row yet.
LEMMA ChainStutter ==
  ASSUME UNCHANGED <<stored, spent>>, \A x \in Used : session'[x] = session[x]
  PROVE  UNCHANGED Chain!vars
BY DEF Chain!vars, Used

LEMMA ChainStep == IInv /\ [Next]_vars => [Chain!Next]_(Chain!vars)
<1> SUFFICES ASSUME IInv, [Next]_vars PROVE [Chain!Next]_(Chain!vars)
  OBVIOUS
<1> USE DEF IInv
<1>1. ASSUME NEW r \in Requests, InsertToken(r)
      PROVE  Chain!Next
  <2>1. PICK t \in Tokens : t = fresh[r]
    BY <1>1 DEF InsertToken, TypeOK, RequestInv
  <2>2. Chain!Open(t)
    BY <1>1, <2>1, SessionsAssumption
       DEF InsertToken, Chain!Open, Chain!Used, Goto, tokenVars, TypeOK, RequestInv, Used
  <2> QED
    BY <2>2 DEF Chain!Next
<1>2. ASSUME NEW r \in Requests, RotateInsert(r)
      PROVE  Chain!Next
  <2>1. PICK old \in Tokens, new \in Tokens : old = presented[r] /\ new = fresh[r]
    BY <1>2 DEF RotateInsert, TypeOK, RequestInv
  <2>2. Chain!Rotate(old, new)
    BY <1>2, <2>1, SessionsAssumption
       DEF RotateInsert, Chain!Rotate, Chain!Used, Goto, tokenVars, TypeOK, RequestInv, Used
  <2> QED
    BY <2>2 DEF Chain!Next
<1>3. ASSUME NEW STATE S, Remove(S), UNCHANGED session
      PROVE  Chain!Next \/ UNCHANGED Chain!vars
  <2>1. CASE S \cap stored = {}
    BY <1>3, <2>1 DEF Remove, Chain!vars
  <2>2. CASE S \cap stored # {}
    <3>1. PICK C \in SUBSET stored : C = S \cap stored
      OBVIOUS
    <3>2. Chain!Close(C)
      BY <1>3, <2>2, <3>1 DEF Remove, Chain!Close
    <3> QED
      BY <3>2 DEF Chain!Next
  <2> QED
    BY <2>1, <2>2
<1>4. ASSUME NEW r \in Requests, DropExpired(r) \/ LogoutSweep(r)
      PROVE  Chain!Next \/ UNCHANGED Chain!vars
  BY <1>3, <1>4 DEF DropExpired, LogoutSweep, tokenVars
<1>5. ASSUME NEW r \in Requests, Arrive(r)
      PROVE  UNCHANGED Chain!vars
  BY <1>5, ChainStutter
     DEF Arrive, LoginAccepted, LoginRejected, RegisterCheck, RefreshFind, LogoutArrive,
         Sign, dbVars, tokenVars, TypeOK, StoreInv, Used
<1>6. ASSUME NEW r \in Requests, NEW t \in Tokens, InsertUser(r, t) \/ FindUser(r, t)
      PROVE  UNCHANGED Chain!vars
  BY <1>6, ChainStutter DEF InsertUser, FindUser, Sign, dbVars, TypeOK, StoreInv, Used
<1>7. ASSUME NEW r \in Requests,
             \/ InsertUserConflict(r) \/ FindUserDeleted(r) \/ RotateDelete(r)
             \/ Respond(r) \/ LogoutSnapshot(r) \/ LogoutRevoke(r) \/ Fail(r)
      PROVE  UNCHANGED Chain!vars
  BY <1>7, ChainStutter
     DEF InsertUserConflict, FindUserDeleted, RotateDelete, Respond, LogoutSnapshot, LogoutRevoke,
         Fail, LogoutRevokeFails, QueryFails, Crash, dbVars, tokenVars
<1>8. ASSUME NEW r \in Requests, Continue(r)
      PROVE  Chain!Next \/ UNCHANGED Chain!vars
  BY <1>1, <1>2, <1>4, <1>6, <1>7, <1>8 DEF Continue
<1>9. ASSUME Environment \/ UNCHANGED vars
      PROVE  UNCHANGED Chain!vars
  BY <1>9, ChainStutter
     DEF Environment, SoftDelete, PurgeExpired, Tick, vars, dbVars, tokenVars
<1> QED
  BY <1>5, <1>7, <1>8, <1>9 DEF Next

\* The request-level system implements the abstract session store, for any
\* number of users, tokens and requests: AuthService!ImplementsChain.
THEOREM Refinement == Spec => ImplementsChain
<1>1. Init => Chain!Init
  BY ChainInit
<1>2. IInv /\ [Next]_vars => [Chain!Next]_(Chain!vars)
  BY ChainStep
<1> QED
  BY <1>1, <1>2, Invariance, PTL DEF Spec, ImplementsChain, Chain!Spec
===============================================================================
