-------------------------- MODULE AuthRequestsProofs --------------------------
(***************************************************************************)
(* Proofs about what the requests of AuthService are answered, on top of   *)
(* the invariant of AuthServiceProofs, for any number of users, tokens and *)
(* requests.                                                               *)
(*                                                                         *)
(* None of the properties is inductive.  Each rests on what a request may  *)
(* still assume after other requests ran between its queries: the account  *)
(* it found may be deleted now, but what it presented and signed, and what *)
(* was found expired, is as it was (Kept).                                 *)
(***************************************************************************)
EXTENDS AuthServiceProofs

\* What a request is about and what it signed stay as they are, and so does
\* what a signed pair says; deleted accounts stay deleted.
Kept ==
  /\ now' >= now
  /\ \A t \in Tokens : owner[t] # None => owner'[t] = owner[t] /\ refreshExp'[t] = refreshExp[t]
  /\ \A u \in Users :
       /\ account[u] # "none" => account'[u] # "none"
       /\ account[u] = "deleted" => account'[u] = "deleted"
  /\ \A r \in Requests :
       /\ pc[r] # "idle" => /\ pc'[r] # "idle" /\ op'[r] = op[r] /\ subject'[r] = subject[r]
                            /\ presented'[r] = presented[r] /\ (r \in late' <=> r \in late)
       /\ fresh[r] # None => fresh'[r] = fresh[r]
       /\ pc[r] = "done" => pc'[r] = "done" /\ answer'[r] = answer[r]

\* No step undoes that.
LEMMA KeptStep == IInv /\ [Next]_vars => Kept
<1> SUFFICES ASSUME IInv, [Next]_vars PROVE Kept
  OBVIOUS
<1> USE SessionsAssumption, TimeAssumption
        DEF IInv, TypeOK, RequestInv, Kept, Found, EmailTaken, dbVars, tokenVars, inputVars,
            Goto, Answer, Begin, Sign
<1>1. ASSUME NEW r \in Requests, NEW u \in Users, NEW t \in Tokens, LoginAccepted(r, u, t)
      PROVE Kept
  BY <1>1 DEF LoginAccepted
<1>2. ASSUME NEW r \in Requests, NEW u \in Users, LoginRejected(r, u) PROVE Kept
  BY <1>2 DEF LoginRejected
<1>3. ASSUME NEW r \in Requests, NEW u \in Users, RegisterCheck(r, u) PROVE Kept
  BY <1>3 DEF RegisterCheck
<1>4. ASSUME NEW r \in Requests, NEW t \in Tokens, RefreshFind(r, t) PROVE Kept
  BY <1>4 DEF RefreshFind
<1>5. ASSUME NEW r \in Requests, NEW t \in Tokens, LogoutArrive(r, t) PROVE Kept
  BY <1>5 DEF LogoutArrive
<1>6. ASSUME NEW r \in Requests, InsertToken(r) PROVE Kept
  BY <1>6 DEF InsertToken
<1>7. ASSUME NEW r \in Requests, NEW t \in Tokens, InsertUser(r, t) PROVE Kept
  BY <1>7 DEF InsertUser
<1>8. ASSUME NEW r \in Requests, NEW t \in Tokens, FindUser(r, t) PROVE Kept
  BY <1>8 DEF FindUser
<1>9. ASSUME NEW r \in Requests, InsertUserConflict(r) PROVE Kept
  BY <1>9 DEF InsertUserConflict
<1>10. ASSUME NEW r \in Requests, DropExpired(r) PROVE Kept
  BY <1>10 DEF DropExpired
<1>11. ASSUME NEW r \in Requests, FindUserDeleted(r) PROVE Kept
  BY <1>11 DEF FindUserDeleted
<1>12. ASSUME NEW r \in Requests, RotateDelete(r) PROVE Kept
  BY <1>12 DEF RotateDelete
<1>13. ASSUME NEW r \in Requests, RotateInsert(r) PROVE Kept
  BY <1>13 DEF RotateInsert
<1>14. ASSUME NEW r \in Requests, Respond(r) PROVE Kept
  BY <1>14 DEF Respond
<1>15. ASSUME NEW r \in Requests, LogoutSnapshot(r) PROVE Kept
  BY <1>15 DEF LogoutSnapshot
<1>16. ASSUME NEW r \in Requests, LogoutSweep(r) PROVE Kept
  BY <1>16 DEF LogoutSweep
<1>17. ASSUME NEW r \in Requests, LogoutRevoke(r) PROVE Kept
  BY <1>17 DEF LogoutRevoke
<1>18. ASSUME NEW r \in Requests, LogoutRevokeFails(r) PROVE Kept
  BY <1>18 DEF LogoutRevokeFails
<1>19. ASSUME NEW r \in Requests, QueryFails(r) PROVE Kept
  BY <1>19 DEF QueryFails
<1>20. ASSUME NEW r \in Requests, Crash(r) PROVE Kept
  BY <1>20 DEF Crash
<1>21. ASSUME NEW u \in Users, SoftDelete(u) PROVE Kept
  BY <1>21 DEF SoftDelete
<1>22. ASSUME PurgeExpired PROVE Kept
  BY <1>22 DEF PurgeExpired
<1>23. ASSUME Tick PROVE Kept
  BY <1>23 DEF Tick
<1>24. ASSUME UNCHANGED vars PROVE Kept
  BY <1>24 DEF vars
<1> QED
  BY <1>1, <1>2, <1>3, <1>4, <1>5, <1>6, <1>7, <1>8, <1>9, <1>10, <1>11, <1>12, <1>13,
     <1>14, <1>15, <1>16, <1>17, <1>18, <1>19, <1>20, <1>21, <1>22, <1>23, <1>24
     DEF Next, Arrive, Continue, Fail, Environment

\* A request that created its account, or is about to answer that it did.
Registered(r) ==
  /\ op[r] = "register"
  /\ pc[r] \in {"insertToken", "respond"} \/ answer[r] = 201

RegistrationInv ==
  /\ \A r \in Requests : Registered(r) => subject[r] \in Users /\ account[subject[r]] # "none"
  /\ \A q, r \in Requests : Registered(q) /\ Registered(r) /\ subject[q] = subject[r] => q = r

\* A request that came after the deletion never gets to sign a pair.
LateInv ==
  /\ \A r \in Requests : op[r] = "refresh" => subject[r] = owner[presented[r]]
  /\ \A r \in late :
       /\ subject[r] \in Users /\ account[subject[r]] = "deleted"
       /\ op[r] # "logout" => /\ fresh[r] = None
                              /\ pc[r] \in {"dropExpired", "findUser", "done"}
                              /\ answer[r] \notin {200, 201}

\* What a logout presents was given to a client, so its expiry is final.
LogoutInv ==
  /\ \A r \in Requests : fresh[r] # None => fresh[r] \notin Sessions0
  /\ \A r \in Requests :
       op[r] = "logout" =>
         /\ presented[r] \in Held
         /\ pc[r] \in {"guarded", "sweep", "revoke", "done"}

\* A row is dropped as expired only once it has expired, and what a logout
\* will sweep is decided only once.
ExpiryInv ==
  /\ \A r \in Requests : pc[r] = "dropExpired" => RefreshExpired(presented[r])
  /\ \A r \in Requests : pc[r] \in {"idle", "guarded"} => snapshot[r] = {}
  /\ \A r \in Requests : pc[r] = "idle" => r \notin late

\* An account is created by one request only: the INSERT finds the e-mail free.
LEMMA RegistrationStep == IInv /\ RegistrationInv /\ [Next]_vars => RegistrationInv'
<1> SUFFICES ASSUME IInv /\ RegistrationInv, [Next]_vars PROVE RegistrationInv'
  OBVIOUS
<1>0. Kept
  BY KeptStep
<1> USE <1>0, SessionsAssumption, TimeAssumption
        DEF IInv, TypeOK, RequestInv, StoreInv, Kept, Held, dbVars, tokenVars, inputVars,
            Goto, Answer, Begin, Sign, EmailTaken, Registered, RegistrationInv
<1>1. ASSUME NEW r \in Requests, NEW u \in Users, NEW t \in Tokens, LoginAccepted(r, u, t)
      PROVE RegistrationInv'
  BY <1>1 DEF LoginAccepted
<1>2. ASSUME NEW r \in Requests, NEW u \in Users, LoginRejected(r, u) PROVE RegistrationInv'
  BY <1>2 DEF LoginRejected
<1>3. ASSUME NEW r \in Requests, NEW u \in Users, RegisterCheck(r, u) PROVE RegistrationInv'
  BY <1>3 DEF RegisterCheck
<1>4. ASSUME NEW r \in Requests, NEW t \in Tokens, RefreshFind(r, t) PROVE RegistrationInv'
  BY <1>4 DEF RefreshFind
<1>5. ASSUME NEW r \in Requests, NEW t \in Tokens, LogoutArrive(r, t) PROVE RegistrationInv'
  BY <1>5 DEF LogoutArrive
<1>6. ASSUME NEW r \in Requests, InsertToken(r) PROVE RegistrationInv'
  BY <1>6 DEF InsertToken
<1>7. ASSUME NEW r \in Requests, NEW t \in Tokens, InsertUser(r, t) PROVE RegistrationInv'
  BY <1>7 DEF InsertUser
<1>8. ASSUME NEW r \in Requests, NEW t \in Tokens, FindUser(r, t) PROVE RegistrationInv'
  BY <1>8 DEF FindUser
<1>9. ASSUME NEW r \in Requests, InsertUserConflict(r) PROVE RegistrationInv'
  BY <1>9 DEF InsertUserConflict
<1>10. ASSUME NEW r \in Requests, DropExpired(r) PROVE RegistrationInv'
  BY <1>10 DEF DropExpired
<1>11. ASSUME NEW r \in Requests, FindUserDeleted(r) PROVE RegistrationInv'
  BY <1>11 DEF FindUserDeleted
<1>12. ASSUME NEW r \in Requests, RotateDelete(r) PROVE RegistrationInv'
  BY <1>12 DEF RotateDelete
<1>13. ASSUME NEW r \in Requests, RotateInsert(r) PROVE RegistrationInv'
  BY <1>13 DEF RotateInsert
<1>14. ASSUME NEW r \in Requests, Respond(r) PROVE RegistrationInv'
  BY <1>14 DEF Respond
<1>15. ASSUME NEW r \in Requests, LogoutSnapshot(r) PROVE RegistrationInv'
  BY <1>15 DEF LogoutSnapshot
<1>16. ASSUME NEW r \in Requests, LogoutSweep(r) PROVE RegistrationInv'
  BY <1>16 DEF LogoutSweep
<1>17. ASSUME NEW r \in Requests, LogoutRevoke(r) PROVE RegistrationInv'
  BY <1>17 DEF LogoutRevoke
<1>18. ASSUME NEW r \in Requests, LogoutRevokeFails(r) PROVE RegistrationInv'
  BY <1>18 DEF LogoutRevokeFails
<1>19. ASSUME NEW r \in Requests, QueryFails(r) PROVE RegistrationInv'
  BY <1>19 DEF QueryFails
<1>20. ASSUME NEW r \in Requests, Crash(r) PROVE RegistrationInv'
  BY <1>20 DEF Crash
<1>21. ASSUME NEW u \in Users, SoftDelete(u) PROVE RegistrationInv'
  BY <1>21 DEF SoftDelete
<1>22. ASSUME PurgeExpired PROVE RegistrationInv'
  BY <1>22 DEF PurgeExpired
<1>23. ASSUME Tick PROVE RegistrationInv'
  BY <1>23 DEF Tick
<1>24. ASSUME UNCHANGED vars PROVE RegistrationInv'
  BY <1>24 DEF vars
<1> QED
  BY <1>1, <1>2, <1>3, <1>4, <1>5, <1>6, <1>7, <1>8, <1>9, <1>10, <1>11, <1>12, <1>13,
     <1>14, <1>15, <1>16, <1>17, <1>18, <1>19, <1>20, <1>21, <1>22, <1>23, <1>24
     DEF Next, Arrive, Continue, Fail, Environment

\* Every way to a new pair asks first whether the account is active.
LEMMA LateStep == IInv /\ LateInv /\ [Next]_vars => LateInv'
<1> SUFFICES ASSUME IInv /\ LateInv, [Next]_vars PROVE LateInv'
  OBVIOUS
<1>0. Kept
  BY KeptStep
<1> USE <1>0, SessionsAssumption, TimeAssumption
        DEF IInv, TypeOK, RequestInv, StoreInv, Kept, Held, dbVars, tokenVars, inputVars,
            Goto, Answer, Begin, Sign, Found, EmailTaken, RowExists, LateInv
<1>1. ASSUME NEW r \in Requests, NEW u \in Users, NEW t \in Tokens, LoginAccepted(r, u, t)
      PROVE LateInv'
  BY <1>1 DEF LoginAccepted
<1>2. ASSUME NEW r \in Requests, NEW u \in Users, LoginRejected(r, u) PROVE LateInv'
  BY <1>2 DEF LoginRejected
<1>3. ASSUME NEW r \in Requests, NEW u \in Users, RegisterCheck(r, u) PROVE LateInv'
  BY <1>3 DEF RegisterCheck
<1>4. ASSUME NEW r \in Requests, NEW t \in Tokens, RefreshFind(r, t) PROVE LateInv'
  BY <1>4 DEF RefreshFind
<1>5. ASSUME NEW r \in Requests, NEW t \in Tokens, LogoutArrive(r, t) PROVE LateInv'
  BY <1>5 DEF LogoutArrive
<1>6. ASSUME NEW r \in Requests, InsertToken(r) PROVE LateInv'
  BY <1>6 DEF InsertToken
<1>7. ASSUME NEW r \in Requests, NEW t \in Tokens, InsertUser(r, t) PROVE LateInv'
  BY <1>7 DEF InsertUser
<1>8. ASSUME NEW r \in Requests, NEW t \in Tokens, FindUser(r, t) PROVE LateInv'
  BY <1>8 DEF FindUser
<1>9. ASSUME NEW r \in Requests, InsertUserConflict(r) PROVE LateInv'
  BY <1>9 DEF InsertUserConflict
<1>10. ASSUME NEW r \in Requests, DropExpired(r) PROVE LateInv'
  BY <1>10 DEF DropExpired
<1>11. ASSUME NEW r \in Requests, FindUserDeleted(r) PROVE LateInv'
  BY <1>11 DEF FindUserDeleted
<1>12. ASSUME NEW r \in Requests, RotateDelete(r) PROVE LateInv'
  BY <1>12 DEF RotateDelete
<1>13. ASSUME NEW r \in Requests, RotateInsert(r) PROVE LateInv'
  BY <1>13 DEF RotateInsert
<1>14. ASSUME NEW r \in Requests, Respond(r) PROVE LateInv'
  BY <1>14 DEF Respond
<1>15. ASSUME NEW r \in Requests, LogoutSnapshot(r) PROVE LateInv'
  BY <1>15 DEF LogoutSnapshot
<1>16. ASSUME NEW r \in Requests, LogoutSweep(r) PROVE LateInv'
  BY <1>16 DEF LogoutSweep
<1>17. ASSUME NEW r \in Requests, LogoutRevoke(r) PROVE LateInv'
  BY <1>17 DEF LogoutRevoke
<1>18. ASSUME NEW r \in Requests, LogoutRevokeFails(r) PROVE LateInv'
  BY <1>18 DEF LogoutRevokeFails
<1>19. ASSUME NEW r \in Requests, QueryFails(r) PROVE LateInv'
  BY <1>19 DEF QueryFails
<1>20. ASSUME NEW r \in Requests, Crash(r) PROVE LateInv'
  BY <1>20 DEF Crash
<1>21. ASSUME NEW u \in Users, SoftDelete(u) PROVE LateInv'
  BY <1>21 DEF SoftDelete
<1>22. ASSUME PurgeExpired PROVE LateInv'
  BY <1>22 DEF PurgeExpired
<1>23. ASSUME Tick PROVE LateInv'
  BY <1>23 DEF Tick
<1>24. ASSUME UNCHANGED vars PROVE LateInv'
  BY <1>24 DEF vars
<1> QED
  BY <1>1, <1>2, <1>3, <1>4, <1>5, <1>6, <1>7, <1>8, <1>9, <1>10, <1>11, <1>12, <1>13,
     <1>14, <1>15, <1>16, <1>17, <1>18, <1>19, <1>20, <1>21, <1>22, <1>23, <1>24
     DEF Next, Arrive, Continue, Fail, Environment

\* Only what a client holds is presented.
LEMMA LogoutStep == IInv /\ LogoutInv /\ [Next]_vars => LogoutInv'
<1> SUFFICES ASSUME IInv /\ LogoutInv, [Next]_vars PROVE LogoutInv'
  OBVIOUS
<1>0. Kept
  BY KeptStep
<1> USE <1>0, SessionsAssumption, TimeAssumption
        DEF IInv, TypeOK, RequestInv, StoreInv, Kept, Held, dbVars, tokenVars, inputVars,
            Goto, Answer, Begin, Sign, Used, LogoutInv
<1>1. ASSUME NEW r \in Requests, NEW u \in Users, NEW t \in Tokens, LoginAccepted(r, u, t)
      PROVE LogoutInv'
  BY <1>1 DEF LoginAccepted
<1>2. ASSUME NEW r \in Requests, NEW u \in Users, LoginRejected(r, u) PROVE LogoutInv'
  BY <1>2 DEF LoginRejected
<1>3. ASSUME NEW r \in Requests, NEW u \in Users, RegisterCheck(r, u) PROVE LogoutInv'
  BY <1>3 DEF RegisterCheck
<1>4. ASSUME NEW r \in Requests, NEW t \in Tokens, RefreshFind(r, t) PROVE LogoutInv'
  BY <1>4 DEF RefreshFind
<1>5. ASSUME NEW r \in Requests, NEW t \in Tokens, LogoutArrive(r, t) PROVE LogoutInv'
  BY <1>5 DEF LogoutArrive
<1>6. ASSUME NEW r \in Requests, InsertToken(r) PROVE LogoutInv'
  BY <1>6 DEF InsertToken
<1>7. ASSUME NEW r \in Requests, NEW t \in Tokens, InsertUser(r, t) PROVE LogoutInv'
  BY <1>7 DEF InsertUser
<1>8. ASSUME NEW r \in Requests, NEW t \in Tokens, FindUser(r, t) PROVE LogoutInv'
  BY <1>8 DEF FindUser
<1>9. ASSUME NEW r \in Requests, InsertUserConflict(r) PROVE LogoutInv'
  BY <1>9 DEF InsertUserConflict
<1>10. ASSUME NEW r \in Requests, DropExpired(r) PROVE LogoutInv'
  BY <1>10 DEF DropExpired
<1>11. ASSUME NEW r \in Requests, FindUserDeleted(r) PROVE LogoutInv'
  BY <1>11 DEF FindUserDeleted
<1>12. ASSUME NEW r \in Requests, RotateDelete(r) PROVE LogoutInv'
  BY <1>12 DEF RotateDelete
<1>13. ASSUME NEW r \in Requests, RotateInsert(r) PROVE LogoutInv'
  BY <1>13 DEF RotateInsert
<1>14. ASSUME NEW r \in Requests, Respond(r) PROVE LogoutInv'
  BY <1>14 DEF Respond
<1>15. ASSUME NEW r \in Requests, LogoutSnapshot(r) PROVE LogoutInv'
  BY <1>15 DEF LogoutSnapshot
<1>16. ASSUME NEW r \in Requests, LogoutSweep(r) PROVE LogoutInv'
  BY <1>16 DEF LogoutSweep
<1>17. ASSUME NEW r \in Requests, LogoutRevoke(r) PROVE LogoutInv'
  BY <1>17 DEF LogoutRevoke
<1>18. ASSUME NEW r \in Requests, LogoutRevokeFails(r) PROVE LogoutInv'
  BY <1>18 DEF LogoutRevokeFails
<1>19. ASSUME NEW r \in Requests, QueryFails(r) PROVE LogoutInv'
  BY <1>19 DEF QueryFails
<1>20. ASSUME NEW r \in Requests, Crash(r) PROVE LogoutInv'
  BY <1>20 DEF Crash
<1>21. ASSUME NEW u \in Users, SoftDelete(u) PROVE LogoutInv'
  BY <1>21 DEF SoftDelete
<1>22. ASSUME PurgeExpired PROVE LogoutInv'
  BY <1>22 DEF PurgeExpired
<1>23. ASSUME Tick PROVE LogoutInv'
  BY <1>23 DEF Tick
<1>24. ASSUME UNCHANGED vars PROVE LogoutInv'
  BY <1>24 DEF vars
<1> QED
  BY <1>1, <1>2, <1>3, <1>4, <1>5, <1>6, <1>7, <1>8, <1>9, <1>10, <1>11, <1>12, <1>13,
     <1>14, <1>15, <1>16, <1>17, <1>18, <1>19, <1>20, <1>21, <1>22, <1>23, <1>24
     DEF Next, Arrive, Continue, Fail, Environment

\* What has expired stays expired.
LEMMA ExpiryStep == IInv /\ ExpiryInv /\ [Next]_vars => ExpiryInv'
<1> SUFFICES ASSUME IInv /\ ExpiryInv, [Next]_vars PROVE ExpiryInv'
  OBVIOUS
<1>0. Kept
  BY KeptStep
<1> USE <1>0, SessionsAssumption, TimeAssumption
        DEF IInv, TypeOK, RequestInv, StoreInv, Kept, Held, dbVars, tokenVars, inputVars,
            Goto, Answer, Begin, Sign, RefreshExpired, ExpiryInv
<1>1. ASSUME NEW r \in Requests, NEW u \in Users, NEW t \in Tokens, LoginAccepted(r, u, t)
      PROVE ExpiryInv'
  BY <1>1 DEF LoginAccepted
<1>2. ASSUME NEW r \in Requests, NEW u \in Users, LoginRejected(r, u) PROVE ExpiryInv'
  BY <1>2 DEF LoginRejected
<1>3. ASSUME NEW r \in Requests, NEW u \in Users, RegisterCheck(r, u) PROVE ExpiryInv'
  BY <1>3 DEF RegisterCheck
<1>4. ASSUME NEW r \in Requests, NEW t \in Tokens, RefreshFind(r, t) PROVE ExpiryInv'
  BY <1>4 DEF RefreshFind
<1>5. ASSUME NEW r \in Requests, NEW t \in Tokens, LogoutArrive(r, t) PROVE ExpiryInv'
  BY <1>5 DEF LogoutArrive
<1>6. ASSUME NEW r \in Requests, InsertToken(r) PROVE ExpiryInv'
  BY <1>6 DEF InsertToken
<1>7. ASSUME NEW r \in Requests, NEW t \in Tokens, InsertUser(r, t) PROVE ExpiryInv'
  BY <1>7 DEF InsertUser
<1>8. ASSUME NEW r \in Requests, NEW t \in Tokens, FindUser(r, t) PROVE ExpiryInv'
  BY <1>8 DEF FindUser
<1>9. ASSUME NEW r \in Requests, InsertUserConflict(r) PROVE ExpiryInv'
  BY <1>9 DEF InsertUserConflict
<1>10. ASSUME NEW r \in Requests, DropExpired(r) PROVE ExpiryInv'
  BY <1>10 DEF DropExpired
<1>11. ASSUME NEW r \in Requests, FindUserDeleted(r) PROVE ExpiryInv'
  BY <1>11 DEF FindUserDeleted
<1>12. ASSUME NEW r \in Requests, RotateDelete(r) PROVE ExpiryInv'
  BY <1>12 DEF RotateDelete
<1>13. ASSUME NEW r \in Requests, RotateInsert(r) PROVE ExpiryInv'
  BY <1>13 DEF RotateInsert
<1>14. ASSUME NEW r \in Requests, Respond(r) PROVE ExpiryInv'
  BY <1>14 DEF Respond
<1>15. ASSUME NEW r \in Requests, LogoutSnapshot(r) PROVE ExpiryInv'
  BY <1>15 DEF LogoutSnapshot
<1>16. ASSUME NEW r \in Requests, LogoutSweep(r) PROVE ExpiryInv'
  BY <1>16 DEF LogoutSweep
<1>17. ASSUME NEW r \in Requests, LogoutRevoke(r) PROVE ExpiryInv'
  BY <1>17 DEF LogoutRevoke
<1>18. ASSUME NEW r \in Requests, LogoutRevokeFails(r) PROVE ExpiryInv'
  BY <1>18 DEF LogoutRevokeFails
<1>19. ASSUME NEW r \in Requests, QueryFails(r) PROVE ExpiryInv'
  BY <1>19 DEF QueryFails
<1>20. ASSUME NEW r \in Requests, Crash(r) PROVE ExpiryInv'
  BY <1>20 DEF Crash
<1>21. ASSUME NEW u \in Users, SoftDelete(u) PROVE ExpiryInv'
  BY <1>21 DEF SoftDelete
<1>22. ASSUME PurgeExpired PROVE ExpiryInv'
  BY <1>22 DEF PurgeExpired
<1>23. ASSUME Tick PROVE ExpiryInv'
  BY <1>23 DEF Tick
<1>24. ASSUME UNCHANGED vars PROVE ExpiryInv'
  BY <1>24 DEF vars
<1> QED
  BY <1>1, <1>2, <1>3, <1>4, <1>5, <1>6, <1>7, <1>8, <1>9, <1>10, <1>11, <1>12, <1>13,
     <1>14, <1>15, <1>16, <1>17, <1>18, <1>19, <1>20, <1>21, <1>22, <1>23, <1>24
     DEF Next, Arrive, Continue, Fail, Environment

\* The only 500 without a failing query is that of DropExpired.
LEMMA RacesStep == IInv /\ ExpiryInv /\ RacesAreNot500 /\ [Next]_vars => RacesAreNot500'
<1> SUFFICES ASSUME IInv /\ ExpiryInv /\ RacesAreNot500, [Next]_vars PROVE RacesAreNot500'
  OBVIOUS
<1>0. Kept
  BY KeptStep
<1> USE <1>0, SessionsAssumption, TimeAssumption
        DEF IInv, TypeOK, RequestInv, StoreInv, Kept, Held, dbVars, tokenVars, inputVars,
            Goto, Answer, Begin, Sign, Used, RefreshExpired, LostRotation, ExpiryInv,
            RacesAreNot500
<1>1. ASSUME NEW r \in Requests, NEW u \in Users, NEW t \in Tokens, LoginAccepted(r, u, t)
      PROVE RacesAreNot500'
  BY <1>1 DEF LoginAccepted
<1>2. ASSUME NEW r \in Requests, NEW u \in Users, LoginRejected(r, u) PROVE RacesAreNot500'
  BY <1>2 DEF LoginRejected
<1>3. ASSUME NEW r \in Requests, NEW u \in Users, RegisterCheck(r, u) PROVE RacesAreNot500'
  BY <1>3 DEF RegisterCheck
<1>4. ASSUME NEW r \in Requests, NEW t \in Tokens, RefreshFind(r, t) PROVE RacesAreNot500'
  BY <1>4 DEF RefreshFind
<1>5. ASSUME NEW r \in Requests, NEW t \in Tokens, LogoutArrive(r, t) PROVE RacesAreNot500'
  BY <1>5 DEF LogoutArrive
<1>6. ASSUME NEW r \in Requests, InsertToken(r) PROVE RacesAreNot500'
  BY <1>6 DEF InsertToken
<1>7. ASSUME NEW r \in Requests, NEW t \in Tokens, InsertUser(r, t) PROVE RacesAreNot500'
  BY <1>7 DEF InsertUser
<1>8. ASSUME NEW r \in Requests, NEW t \in Tokens, FindUser(r, t) PROVE RacesAreNot500'
  BY <1>8 DEF FindUser
<1>9. ASSUME NEW r \in Requests, InsertUserConflict(r) PROVE RacesAreNot500'
  BY <1>9 DEF InsertUserConflict
<1>10. ASSUME NEW r \in Requests, DropExpired(r) PROVE RacesAreNot500'
  BY <1>10 DEF DropExpired
<1>11. ASSUME NEW r \in Requests, FindUserDeleted(r) PROVE RacesAreNot500'
  BY <1>11 DEF FindUserDeleted
<1>12. ASSUME NEW r \in Requests, RotateDelete(r) PROVE RacesAreNot500'
  BY <1>12 DEF RotateDelete
<1>13. ASSUME NEW r \in Requests, RotateInsert(r) PROVE RacesAreNot500'
  BY <1>13 DEF RotateInsert
<1>14. ASSUME NEW r \in Requests, Respond(r) PROVE RacesAreNot500'
  BY <1>14 DEF Respond
<1>15. ASSUME NEW r \in Requests, LogoutSnapshot(r) PROVE RacesAreNot500'
  BY <1>15 DEF LogoutSnapshot
<1>16. ASSUME NEW r \in Requests, LogoutSweep(r) PROVE RacesAreNot500'
  BY <1>16 DEF LogoutSweep
<1>17. ASSUME NEW r \in Requests, LogoutRevoke(r) PROVE RacesAreNot500'
  BY <1>17 DEF LogoutRevoke
<1>18. ASSUME NEW r \in Requests, LogoutRevokeFails(r) PROVE RacesAreNot500'
  BY <1>18 DEF LogoutRevokeFails
<1>19. ASSUME NEW r \in Requests, QueryFails(r) PROVE RacesAreNot500'
  BY <1>19 DEF QueryFails
<1>20. ASSUME NEW r \in Requests, Crash(r) PROVE RacesAreNot500'
  BY <1>20 DEF Crash
<1>21. ASSUME NEW u \in Users, SoftDelete(u) PROVE RacesAreNot500'
  BY <1>21 DEF SoftDelete
<1>22. ASSUME PurgeExpired PROVE RacesAreNot500'
  BY <1>22 DEF PurgeExpired
<1>23. ASSUME Tick PROVE RacesAreNot500'
  BY <1>23 DEF Tick
<1>24. ASSUME UNCHANGED vars PROVE RacesAreNot500'
  BY <1>24 DEF vars
<1> QED
  BY <1>1, <1>2, <1>3, <1>4, <1>5, <1>6, <1>7, <1>8, <1>9, <1>10, <1>11, <1>12, <1>13,
     <1>14, <1>15, <1>16, <1>17, <1>18, <1>19, <1>20, <1>21, <1>22, <1>23, <1>24
     DEF Next, Arrive, Continue, Fail, Environment

\* Rows go by expiry, by a rotation that commits or by a logout.
LEMMA CauseStep == IInv /\ ExpiryInv /\ ConsumedForCause /\ [Next]_vars => ConsumedForCause'
<1> SUFFICES ASSUME IInv /\ ExpiryInv /\ ConsumedForCause, [Next]_vars PROVE ConsumedForCause'
  OBVIOUS
<1>0. Kept
  BY KeptStep
<1> USE <1>0, SessionsAssumption, TimeAssumption
        DEF IInv, TypeOK, RequestInv, StoreInv, Kept, Held, dbVars, tokenVars, inputVars,
            Goto, Answer, Begin, Sign, Remove, Used, RefreshExpired, ExpiryInv,
            ConsumedForCause
<1>1. ASSUME NEW r \in Requests, NEW u \in Users, NEW t \in Tokens, LoginAccepted(r, u, t)
      PROVE ConsumedForCause'
  BY <1>1 DEF LoginAccepted
<1>2. ASSUME NEW r \in Requests, NEW u \in Users, LoginRejected(r, u) PROVE ConsumedForCause'
  BY <1>2 DEF LoginRejected
<1>3. ASSUME NEW r \in Requests, NEW u \in Users, RegisterCheck(r, u) PROVE ConsumedForCause'
  BY <1>3 DEF RegisterCheck
<1>4. ASSUME NEW r \in Requests, NEW t \in Tokens, RefreshFind(r, t) PROVE ConsumedForCause'
  BY <1>4 DEF RefreshFind
<1>5. ASSUME NEW r \in Requests, NEW t \in Tokens, LogoutArrive(r, t) PROVE ConsumedForCause'
  BY <1>5 DEF LogoutArrive
<1>6. ASSUME NEW r \in Requests, InsertToken(r) PROVE ConsumedForCause'
  BY <1>6 DEF InsertToken
<1>7. ASSUME NEW r \in Requests, NEW t \in Tokens, InsertUser(r, t) PROVE ConsumedForCause'
  BY <1>7 DEF InsertUser
<1>8. ASSUME NEW r \in Requests, NEW t \in Tokens, FindUser(r, t) PROVE ConsumedForCause'
  BY <1>8 DEF FindUser
<1>9. ASSUME NEW r \in Requests, InsertUserConflict(r) PROVE ConsumedForCause'
  BY <1>9 DEF InsertUserConflict
<1>10. ASSUME NEW r \in Requests, DropExpired(r) PROVE ConsumedForCause'
  BY <1>10 DEF DropExpired
<1>11. ASSUME NEW r \in Requests, FindUserDeleted(r) PROVE ConsumedForCause'
  BY <1>11 DEF FindUserDeleted
<1>12. ASSUME NEW r \in Requests, RotateDelete(r) PROVE ConsumedForCause'
  BY <1>12 DEF RotateDelete
<1>13. ASSUME NEW r \in Requests, RotateInsert(r) PROVE ConsumedForCause'
  BY <1>13 DEF RotateInsert
<1>14. ASSUME NEW r \in Requests, Respond(r) PROVE ConsumedForCause'
  BY <1>14 DEF Respond
<1>15. ASSUME NEW r \in Requests, LogoutSnapshot(r) PROVE ConsumedForCause'
  BY <1>15 DEF LogoutSnapshot
<1>16. ASSUME NEW r \in Requests, LogoutSweep(r) PROVE ConsumedForCause'
  BY <1>16 DEF LogoutSweep
<1>17. ASSUME NEW r \in Requests, LogoutRevoke(r) PROVE ConsumedForCause'
  BY <1>17 DEF LogoutRevoke
<1>18. ASSUME NEW r \in Requests, LogoutRevokeFails(r) PROVE ConsumedForCause'
  BY <1>18 DEF LogoutRevokeFails
<1>19. ASSUME NEW r \in Requests, QueryFails(r) PROVE ConsumedForCause'
  BY <1>19 DEF QueryFails
<1>20. ASSUME NEW r \in Requests, Crash(r) PROVE ConsumedForCause'
  BY <1>20 DEF Crash
<1>21. ASSUME NEW u \in Users, SoftDelete(u) PROVE ConsumedForCause'
  BY <1>21 DEF SoftDelete
<1>22. ASSUME PurgeExpired PROVE ConsumedForCause'
  BY <1>22 DEF PurgeExpired
<1>23. ASSUME Tick PROVE ConsumedForCause'
  BY <1>23 DEF Tick
<1>24. ASSUME UNCHANGED vars PROVE ConsumedForCause'
  BY <1>24 DEF vars
<1> QED
  BY <1>1, <1>2, <1>3, <1>4, <1>5, <1>6, <1>7, <1>8, <1>9, <1>10, <1>11, <1>12, <1>13,
     <1>14, <1>15, <1>16, <1>17, <1>18, <1>19, <1>20, <1>21, <1>22, <1>23, <1>24
     DEF Next, Arrive, Continue, Fail, Environment

\* The purge takes only what has expired, and expiry is final for a pair a
\* client holds: a refresh signs its access token before it answers.
LEMMA SticksStep == IInv /\ LogoutInv /\ LogoutSticks /\ [Next]_vars => LogoutSticks'
<1> SUFFICES ASSUME IInv /\ LogoutInv /\ LogoutSticks, [Next]_vars PROVE LogoutSticks'
  OBVIOUS
<1>0. Kept
  BY KeptStep
<1> USE <1>0, SessionsAssumption, TimeAssumption
        DEF IInv, TypeOK, RequestInv, StoreInv, Kept, Held, dbVars, tokenVars, inputVars,
            Goto, Answer, Begin, Sign, PairInv, Used, AccessExpired, Purgeable, LogoutInv,
            LogoutSticks
<1>1. ASSUME NEW r \in Requests, NEW u \in Users, NEW t \in Tokens, LoginAccepted(r, u, t)
      PROVE LogoutSticks'
  BY <1>1 DEF LoginAccepted
<1>2. ASSUME NEW r \in Requests, NEW u \in Users, LoginRejected(r, u) PROVE LogoutSticks'
  BY <1>2 DEF LoginRejected
<1>3. ASSUME NEW r \in Requests, NEW u \in Users, RegisterCheck(r, u) PROVE LogoutSticks'
  BY <1>3 DEF RegisterCheck
<1>4. ASSUME NEW r \in Requests, NEW t \in Tokens, RefreshFind(r, t) PROVE LogoutSticks'
  BY <1>4 DEF RefreshFind
<1>5. ASSUME NEW r \in Requests, NEW t \in Tokens, LogoutArrive(r, t) PROVE LogoutSticks'
  BY <1>5 DEF LogoutArrive
<1>6. ASSUME NEW r \in Requests, InsertToken(r) PROVE LogoutSticks'
  BY <1>6 DEF InsertToken
<1>7. ASSUME NEW r \in Requests, NEW t \in Tokens, InsertUser(r, t) PROVE LogoutSticks'
  BY <1>7 DEF InsertUser
<1>8. ASSUME NEW r \in Requests, NEW t \in Tokens, FindUser(r, t) PROVE LogoutSticks'
  BY <1>8 DEF FindUser
<1>9. ASSUME NEW r \in Requests, InsertUserConflict(r) PROVE LogoutSticks'
  BY <1>9 DEF InsertUserConflict
<1>10. ASSUME NEW r \in Requests, DropExpired(r) PROVE LogoutSticks'
  BY <1>10 DEF DropExpired
<1>11. ASSUME NEW r \in Requests, FindUserDeleted(r) PROVE LogoutSticks'
  BY <1>11 DEF FindUserDeleted
<1>12. ASSUME NEW r \in Requests, RotateDelete(r) PROVE LogoutSticks'
  BY <1>12 DEF RotateDelete
<1>13. ASSUME NEW r \in Requests, RotateInsert(r) PROVE LogoutSticks'
  BY <1>13 DEF RotateInsert
<1>14. ASSUME NEW r \in Requests, Respond(r) PROVE LogoutSticks'
  BY <1>14 DEF Respond
<1>15. ASSUME NEW r \in Requests, LogoutSnapshot(r) PROVE LogoutSticks'
  BY <1>15 DEF LogoutSnapshot
<1>16. ASSUME NEW r \in Requests, LogoutSweep(r) PROVE LogoutSticks'
  BY <1>16 DEF LogoutSweep
<1>17. ASSUME NEW r \in Requests, LogoutRevoke(r) PROVE LogoutSticks'
  BY <1>17 DEF LogoutRevoke
<1>18. ASSUME NEW r \in Requests, LogoutRevokeFails(r) PROVE LogoutSticks'
  BY <1>18 DEF LogoutRevokeFails
<1>19. ASSUME NEW r \in Requests, QueryFails(r) PROVE LogoutSticks'
  BY <1>19 DEF QueryFails
<1>20. ASSUME NEW r \in Requests, Crash(r) PROVE LogoutSticks'
  BY <1>20 DEF Crash
<1>21. ASSUME NEW u \in Users, SoftDelete(u) PROVE LogoutSticks'
  BY <1>21 DEF SoftDelete
<1>22. ASSUME PurgeExpired PROVE LogoutSticks'
  BY <1>22 DEF PurgeExpired
<1>23. ASSUME Tick PROVE LogoutSticks'
  BY <1>23 DEF Tick
<1>24. ASSUME UNCHANGED vars PROVE LogoutSticks'
  BY <1>24 DEF vars
<1> QED
  BY <1>1, <1>2, <1>3, <1>4, <1>5, <1>6, <1>7, <1>8, <1>9, <1>10, <1>11, <1>12, <1>13,
     <1>14, <1>15, <1>16, <1>17, <1>18, <1>19, <1>20, <1>21, <1>22, <1>23, <1>24
     DEF Next, Arrive, Continue, Fail, Environment

RequestsInv ==
  /\ IInv
  /\ RegistrationInv /\ LateInv /\ LogoutInv /\ ExpiryInv
  /\ RacesAreNot500 /\ ConsumedForCause /\ LogoutSticks

LEMMA RequestsInit == Init => RequestsInv
<1> SUFFICES ASSUME Init PROVE RequestsInv
  OBVIOUS
<1>1. IInv
  BY InitInv
<1>2. RegistrationInv /\ LateInv /\ LogoutInv /\ ExpiryInv
  BY DEF Init, RegistrationInv, Registered, LateInv, LogoutInv, ExpiryInv
<1>3. RacesAreNot500 /\ ConsumedForCause /\ LogoutSticks
  BY DEF Init, RacesAreNot500, ConsumedForCause, LogoutSticks
<1> QED
  BY <1>1, <1>2, <1>3 DEF RequestsInv

LEMMA RequestsStep == RequestsInv /\ [Next]_vars => RequestsInv'
BY StepInv, RegistrationStep, LateStep, LogoutStep, ExpiryStep, RacesStep, CauseStep,
     SticksStep
   DEF RequestsInv

THEOREM RequestsInvariance == Spec => []RequestsInv
BY RequestsInit, RequestsStep, PTL DEF Spec

\* An e-mail is registered successfully at most once, whatever the number of
\* concurrent registrations: AuthService!OneRegistration.
THEOREM RegisteredOnce == Spec => []OneRegistration
<1>1. RequestsInv => OneRegistration
  BY DEF RequestsInv, RegistrationInv, Registered, OneRegistration
<1> QED
  BY <1>1, RequestsInvariance, PTL

\* No session comes out of a request begun after the account was deleted:
\* AuthService!NothingAfterDelete.
THEOREM NoSessionAfterDelete == Spec => []NothingAfterDelete
<1>1. RequestsInv => NothingAfterDelete
  BY SessionsAssumption DEF RequestsInv, IInv, TypeOK, LateInv, NothingAfterDelete
<1> QED
  BY <1>1, RequestsInvariance, PTL

\* No refresh token is used up for nothing: AuthService!ConsumedForCause.
THEOREM NeverConsumedForNothing == Spec => []ConsumedForCause
BY RequestsInvariance, PTL DEF RequestsInv

\* An access token stays on the blacklist until it expires:
\* AuthService!LogoutSticks.
THEOREM RevokedUntilExpiry == Spec => []LogoutSticks
BY RequestsInvariance, PTL DEF RequestsInv

\* Races are not internal errors: AuthService!RacesAreNot500.
THEOREM RacesAnswered == Spec => []RacesAreNot500
BY RequestsInvariance, PTL DEF RequestsInv
===============================================================================
