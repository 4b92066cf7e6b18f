------------------------- MODULE AuthSessionsProofs -------------------------
(* Locks and sign-outs of AuthSessions, for any users, requests, sessions  *)
(* and calls, whatever statement fails and whatever request stops.         *)
EXTENDS AuthSessionsProperties, TLAPS

\* The statements of a call.
Statements(kind) ==
  CASE kind = "register" -> {"findEmail", "insertUser", "openAccounts"}
    [] kind = "login" -> {"findLogin", "saveSuccess", "saveFailure", "auditLocked", "issue"}
    [] kind = "refresh" -> {"findToken", "findUser", "revoke", "issue"}
    [] kind = "logout" -> {"validate", "blacklist", "revokeAll"}
    [] kind = "use" -> {"authorize"}
    [] OTHER -> {"authorize", "findTarget", kind}

Places(kind) == Statements(kind) \union {"idle", "audit", "done"}
Replies == Codes \union {"none", "ok"}

(* A request is at a statement of its call. *)
ControlInv ==
  /\ call \in [Requests -> Call]
  /\ reply \in [Requests -> Replies]
  /\ DOMAIN pc = Requests
  /\ pc = [r \in Requests |-> pc[r]]
  /\ \A r \in Requests : pc[r] \in Places(call[r].kind)

(* A pair of tokens clients came with has a holder. *)
TablesInv ==
  /\ users \in [Emails -> UserRow]
  /\ holder \in [Tokens -> Emails \union {Nobody}]
  /\ \A s \in Sessions : holder[s] \in Emails
  /\ refresh \in [Tokens -> {"none", "live", "revoked"}]
  /\ blacklist \subseteq Tokens
  /\ expired \subseteq Perishable
  /\ seen \in [Requests -> UserRow]
  /\ swallowed \subseteq Requests
  /\ cut \in [Requests -> SUBSET Tokens]

TypeInv == ControlInv /\ TablesInv

Consistent(u) == u.locked <=> u.attempts = MaxFailedLoginAttempts

(* A login writes only copies of rows that were not locked. *)
LockInv ==
  /\ LockMatchesCounter
  /\ \A r \in Requests :
       /\ Consistent(seen[r])
       /\ pc[r] \in {"saveSuccess", "saveFailure"} => ~seen[r].locked

-----------------------------------------------------------------------------
(* Rows and places *)

LEMMA CallsExist == Call # {}
<1>1. PICK s \in Sessions : TRUE
  BY ConstantsAssumption
<1>2. [kind |-> "login", email |-> HolderOf[s], password |-> Temporary,
       new |-> Temporary, token |-> s] \in Call
  BY <1>1, ConstantsAssumption DEF Call, Kinds
<1> QED  BY <1>2

\* A row with another count and lock
LEMMA CountedRow ==
  ASSUME NEW u \in UserRow, NEW n \in 0..MaxFailedLoginAttempts, NEW b \in BOOLEAN,
         NEW v, v = [u EXCEPT !.attempts = n, !.locked = b],
         b <=> n = MaxFailedLoginAttempts
  PROVE  v \in UserRow /\ Consistent(v)
BY DEF UserRow, MaxFailedLoginAttempts, Consistent

\* A new row, and the copies logins write, are rows whose lock is the counter's.
LEMMA RowsMade ==
  /\ \A p \in Passwords : NewUser(p) \in UserRow /\ Consistent(NewUser(p))
  /\ \A u \in UserRow : Consistent(u) =>
       /\ IncrementFailedAttempts(u) \in UserRow
       /\ Consistent(IncrementFailedAttempts(u))
       /\ ~u.locked => /\ ResetFailedAttempts(u) \in UserRow
                       /\ Consistent(ResetFailedAttempts(u))
<1>1. ASSUME NEW p \in Passwords
      PROVE NewUser(p) \in UserRow /\ Consistent(NewUser(p))
  BY DEF NewUser, UserRow, Consistent, MaxFailedLoginAttempts
<1>2. ASSUME NEW u \in UserRow, Consistent(u)
      PROVE /\ IncrementFailedAttempts(u) \in UserRow
            /\ Consistent(IncrementFailedAttempts(u))
  <2>1. CASE u.attempts + 1 >= MaxFailedLoginAttempts
    <3>1. PICK n \in 0..MaxFailedLoginAttempts : n = MaxFailedLoginAttempts
      BY DEF MaxFailedLoginAttempts
    <3>b. PICK b \in BOOLEAN : b = TRUE
      OBVIOUS
    <3>2. IncrementFailedAttempts(u) = [u EXCEPT !.attempts = n, !.locked = b]
      BY <2>1, <3>1, <3>b DEF IncrementFailedAttempts
    <3> QED  BY <3>1, <3>b, <3>2, CountedRow
  <2>2. CASE ~(u.attempts + 1 >= MaxFailedLoginAttempts)
    <3>1. /\ u.locked \in BOOLEAN /\ ~u.locked
          /\ u.attempts + 1 \in 0..MaxFailedLoginAttempts
          /\ u.attempts + 1 # MaxFailedLoginAttempts
      BY <1>2, <2>2 DEF UserRow, Consistent, MaxFailedLoginAttempts
    <3>2. IncrementFailedAttempts(u)
            = [u EXCEPT !.attempts = u.attempts + 1, !.locked = u.locked]
      BY <2>2, <3>1 DEF IncrementFailedAttempts
    <3> QED  BY <3>1, <3>2, CountedRow
  <2> QED  BY <2>1, <2>2
<1>3. ASSUME NEW u \in UserRow, ~u.locked
      PROVE ResetFailedAttempts(u) \in UserRow /\ Consistent(ResetFailedAttempts(u))
  BY <1>3 DEF ResetFailedAttempts, UserRow, Consistent, MaxFailedLoginAttempts
<1> QED  BY <1>1, <1>2, <1>3

\* A request that moves on within its call, with or without an answer
LEMMA MovesOn ==
  ASSUME ControlInv, NEW r \in Requests, NEW p \in Places(call[r].kind),
         UNCHANGED call,
         Goto(r, p) \/ \E code \in Replies : Answer(r, p, code)
  PROVE  ControlInv' /\ pc'[r] = p /\ \A q \in Requests \ {r} : pc'[q] = pc[q]
<1>1. pc' = [pc EXCEPT ![r] = p] /\ reply' \in [Requests -> Replies]
  BY DEF ControlInv, Goto, Answer
<1> QED  BY <1>1 DEF ControlInv

\* Where a request is tells its kind, and where it may go.
LEMMA KindAt ==
  ASSUME ControlInv, NEW r \in Requests
  PROVE  /\ call[r] \in Call /\ call[r].kind \in Kinds
         /\ E(r) \in Emails /\ T(r) \in Sessions
         /\ pc[r] \in {"findEmail", "insertUser", "openAccounts"} =>
              call[r].kind = "register"
         /\ pc[r] \in {"findLogin", "saveSuccess", "saveFailure", "auditLocked"} =>
              call[r].kind = "login"
         /\ pc[r] \in {"findToken", "findUser", "revoke"} => call[r].kind = "refresh"
         /\ pc[r] = "issue" => call[r].kind \in {"login", "refresh"}
         /\ pc[r] \in {"validate", "blacklist", "revokeAll"} => call[r].kind = "logout"
         /\ pc[r] \in {"unlock", "delete", "resetPassword", "changePassword"} =>
              call[r].kind = pc[r]
         /\ pc[r] = "findTarget" => call[r].kind # "use"
         /\ pc[r] \in {"authorize", "findTarget"} =>
              call[r].kind \in {"use", "unlock", "delete", "resetPassword",
                               "changePassword"}
<1>1. call[r] \in Call
  BY DEF ControlInv
<1>2. call[r].kind \in Kinds /\ E(r) \in Emails /\ T(r) \in Sessions
  BY <1>1 DEF Call, E, T
<1>3. pc[r] \in Places(call[r].kind)
  BY DEF ControlInv
<1> QED  BY <1>1, <1>2, <1>3 DEF Kinds, Places, Statements

LEMMA WaysFrom ==
  ASSUME ControlInv, NEW r \in Requests
  PROVE  LET here == Places(call[r].kind) IN
         /\ {"audit", "done"} \subseteq here
         /\ pc[r] \in {"findEmail", "insertUser"} =>
              {"insertUser", "openAccounts"} \subseteq here
         /\ pc[r] \in {"findLogin", "saveSuccess", "saveFailure", "auditLocked"} =>
              {"saveSuccess", "saveFailure", "auditLocked", "issue"} \subseteq here
         /\ pc[r] \in {"findToken", "findUser", "revoke"} =>
              {"findUser", "revoke", "issue"} \subseteq here
         /\ pc[r] \in {"validate", "blacklist"} =>
              {"blacklist", "revokeAll"} \subseteq here
         /\ pc[r] \in {"authorize", "findTarget"} /\ call[r].kind # "use" =>
              {"findTarget", call[r].kind} \subseteq here
BY KindAt DEF Places, Statements

LEMMA CodesAnswered ==
  {"ok", "none", "CustomerAlreadyExists", "SystemInternalError",
   "AuthAccountLocked", "AuthInvalidCredentials", "AuthInvalidTokenFormat",
   "CustomerNotFound", "AuthExpiredToken", "AuthInsufficientPermission",
   "ValidationGeneral"} \subseteq Replies
BY DEF Replies, Codes, BadRequest, Unauthorized, Forbidden, NotFound, Conflict,
       Unprocessable, ServerErrors

LEMMA TypeInit == Init => TypeInv
<1> SUFFICES ASSUME Init PROVE TypeInv
  OBVIOUS
<1> USE ConstantsAssumption
<1>1. AnyCall \in Call
  BY CallsExist DEF AnyCall
<1>2. NewUser(Temporary) \in UserRow
  BY RowsMade
<1>3. ControlInv
  BY <1>1 DEF ControlInv, Init, Places, Replies
<1>4. TablesInv
  BY <1>2 DEF TablesInv, Init, Tokens
<1> QED  BY <1>3, <1>4 DEF TypeInv

-----------------------------------------------------------------------------
(* Every step of a request but its first stays in its call. *)

LEMMA ControlStep ==
  ASSUME ControlInv, NEW r \in Requests, Serve(r) \/ StatementFails(r)
  PROVE  /\ ControlInv' /\ UNCHANGED call
         /\ \A q \in Requests \ {r} : pc'[q] = pc[q]
<1> DEFINE Here == Places(call[r].kind)
           Moves == \E p \in Here :
                      Goto(r, p) \/ \E code \in Replies : Answer(r, p, code)
<1> USE WaysFrom, CodesAnswered DEF Refuse, Return
<1>1. CASE RegisterLookup(r)
  <2>1. Moves
    BY <1>1 DEF RegisterLookup, RegisterHandler
  <2> QED  BY <2>1, <1>1, MovesOn DEF RegisterLookup
<1>2. CASE RegisterCreate(r)
  <2>1. Moves
    BY <1>2 DEF RegisterCreate, RegisterHandler
  <2> QED  BY <2>1, <1>2, MovesOn DEF RegisterCreate
<1>3. CASE RegisterOpenAccounts(r)
  <2>1. Moves
    BY <1>3 DEF RegisterOpenAccounts, RegisterHandler
  <2> QED  BY <2>1, <1>3, MovesOn DEF RegisterOpenAccounts
<1>4. CASE LoginLookup(r)
  <2>1. Moves
    BY <1>4 DEF LoginLookup, LoginHandler
  <2> QED  BY <2>1, <1>4, MovesOn DEF LoginLookup
<1>5. CASE LoginFailed(r)
  <2>1. Moves
    BY <1>5 DEF LoginFailed, LoginHandler, AfterFailure
  <2> QED  BY <2>1, <1>5, MovesOn DEF LoginFailed
<1>6. CASE AuditAccountLocked(r)
  <2>1. Moves
    BY <1>6 DEF AuditAccountLocked
  <2> QED  BY <2>1, <1>6, MovesOn DEF AuditAccountLocked
<1>7. CASE LoginSucceeded(r)
  <2>1. Moves
    BY <1>7 DEF LoginSucceeded
  <2> QED  BY <2>1, <1>7, MovesOn DEF LoginSucceeded
<1>8. CASE GenerateTokens(r)
  <2>1. Moves
    BY <1>8 DEF GenerateTokens, IssueTo
  <2> QED  BY <2>1, <1>8, MovesOn DEF GenerateTokens
<1>9. CASE RefreshLookup(r)
  <2>1. Moves
    BY <1>9 DEF RefreshLookup, RefreshHandler
  <2> QED  BY <2>1, <1>9, MovesOn DEF RefreshLookup
<1>10. CASE RefreshUser(r)
  <2>1. Moves
    BY <1>10 DEF RefreshUser, RefreshHandler
  <2> QED  BY <2>1, <1>10, MovesOn DEF RefreshUser
<1>11. CASE RefreshRevoke(r)
  <2>1. Moves
    BY <1>11 DEF RefreshRevoke
  <2> QED  BY <2>1, <1>11, MovesOn DEF RefreshRevoke
<1>12. CASE LogoutValidate(r)
  <2>1. Moves
    BY <1>12 DEF LogoutValidate, LogoutHandler
  <2> QED  BY <2>1, <1>12, MovesOn DEF LogoutValidate
<1>13. CASE LogoutBlacklist(r)
  <2>1. Moves
    BY <1>13 DEF LogoutBlacklist
  <2> QED  BY <2>1, <1>13, MovesOn DEF LogoutBlacklist
<1>14. CASE LogoutRevokeAll(r)
  <2>1. Moves
    BY <1>14 DEF LogoutRevokeAll, LogoutHandler
  <2> QED  BY <2>1, <1>14, MovesOn DEF LogoutRevokeAll
<1>15. CASE RequireAuth(r)
  <2>1. Moves
    BY <1>15 DEF RequireAuth, Authorize, Admitted, Rejection, AdminRoutes
  <2> QED  BY <2>1, <1>15, MovesOn DEF RequireAuth
<1>16. CASE FindTarget(r)
  <2>0. "done" \in Here /\ call[r].kind \in Here
    BY <1>16, KindAt DEF FindTarget
  <2>1. Moves
    <3>1. CASE ~Live(Target(r))
      BY <1>16, <2>0, <3>1 DEF FindTarget, ResetPasswordHandler,
                              UpdateMyPasswordHandler
    <3>2. CASE /\ Live(Target(r)) /\ call[r].kind = "changePassword"
               /\ users[Target(r)].password # call[r].password
      BY <1>16, <2>0, <3>2 DEF FindTarget, UpdateMyPasswordHandler
    <3>3. CASE Goto(r, call[r].kind)
      BY <2>0, <3>3
    <3> QED  BY <1>16, <3>1, <3>2, <3>3 DEF FindTarget
  <2> QED  BY <2>1, <1>16, MovesOn DEF FindTarget
<1>17. CASE UnlockUser(r)
  <2>1. Moves
    BY <1>17 DEF UnlockUser
  <2> QED  BY <2>1, <1>17, MovesOn DEF UnlockUser
<1>18. CASE DeleteUser(r)
  <2>1. Moves
    BY <1>18 DEF DeleteUser
  <2> QED  BY <2>1, <1>18, MovesOn DEF DeleteUser
<1>19. CASE AdminResetPassword(r)
  <2>1. Moves
    BY <1>19 DEF AdminResetPassword, UpdatePasswordHash
  <2> QED  BY <2>1, <1>19, MovesOn DEF AdminResetPassword, UpdatePasswordHash
<1>20. CASE CustomerUpdatePassword(r)
  <2>1. Moves
    BY <1>20 DEF CustomerUpdatePassword, UpdatePasswordHash
  <2> QED  BY <2>1, <1>20, MovesOn DEF CustomerUpdatePassword, UpdatePasswordHash
<1>21. CASE CreateAuditLog(r)
  <2>1. Moves
    BY <1>21 DEF CreateAuditLog
  <2> QED  BY <2>1, <1>21, MovesOn DEF CreateAuditLog
<1>22. CASE StatementFails(r)
  <2>1. Moves
    BY <1>22 DEF StatementFails, Ignored, AfterFailure, LoginHandler,
                 Authorize, Admitted, Rejection, AdminRoutes
  <2> QED  BY <2>1, <1>22, MovesOn DEF StatementFails
<1> QED
  BY <1>1, <1>2, <1>3, <1>4, <1>5, <1>6, <1>7, <1>8, <1>9, <1>10, <1>11, <1>12, <1>13, <1>14, <1>15, <1>16, <1>17, <1>18, <1>19, <1>20, <1>21, <1>22 DEF Serve

LEMMA ControlInvariant == TypeInv /\ [Next]_vars => ControlInv'
<1> SUFFICES ASSUME TypeInv, [Next]_vars PROVE ControlInv'
  OBVIOUS
<1> USE DEF TypeInv
<1>1. ASSUME NEW r \in Requests, Start(r) PROVE ControlInv'
  <2>1. PICK c \in Calls : /\ call' = [call EXCEPT ![r] = c]
                           /\ Goto(r, FirstStatement[c.kind])
    BY <1>1 DEF Start
  <2>2. c \in Call /\ c.kind \in Kinds
    BY ConstantsAssumption DEF Call
  <2>3. FirstStatement[c.kind] \in Places(c.kind)
    BY <2>2 DEF FirstStatement, Places, Statements, Kinds
  <2> QED  BY <2>1, <2>2, <2>3 DEF ControlInv, Goto
<1>2. ASSUME NEW r \in Requests, Serve(r) \/ StatementFails(r) PROVE ControlInv'
  BY <1>2, ControlStep
<1>3. CASE Expire
  BY <1>3 DEF Expire, ControlInv
<1>4. CASE UNCHANGED vars
  BY <1>4 DEF vars, ControlInv
<1> QED  BY <1>1, <1>2, <1>3, <1>4 DEF Next, Finished

-----------------------------------------------------------------------------
(* Every row that is written is a row, and its lock is its counter's. *)

RowsOK == users \in [Emails -> UserRow] /\ LockMatchesCounter

LEMMA RowWritten ==
  ASSUME RowsOK, NEW e \in Emails, NEW row \in UserRow, Consistent(row),
         \/ UpdateUser(e, row)
         \/ users' = [users EXCEPT ![e] = row]
  PROVE  RowsOK'
BY DEF RowsOK, LockMatchesCounter, Consistent, UpdateUser

LEMMA CountWritten ==
  ASSUME RowsOK, NEW e \in Emails, NEW u \in UserRow, Consistent(u),
         UpdateFailedLoginAttempts(e, u)
  PROVE  RowsOK'
<1> DEFINE row == [users[e] EXCEPT !.attempts = u.attempts, !.locked = u.locked]
<1>1. /\ u.attempts \in 0..MaxFailedLoginAttempts /\ u.locked \in BOOLEAN
      /\ u.locked <=> u.attempts = MaxFailedLoginAttempts
      /\ users[e] \in UserRow
  BY DEF UserRow, Consistent, RowsOK
<1>2. row \in UserRow /\ Consistent(row)
  BY <1>1, CountedRow
<1> QED  BY <1>2, RowWritten DEF UpdateFailedLoginAttempts

LEMMA LockReset ==
  ASSUME RowsOK, NEW e \in Emails, ResetFailedLoginAttempts(e)
  PROVE  RowsOK'
<1> DEFINE row == [users[e] EXCEPT !.attempts = 0, !.locked = FALSE]
<1>1. PICK n \in 0..MaxFailedLoginAttempts : n = 0
  BY DEF MaxFailedLoginAttempts
<1>2. PICK b \in BOOLEAN : b = FALSE
  OBVIOUS
<1>3. n # MaxFailedLoginAttempts
  BY <1>1 DEF MaxFailedLoginAttempts
<1>4. row = [users[e] EXCEPT !.attempts = n, !.locked = b]
  BY <1>1, <1>2
<1>5. row \in UserRow /\ Consistent(row)
  BY <1>2, <1>3, <1>4, CountedRow DEF RowsOK
<1> QED  BY <1>5, RowWritten DEF ResetFailedLoginAttempts

LEMMA PasswordWritten ==
  ASSUME RowsOK, NEW e \in Emails, NEW p \in Passwords,
         UpdateUser(e, [users[e] EXCEPT !.password = p])
  PROVE  RowsOK'
<1> DEFINE row == [users[e] EXCEPT !.password = p]
<1>1. row \in UserRow /\ Consistent(row)
  BY DEF RowsOK, LockMatchesCounter, Consistent, UserRow
<1> QED  BY <1>1, RowWritten

LEMMA RowDeleted ==
  ASSUME RowsOK, NEW e \in Emails, SoftDelete(e)
  PROVE  RowsOK'
<1> DEFINE row == [users[e] EXCEPT !.state = "deleted"]
<1>1. row \in UserRow /\ Consistent(row)
  BY DEF RowsOK, LockMatchesCounter, Consistent, UserRow
<1> QED  BY <1>1, RowWritten DEF SoftDelete

LEMMA RowsInvariant == TypeInv /\ LockInv /\ [Next]_vars => RowsOK'
<1> SUFFICES ASSUME TypeInv, LockInv, [Next]_vars PROVE RowsOK'
  OBVIOUS
<1>0. RowsOK
  BY DEF TypeInv, TablesInv, LockInv, RowsOK
<1>1. CASE UNCHANGED users
  BY <1>0, <1>1 DEF RowsOK, LockMatchesCounter
<1>2. ASSUME NEW r \in Requests, Serve(r), users' # users PROVE RowsOK'
  <2>1. /\ E(r) \in Emails /\ T(r) \in Sessions /\ seen[r] \in UserRow
        /\ Consistent(seen[r])
        /\ pc[r] \in {"saveSuccess", "saveFailure"} => ~seen[r].locked
        /\ call[r].password \in Passwords /\ call[r].new \in Passwords
    BY KindAt DEF TypeInv, TablesInv, LockInv, Call
  <2>2. Owner(r) \in Emails
    BY <2>1 DEF Owner, TypeInv, TablesInv
  <2>3. CASE RegisterCreate(r)
    BY <1>0, <1>2, <2>1, <2>3, RowsMade, RowWritten DEF RegisterCreate, InsertUser
  <2>4. CASE LoginFailed(r)
    BY <1>0, <2>1, <2>4, RowsMade, CountWritten DEF LoginFailed
  <2>5. CASE LoginSucceeded(r)
    BY <1>0, <2>1, <2>5, RowsMade, CountWritten DEF LoginSucceeded
  <2>6. CASE UnlockUser(r)
    BY <1>0, <2>1, <2>6, LockReset DEF UnlockUser
  <2>7. CASE DeleteUser(r)
    BY <1>0, <1>2, <2>1, <2>7, RowDeleted DEF DeleteUser
  <2>8. CASE AdminResetPassword(r) \/ CustomerUpdatePassword(r)
    <3>1. Target(r) \in Emails
      BY <2>1, <2>2 DEF Target
    <3> QED  BY <1>0, <2>1, <2>8, <3>1, PasswordWritten, ConstantsAssumption
             DEF AdminResetPassword, CustomerUpdatePassword, UpdatePasswordHash
  <2>9. CASE ~ \/ RegisterCreate(r) \/ LoginFailed(r) \/ LoginSucceeded(r)
               \/ UnlockUser(r) \/ DeleteUser(r)
               \/ AdminResetPassword(r) \/ CustomerUpdatePassword(r)
    BY <1>2, <2>9 DEF Serve, tables, RegisterLookup, RegisterOpenAccounts,
       LoginLookup, AuditAccountLocked, GenerateTokens, RefreshLookup,
       RefreshUser, RefreshRevoke, LogoutValidate, LogoutBlacklist,
       LogoutRevokeAll, RequireAuth, FindTarget, CreateAuditLog
  <2> QED  BY <2>3, <2>4, <2>5, <2>6, <2>7, <2>8, <2>9
<1>3. ASSUME NEW r \in Requests, Start(r) \/ StatementFails(r) PROVE UNCHANGED users
  BY <1>3 DEF Start, StatementFails, tables
<1>4. CASE Expire
  BY <1>1, <1>4 DEF Expire, tables
<1> QED  BY <1>1, <1>2, <1>3, <1>4 DEF Next, Finished, vars, tables

-----------------------------------------------------------------------------
(* The other tables *)

LEMMA OwnersExist ==
  ASSUME TypeInv, NEW r \in Requests
  PROVE  Owner(r) \in Emails /\ T(r) \in Sessions /\ T(r) \in Tokens /\ r \in Tokens
BY KindAt DEF Owner, TypeInv, TablesInv, Tokens

LEMMA TablesInvariant == TypeInv /\ LockInv /\ [Next]_vars => TablesInv'
<1> SUFFICES ASSUME TypeInv, LockInv, [Next]_vars PROVE TablesInv'
  OBVIOUS
<1>1. users' \in [Emails -> UserRow]
  BY RowsInvariant DEF RowsOK
<1>2. TablesInv
  BY DEF TypeInv
<1>3. CASE UNCHANGED <<holder, refresh, blacklist, expired, seen, swallowed, cut>>
  BY <1>1, <1>2, <1>3 DEF TablesInv
<1>4. ASSUME NEW r \in Requests, Serve(r) PROVE TablesInv'
  <2>0. Owner(r) \in Emails /\ T(r) \in Tokens /\ r \in Tokens /\ r \notin Sessions
    BY OwnersExist, ConstantsAssumption
  <2>1. CASE LoginLookup(r)
    <3>1. E(r) \in Emails
      BY KindAt DEF TypeInv
    <3> QED  BY <1>1, <1>2, <2>1, <3>1 DEF LoginLookup, TablesInv, tables, history
  <2>2. CASE GenerateTokens(r)
    BY <1>1, <1>2, <2>0, <2>2 DEF GenerateTokens, IssueTo, TablesInv, history
  <2>3. CASE RefreshRevoke(r)
    BY <1>1, <1>2, <2>0, <2>3 DEF RefreshRevoke, Revoke, TablesInv, history
  <2>4. CASE LogoutBlacklist(r)
    BY <1>1, <1>2, <2>0, <2>4 DEF LogoutBlacklist, BlacklistToken, TablesInv, history
  <2>5. CASE LogoutRevokeAll(r)
    <3>1. refresh' \in [Tokens -> {"none", "live", "revoked"}]
      BY <1>2, <2>5 DEF LogoutRevokeAll, RevokeAllForUser, TablesInv
    <3>2. cut' \in [Requests -> SUBSET Tokens]
      BY <1>2, <2>5 DEF LogoutRevokeAll, Issued, TablesInv
    <3> QED  BY <1>1, <1>2, <2>5, <3>1, <3>2 DEF LogoutRevokeAll, TablesInv
  <2>6. CASE ~ \/ LoginLookup(r) \/ GenerateTokens(r) \/ RefreshRevoke(r)
               \/ LogoutBlacklist(r) \/ LogoutRevokeAll(r)
    BY <1>3, <1>4, <2>6 DEF Serve, tables, history, RegisterLookup, RegisterCreate,
       RegisterOpenAccounts, LoginFailed, LoginSucceeded, AuditAccountLocked,
       RefreshLookup, RefreshUser, LogoutValidate, RequireAuth, FindTarget,
       UnlockUser, DeleteUser, AdminResetPassword, CustomerUpdatePassword,
       UpdatePasswordHash, CreateAuditLog
  <2> QED  BY <2>1, <2>2, <2>3, <2>4, <2>5, <2>6
<1>5. ASSUME NEW r \in Requests, StatementFails(r) PROVE TablesInv'
  <2>1. swallowed' \subseteq Requests
    BY <1>2, <1>5 DEF StatementFails, TablesInv
  <2> QED  BY <1>1, <1>2, <1>5, <2>1 DEF StatementFails, tables, TablesInv
<1>6. ASSUME NEW r \in Requests, Start(r) PROVE TablesInv'
  BY <1>3, <1>6 DEF Start, tables, history
<1>7. CASE Expire
  BY <1>1, <1>2, <1>7 DEF Expire, tables, history, TablesInv
<1>8. CASE UNCHANGED vars
  BY <1>3, <1>8 DEF vars, tables, history
<1> QED  BY <1>4, <1>5, <1>6, <1>7, <1>8 DEF Next, Finished

-----------------------------------------------------------------------------
(* A login that is about to write back a row read it unlocked. *)

Saves == {"saveSuccess", "saveFailure"}

LEMMA OnlyLookupSaves ==
  ASSUME TypeInv, NEW r \in Requests, Start(r) \/ Serve(r) \/ StatementFails(r),
         ControlInv', ~LoginLookup(r)
  PROVE  pc'[r] \notin Saves
<1> USE DEF Saves
<1>1. CASE Start(r)
  BY <1>1, ConstantsAssumption
     DEF Start, Goto, FirstStatement, Call, Kinds, TypeInv, ControlInv
<1>2. CASE Serve(r) \/ StatementFails(r)
  <2>1. UNCHANGED call
    BY <1>2, ControlStep DEF TypeInv
  <2>2. CASE call[r].kind = "login"
    <3>1. pc[r] \in {"findLogin", "saveSuccess", "saveFailure", "auditLocked",
                    "issue", "audit", "idle", "done"}
      BY <2>2 DEF TypeInv, ControlInv, Places, Statements
    <3>2. CASE StatementFails(r)
      <4> USE <3>2 DEF StatementFails, Ignored, Return, Answer, Goto
      <4>0. /\ DOMAIN pc = Requests
            /\ pc[r] \in {"findLogin", "saveSuccess", "saveFailure", "auditLocked",
                         "issue", "audit"}
        BY <3>1 DEF TypeInv, ControlInv
      <4>1. CASE pc[r] \in DOMAIN Ignored
        <5>1. pc'[r] = Ignored[pc[r]]
          BY <4>0, <4>1
        <5> QED  BY <4>0, <4>1, <5>1
      <4>2. CASE pc[r] = "saveFailure"
        BY <4>0, <4>2 DEF AfterFailure
      <4>3. CASE pc[r] \in {"findLogin", "issue"}
        BY <4>0, <4>3
      <4> QED  BY <4>0, <4>1, <4>2, <4>3
    <3>3. CASE Serve(r)
      BY <3>1, <3>3 DEF Serve, Answer, Goto, Refuse, Return, TypeInv, ControlInv,
         RegisterLookup, RegisterCreate, RegisterOpenAccounts, LoginFailed,
         LoginSucceeded, AuditAccountLocked, GenerateTokens, IssueTo, AfterFailure,
         RefreshLookup, RefreshUser, RefreshRevoke, LogoutValidate, LogoutBlacklist,
         LogoutRevokeAll, RequireAuth, FindTarget, UnlockUser, DeleteUser,
         AdminResetPassword, CustomerUpdatePassword, CreateAuditLog
    <3> QED  BY <1>2, <3>2, <3>3
  <2>3. CASE call[r].kind # "login"
    <3>1. pc'[r] \in Places(call[r].kind) /\ call[r].kind \in Kinds
      BY <2>1, KindAt DEF TypeInv, ControlInv
    <3> QED  BY <2>3, <3>1 DEF Places, Statements, Kinds
  <2> QED  BY <2>2, <2>3
<1> QED  BY <1>1, <1>2

LEMMA LockInvariant == TypeInv /\ LockInv /\ [Next]_vars => LockInv'
<1> SUFFICES ASSUME TypeInv, LockInv, [Next]_vars PROVE LockInv'
  OBVIOUS
<1>1. LockMatchesCounter' /\ ControlInv'
  BY RowsInvariant, ControlInvariant DEF RowsOK
<1>2. ASSUME NEW r \in Requests, Start(r) \/ Serve(r) \/ StatementFails(r)
      PROVE  LockInv'
  <2>1. \A q \in Requests \ {r} : pc'[q] = pc[q]
    BY <1>2, ControlStep DEF TypeInv, Start, Goto, ControlInv
  <2>2. CASE LoginLookup(r)
    <3>1. seen' = [seen EXCEPT ![r] = users[E(r)]] /\ E(r) \in Emails
      BY <2>2, KindAt DEF LoginLookup, TypeInv
    <3>2. Consistent(users[E(r)])
      BY <3>1 DEF LockInv, LockMatchesCounter, Consistent
    <3>3. pc'[r] \in Saves => ~users[E(r)].locked
      BY <2>2 DEF LoginLookup, Refuse, Answer, Goto, TypeInv, ControlInv, Saves
    <3> QED  BY <1>1, <2>1, <3>1, <3>2, <3>3
             DEF LockInv, Consistent, TypeInv, TablesInv, Saves
  <2>3. CASE ~LoginLookup(r)
    <3>1. UNCHANGED seen
      BY <1>2, <2>3 DEF Start, StatementFails, Serve, tables, history,
         RegisterLookup, RegisterCreate, RegisterOpenAccounts, LoginFailed,
         LoginSucceeded, AuditAccountLocked, GenerateTokens, RefreshLookup,
         RefreshUser, RefreshRevoke, LogoutValidate, LogoutBlacklist,
         LogoutRevokeAll, RequireAuth, FindTarget, UnlockUser, DeleteUser,
         AdminResetPassword, CustomerUpdatePassword, UpdatePasswordHash,
         CreateAuditLog
    <3>2. pc'[r] \notin Saves
      BY <1>1, <1>2, <2>3, OnlyLookupSaves
    <3> QED  BY <1>1, <2>1, <3>1, <3>2 DEF LockInv, Consistent, Saves
  <2> QED  BY <2>2, <2>3
<1>3. CASE UNCHANGED <<pc, seen>>
  BY <1>1, <1>3 DEF LockInv, Consistent
<1> QED  BY <1>2, <1>3 DEF Next, Expire, Finished, vars

LEMMA LockInit == Init => LockInv
<1> SUFFICES ASSUME Init PROVE LockInv
  OBVIOUS
<1>1. Consistent(NewUser(Temporary))
  BY RowsMade, ConstantsAssumption
<1> QED  BY <1>1, ConstantsAssumption DEF Init, LockInv, LockMatchesCounter, Consistent

-----------------------------------------------------------------------------
(* What a step may do to the row of a user *)

Absent(e) == users[e].state = "absent" => ~users[e].locked

\* Inserted; changed but for the lock; or written by an unlock or a login.
LEMMA RowsChange ==
  ASSUME TypeInv, LockInv, NEW r \in Requests, Serve(r),
         NEW e \in Emails, users'[e] # users[e]
  PROVE  \/ /\ users[e].state = "absent"
            /\ users'[e].state = "live" /\ ~users'[e].locked
         \/ /\ users[e].state = "live" /\ users'[e].state # "absent"
            /\ users'[e].locked = users[e].locked
         \/ /\ users[e].state = "live" /\ users'[e].state = "live"
            /\ E(r) = e /\ pc'[r] # pc[r]
            /\ \/ pc[r] = "unlock"
               \/ pc[r] \in Saves /\ ~seen[r].locked
<1>1. /\ E(r) \in Emails /\ Owner(r) \in Emails
      /\ users \in [Emails -> UserRow] /\ DOMAIN pc = Requests
      /\ pc[r] \in Saves => ~seen[r].locked
  BY KindAt, OwnersExist DEF TypeInv, ControlInv, TablesInv, LockInv, Saves
<1>2. CASE RegisterCreate(r)
  BY <1>1, <1>2 DEF RegisterCreate, InsertUser, EmailIsFree, NewUser
<1>3. CASE LoginFailed(r)
  BY <1>1, <1>3 DEF LoginFailed, UpdateFailedLoginAttempts, UpdateUser, Live, Saves,
                    Answer, AfterFailure, UserRow
<1>4. CASE LoginSucceeded(r)
  BY <1>1, <1>4 DEF LoginSucceeded, UpdateFailedLoginAttempts, UpdateUser, Live,
                    Saves, Goto, UserRow
<1>5. CASE UnlockUser(r)
  BY <1>1, <1>5 DEF UnlockUser, ResetFailedLoginAttempts, UpdateUser, Live, Answer,
                    UserRow
<1>6. CASE DeleteUser(r)
  BY <1>1, <1>6 DEF DeleteUser, SoftDelete, Live, UserRow
<1>7. CASE AdminResetPassword(r) \/ CustomerUpdatePassword(r)
  <2>1. PICK p : UpdateUser(Target(r), [users[Target(r)] EXCEPT !.password = p])
    BY <1>7 DEF AdminResetPassword, CustomerUpdatePassword, UpdatePasswordHash
  <2>2. Target(r) \in Emails
    BY <1>1 DEF Target
  <2> QED  BY <1>1, <2>1, <2>2 DEF UpdateUser, Live, UserRow
<1>8. CASE ~ \/ RegisterCreate(r) \/ LoginFailed(r) \/ LoginSucceeded(r)
             \/ UnlockUser(r) \/ DeleteUser(r)
             \/ AdminResetPassword(r) \/ CustomerUpdatePassword(r)
  BY <1>8 DEF Serve, tables, RegisterLookup, RegisterOpenAccounts,
     LoginLookup, AuditAccountLocked, GenerateTokens, RefreshLookup,
     RefreshUser, RefreshRevoke, LogoutValidate, LogoutBlacklist,
     LogoutRevokeAll, RequireAuth, FindTarget, CreateAuditLog
<1> QED  BY <1>2, <1>3, <1>4, <1>5, <1>6, <1>7, <1>8

\* The other steps write no row.
LEMMA RowsKept ==
  ASSUME [Next]_vars, NEW e \in Emails, users'[e] # users[e]
  PROVE  \E r \in Requests : Serve(r)
BY DEF Next, Start, StatementFails, Expire, Finished, vars, tables

AbsentInv == \A e \in Emails : Absent(e)

LEMMA AbsentInvariant == TypeInv /\ LockInv /\ AbsentInv /\ [Next]_vars => AbsentInv'
<1> SUFFICES ASSUME TypeInv, LockInv, AbsentInv, [Next]_vars, NEW e \in Emails
             PROVE  Absent(e)'
  BY DEF AbsentInv
<1>1. CASE users'[e] = users[e]
  BY <1>1 DEF AbsentInv, Absent
<1>2. CASE users'[e] # users[e]
  <2>1. PICK r \in Requests : Serve(r)
    BY <1>2, RowsKept
  <2>2. users'[e].state \in {"live"} \/ users'[e].state # "absent"
    BY <1>2, <2>1, RowsChange
  <2> QED  BY <2>2 DEF Absent
<1> QED  BY <1>1, <1>2

LEMMA LiftStep ==
  ASSUME TypeInv, LockInv, AbsentInv, [Next]_vars,
         NEW e \in Emails, users[e].locked, ~users'[e].locked
  PROVE  \E r \in Requests : /\ E(r) = e
                             /\ pc'[r] # pc[r]
                             /\ \/ pc[r] = "unlock"
                                \/ pc[r] \in {"saveSuccess", "saveFailure"}
                                   /\ ~seen[r].locked
<1>1. users'[e] # users[e]
  OBVIOUS
<1>2. PICK r \in Requests : Serve(r)
  BY <1>1, RowsKept
<1>3. users[e].state # "absent"
  BY DEF AbsentInv, Absent
<1> QED  BY <1>1, <1>2, <1>3, RowsChange DEF Saves

-----------------------------------------------------------------------------
THEOREM SessionsInvariant == Spec => [](TypeInv /\ LockInv /\ AbsentInv)
<1>1. Init => TypeInv /\ LockInv /\ AbsentInv
  BY TypeInit, LockInit, ConstantsAssumption DEF Init, AbsentInv, Absent
<1>2. TypeInv /\ LockInv /\ AbsentInv /\ [Next]_vars => (TypeInv /\ LockInv /\ AbsentInv)'
  BY ControlInvariant, TablesInvariant, LockInvariant, AbsentInvariant DEF TypeInv
<1> QED  BY <1>1, <1>2, PTL DEF Spec

(* Type correctness of users, tokens and requests. *)
THEOREM SessionsTypeCorrect == Spec => []TypeOK
<1>1. TypeInv => TypeOK
  BY DEF TypeInv, ControlInv, TablesInv, TypeOK, Replies
<1> QED  BY <1>1, SessionsInvariant, PTL

(* Whatever old copies logins write back, in whatever order and with        *)
(* unlocks between them, a user is locked exactly at the full count.       *)
THEOREM LockIsTheCounter == Spec => []LockMatchesCounter
<1>1. LockInv => LockMatchesCounter
  BY DEF LockInv
<1> QED  BY <1>1, SessionsInvariant, PTL

(* A lock is lifted by UnlockUser or by a login that read the row before   *)
(* it was locked, never by one that found the user locked.                 *)
THEOREM LocksAreLiftedOnlyBy == Spec => LockLiftedOnlyBy
<1>1. TypeInv /\ LockInv /\ AbsentInv /\ [Next]_vars =>
        [\A e \in Emails : users[e].locked /\ ~users'[e].locked =>
           \E r \in Requests : /\ E(r) = e
                               /\ pc'[r] # pc[r]
                               /\ \/ pc[r] = "unlock"
                                  \/ pc[r] \in {"saveSuccess", "saveFailure"}
                                     /\ ~seen[r].locked]_vars
  BY LiftStep
<1> QED  BY <1>1, SessionsInvariant, PTL DEF Spec, LockLiftedOnlyBy

-----------------------------------------------------------------------------
(* Sign-outs *)

(* A logout has cut only after the blacklist was written or an error was   *)
(* swallowed; the pairs it found issued have holders, and those of its     *)
(* user stay revoked; a request that issued a pair is past its statements. *)
OutInv ==
  /\ \A r \in Requests :
       /\ pc[r] = "revokeAll" /\ r \notin swallowed => T(r) \in blacklist
       /\ holder[r] # Nobody => pc[r] \in {"audit", "done"}
       /\ cut[r] # {} =>
            /\ pc[r] \in {"audit", "done"} /\ call[r].kind = "logout"
            /\ r \notin swallowed => T(r) \in blacklist
       /\ \A t \in cut[r] :
            /\ holder[t] # Nobody
            /\ holder[t] = Owner(r) => refresh[t] = "revoked"
  /\ \A t \in Tokens : holder[t] # Nobody => refresh[t] # "none"

\* What a step of request r may do to the tokens.
LEMMA TokensChange ==
  ASSUME TypeInv, OutInv, NEW r \in Requests, Start(r) \/ Serve(r) \/ StatementFails(r)
  PROVE  /\ blacklist \subseteq blacklist' /\ swallowed \subseteq swallowed'
         /\ \A t \in Tokens \ {r} : holder'[t] = holder[t]
         /\ holder'[r] # holder[r] => pc'[r] = "audit"
         /\ \A t \in Tokens : holder[t] # Nobody =>
              /\ holder'[t] = holder[t]
              /\ refresh[t] = "revoked" => refresh'[t] = "revoked"
         /\ \A t \in Tokens : holder'[t] # Nobody => refresh'[t] # "none"
         /\ ~LogoutRevokeAll(r) => UNCHANGED cut
<1>1. /\ r \in Tokens /\ T(r) \in Tokens
      /\ holder \in [Tokens -> Emails \union {Nobody}]
      /\ refresh \in [Tokens -> {"none", "live", "revoked"}]
      /\ DOMAIN pc = Requests
      /\ holder[r] # Nobody => pc[r] \in {"audit", "done"}
      /\ \A t \in Tokens : holder[t] # Nobody => refresh[t] # "none"
  BY OwnersExist DEF TypeInv, ControlInv, TablesInv, OutInv
<1>2. CASE GenerateTokens(r)
  BY <1>1, <1>2 DEF GenerateTokens, IssueTo, Answer, history
<1>3. CASE RefreshRevoke(r)
  BY <1>1, <1>3 DEF RefreshRevoke, Revoke, history
<1>4. CASE LogoutBlacklist(r)
  BY <1>1, <1>4 DEF LogoutBlacklist, BlacklistToken, history
<1>5. CASE LogoutRevokeAll(r)
  BY <1>1, <1>5 DEF LogoutRevokeAll, RevokeAllForUser
<1>6. CASE StatementFails(r)
  <2>1. swallowed \subseteq swallowed'
    BY <1>6 DEF StatementFails
  <2> QED  BY <1>1, <1>6, <2>1 DEF StatementFails, tables
<1>7. CASE /\ Start(r) \/ Serve(r)
           /\ ~ \/ GenerateTokens(r) \/ RefreshRevoke(r) \/ LogoutBlacklist(r)
                \/ LogoutRevokeAll(r)
  <2>1. UNCHANGED <<holder, refresh, blacklist, swallowed, cut>>
    BY <1>7 DEF Start, Serve, tables, history, RegisterLookup, RegisterCreate,
       RegisterOpenAccounts, LoginLookup, LoginFailed, LoginSucceeded,
       AuditAccountLocked, RefreshLookup, RefreshUser, LogoutValidate, RequireAuth,
       FindTarget, UnlockUser, DeleteUser, AdminResetPassword,
       CustomerUpdatePassword, UpdatePasswordHash, CreateAuditLog
  <2> QED  BY <1>1, <2>1
<1> QED  BY <1>2, <1>3, <1>4, <1>5, <1>6, <1>7

\* A request past its statements stays there.
LEMMA PastStaysPast ==
  ASSUME TypeInv, NEW r \in Requests, Start(r) \/ Serve(r) \/ StatementFails(r),
         pc[r] \in {"audit", "done"}
  PROVE  pc'[r] \in {"audit", "done"} /\ UNCHANGED call
<1>0. DOMAIN pc = Requests
  BY DEF TypeInv, ControlInv
<1>1. ~Start(r)
  BY DEF Start
<1>2. UNCHANGED call
  BY <1>1, ControlStep DEF TypeInv
<1>3. CASE Serve(r)
  <2>1. CreateAuditLog(r)
    BY <1>3 DEF Serve, RegisterLookup, RegisterCreate, RegisterOpenAccounts,
       LoginLookup, LoginFailed, LoginSucceeded, AuditAccountLocked, GenerateTokens,
       RefreshLookup, RefreshUser, RefreshRevoke, LogoutValidate, LogoutBlacklist,
       LogoutRevokeAll, RequireAuth, FindTarget, UnlockUser, DeleteUser,
       AdminResetPassword, CustomerUpdatePassword
  <2> QED  BY <1>0, <1>2, <2>1 DEF CreateAuditLog, Goto
<1>4. CASE StatementFails(r)
  <2>1. pc[r] = "audit"
    BY <1>4 DEF StatementFails
  <2>2. "audit" \in DOMAIN Ignored /\ Ignored["audit"] = "done"
    BY DEF Ignored
  <2>3. Goto(r, "done")
    BY <1>4, <2>1, <2>2 DEF StatementFails
  <2> QED  BY <1>0, <1>2, <2>3 DEF Goto
<1> QED  BY <1>1, <1>3, <1>4

\* Only a logout that wrote the blacklist, or failed to, comes to revokeAll.
LEMMA OnlyBlacklistLeadsToRevokeAll ==
  ASSUME TypeInv, ControlInv', NEW r \in Requests,
         Start(r) \/ Serve(r) \/ StatementFails(r), pc'[r] = "revokeAll"
  PROVE  UNCHANGED call /\ (T(r) \in blacklist' \/ r \in swallowed')
<1>0. DOMAIN pc = Requests
  BY DEF TypeInv, ControlInv
<1>1. ~Start(r)
  BY <1>0, ConstantsAssumption DEF Start, Goto, FirstStatement, Call, Kinds
<1>2. UNCHANGED call
  BY <1>1, ControlStep DEF TypeInv
<1>3. /\ call[r].kind = "logout"
      /\ pc[r] \in {"validate", "blacklist", "revokeAll", "idle", "audit", "done"}
  <2>1. call'[r].kind = "logout"
    <3>1. pc'[r] \in Places(call'[r].kind) /\ call'[r].kind \in Kinds
      BY DEF ControlInv, Call
    <3> QED  BY <3>1 DEF Places, Statements, Kinds
  <2> QED  BY <1>2, <2>1 DEF TypeInv, ControlInv, Places, Statements
<1>4. CASE Serve(r)
  <2>1. LogoutValidate(r) \/ LogoutBlacklist(r) \/ LogoutRevokeAll(r) \/ CreateAuditLog(r)
    BY <1>3, <1>4 DEF Serve, RegisterLookup, RegisterCreate, RegisterOpenAccounts,
       LoginLookup, LoginFailed, LoginSucceeded, AuditAccountLocked, GenerateTokens,
       RefreshLookup, RefreshUser, RefreshRevoke, RequireAuth, FindTarget,
       UnlockUser, DeleteUser, AdminResetPassword, CustomerUpdatePassword
  <2>2. LogoutBlacklist(r)
    BY <1>0, <2>1 DEF LogoutValidate, LogoutRevokeAll, CreateAuditLog, Goto,
                      Answer, Return
  <2> QED  BY <1>2, <2>2 DEF LogoutBlacklist, BlacklistToken
<1>5. CASE StatementFails(r)
  <2>1. pc[r] \in {"blacklist", "revokeAll", "audit"}
    BY <1>3, <1>5 DEF StatementFails
  <2>2. pc[r] # "audit"
    BY PastStaysPast
  <2> QED  BY <1>2, <1>5, <2>1, <2>2 DEF StatementFails, Ignored
<1> QED  BY <1>1, <1>4, <1>5

LEMMA OutStep ==
  ASSUME TypeInv, OutInv, ControlInv', TablesInv',
         NEW r \in Requests, Start(r) \/ Serve(r) \/ StatementFails(r)
  PROVE  OutInv'
<1> DEFINE
      Out(q) ==
        /\ pc[q] = "revokeAll" /\ q \notin swallowed => T(q) \in blacklist
        /\ holder[q] # Nobody => pc[q] \in {"audit", "done"}
        /\ cut[q] # {} =>
             /\ pc[q] \in {"audit", "done"} /\ call[q].kind = "logout"
             /\ q \notin swallowed => T(q) \in blacklist
        /\ \A t \in cut[q] :
             /\ holder[t] # Nobody
             /\ holder[t] = Owner(q) => refresh[t] = "revoked"
<1>0. \A t \in Tokens : holder'[t] # Nobody => refresh'[t] # "none"
  BY TokensChange
<1>1. ASSUME NEW q \in Requests \ {r} PROVE Out(q)'
  <2>1. /\ pc'[q] = pc[q] /\ call'[q] = call[q]
    BY ControlStep DEF TypeInv, ControlInv, Start, Goto
  <2>2. cut'[q] = cut[q] /\ cut[q] \subseteq Tokens
    BY TokensChange DEF LogoutRevokeAll, TypeInv, TablesInv
  <2>3. T(q)' = T(q) /\ Owner(q)' = Owner(q)
    <3>1. T(q)' = T(q) /\ E(q)' = E(q)
      BY <2>1 DEF T, E
    <3>2. T(q) \in Tokens \ {r}
      BY KindAt, OwnersExist, ConstantsAssumption DEF TypeInv
    <3> QED  BY <2>1, <3>1, <3>2, TokensChange DEF Owner
  <2>4. q \in Tokens /\ holder'[q] = holder[q]
    BY TokensChange, OwnersExist
  <2>5. q \notin swallowed' => q \notin swallowed
    BY TokensChange
  <2>6. T(q) \in blacklist => T(q) \in blacklist'
    BY TokensChange
  <2>7. \A t \in cut[q] : /\ holder'[t] = holder[t]
                          /\ refresh[t] = "revoked" => refresh'[t] = "revoked"
    BY <2>2, TokensChange DEF OutInv
  <2> QED  BY <2>1, <2>2, <2>3, <2>4, <2>5, <2>6, <2>7 DEF OutInv
<1>2. Out(r)'
  <2>1. pc'[r] = "revokeAll" /\ r \notin swallowed' => T(r)' \in blacklist'
    BY OnlyBlacklistLeadsToRevokeAll DEF T
  <2>2. holder'[r] # Nobody => pc'[r] \in {"audit", "done"}
    BY TokensChange, PastStaysPast DEF OutInv
  <2>3. CASE LogoutRevokeAll(r)
    <3>1. /\ cut'[r] = Issued /\ UNCHANGED <<call, holder, blacklist, swallowed>>
          /\ pc[r] = "revokeAll" /\ pc'[r] = "audit"
          /\ refresh' = RevokeAllForUser(Owner(r))
      BY <2>3 DEF LogoutRevokeAll, Answer, TypeInv, ControlInv, TablesInv
    <3>2. call[r].kind = "logout"
      BY <3>1, KindAt DEF TypeInv
    <3>3. T(r)' = T(r) /\ Owner(r)' = Owner(r)
      BY <3>1 DEF T, E, Owner
    <3>4. \A t \in Issued : /\ holder[t] # Nobody
                            /\ holder[t] = Owner(r) => refresh'[t] = "revoked"
      BY <3>1 DEF RevokeAllForUser, OutInv, Issued, TypeInv, TablesInv
    <3> QED  BY <2>1, <2>2, <3>1, <3>2, <3>3, <3>4 DEF OutInv
  <2>4. CASE ~LogoutRevokeAll(r) /\ cut[r] = {}
    <3>1. cut'[r] = {}
      BY <2>4, TokensChange
    <3> QED  BY <2>1, <2>2, <3>1
  <2>5. CASE ~LogoutRevokeAll(r) /\ cut[r] # {}
    <3>1. /\ cut'[r] = cut[r] /\ cut[r] \subseteq Tokens
      BY <2>5, TokensChange DEF TypeInv, TablesInv
    <3>2. pc'[r] \in {"audit", "done"} /\ UNCHANGED call /\ call[r].kind = "logout"
      BY <2>5, PastStaysPast DEF OutInv
    <3>3. T(r)' = T(r) /\ Owner(r)' = Owner(r)
      <4>1. T(r) \in Tokens \ {r}
        BY KindAt, OwnersExist, ConstantsAssumption DEF TypeInv
      <4> QED  BY <3>2, <4>1, TokensChange DEF T, E, Owner
    <3>4. r \notin swallowed' => T(r) \in blacklist'
      BY <2>5, TokensChange DEF OutInv
    <3>5. \A t \in cut[r] : /\ holder[t] # Nobody /\ holder'[t] = holder[t]
                            /\ refresh[t] = "revoked" => refresh'[t] = "revoked"
      BY <3>1, TokensChange DEF OutInv
    <3> QED  BY <2>1, <2>2, <3>1, <3>2, <3>3, <3>4, <3>5 DEF OutInv
  <2> QED  BY <2>3, <2>4, <2>5
<1> QED  BY <1>0, <1>1, <1>2 DEF OutInv

LEMMA OutInvariant == TypeInv /\ LockInv /\ OutInv /\ [Next]_vars => OutInv'
<1> SUFFICES ASSUME TypeInv, LockInv, OutInv, [Next]_vars PROVE OutInv'
  OBVIOUS
<1>1. ControlInv' /\ TablesInv'
  BY ControlInvariant, TablesInvariant
<1>2. CASE UNCHANGED <<tables, pc, call, history>>
  BY <1>2 DEF OutInv, tables, history, T, E, Owner
<1> QED  BY <1>1, <1>2, OutStep DEF Next, Expire, Finished, vars

LEMMA OutInit == Init => OutInv
BY ConstantsAssumption DEF Init, OutInv, Tokens

(* A logout that met no error and reached RevokeAllForUser leaves its      *)
(* access token blacklisted and every refresh token its user then held     *)
(* revoked, whatever else runs and however long.                           *)
THEOREM SignedOutStaysOut == Spec => []SignedOutIsOut
<1>1. Init => OutInv
  BY OutInit
<1>2. OutInv => SignedOutIsOut
  BY DEF OutInv, SignedOutIsOut
<1> QED  BY <1>1, <1>2, OutInvariant, SessionsInvariant, PTL DEF Spec

-----------------------------------------------------------------------------
(* What clients and auditors are told is what happened *)

Past == {"audit", "done"}

(* What is known of a request: it has a pair of tokens exactly when it is  *)
(* a login or a refresh that answers ok; the route of an admin is served   *)
(* to admins; a registration that answers ok has its row; a guess is one.  *)
Told(r) ==
  /\ pc[r] \notin Past \union {"auditLocked"} => reply[r] = "none"
  /\ holder[r] # Nobody <=> refresh[r] # "none"
  /\ holder[r] # Nobody =>
       /\ call[r].kind \in {"login", "refresh"} /\ reply[r] = "ok"
       /\ holder[r] = Owner(r)
  /\ call[r].kind \in {"login", "refresh"} /\ reply[r] = "ok" => holder[r] # Nobody
  /\ /\ pc[r] \in {"findTarget", "unlock", "delete", "audit"}
     /\ call[r].kind \in {"unlock", "delete"}
     => Owner(r) \in Admins
  /\ /\ call[r].kind = "register"
     /\ pc[r] = "openAccounts" \/ (pc[r] = "audit" /\ reply[r] = "ok")
     => users[E(r)].state # "absent"
  /\ pc[r] \in {"saveFailure", "auditLocked"} => seen[r].password # call[r].password

(* An audit row says what is so and, its request being past its            *)
(* statements, stays so.                                                   *)
Witnessed(row) ==
  LET r == row[2] IN
  /\ r \in Requests /\ pc[r] \in Past /\ row[3] \in Emails
  /\ row[1] \in {"login", "refresh"} => holder[r] = row[3]
  /\ row[1] \in {"failed_login", "token_refresh_failed"} => holder[r] = Nobody
  /\ row[1] = "account_locked" => seen[r].password # call[r].password
  /\ row[1] \in {"unlock", "delete"} =>
       call[r].kind \in {"unlock", "delete"} /\ Owner(r) \in Admins
  /\ row[1] \in {"register", "account.auto_created"} => users[row[3]].state # "absent"

TellInv == /\ \A r \in Requests : Told(r)
           /\ \A row \in audit : Witnessed(row)

-----------------------------------------------------------------------------
(* A request past its statements only writes its audit row. *)
LEMMA PastOnlyAudits ==
  ASSUME TypeInv, NEW r \in Requests, Start(r) \/ Serve(r) \/ StatementFails(r),
         pc[r] \in Past
  PROVE  /\ UNCHANGED <<users, holder, refresh, call, reply, seen>>
         /\ pc'[r] = "done"
<1>0. DOMAIN pc = Requests
  BY DEF TypeInv, ControlInv
<1>1. ~Start(r)
  BY DEF Start, Past
<1>3. CASE Serve(r)
  <2>1. CreateAuditLog(r)
    BY <1>3 DEF Past, Serve, RegisterLookup, RegisterCreate, RegisterOpenAccounts,
       LoginLookup, LoginFailed, LoginSucceeded, AuditAccountLocked, GenerateTokens,
       RefreshLookup, RefreshUser, RefreshRevoke, LogoutValidate, LogoutBlacklist,
       LogoutRevokeAll, RequireAuth, FindTarget, UnlockUser, DeleteUser,
       AdminResetPassword, CustomerUpdatePassword
  <2> QED  BY <1>0, <2>1 DEF CreateAuditLog, Goto
<1>4. CASE StatementFails(r)
  <2>1. pc[r] = "audit"
    BY <1>4 DEF StatementFails, Past
  <2>2. "audit" \in DOMAIN Ignored /\ Ignored["audit"] = "done"
    BY DEF Ignored
  <2>3. Goto(r, "done")
    BY <1>4, <2>1, <2>2 DEF StatementFails
  <2> QED  BY <1>0, <1>4, <2>3 DEF StatementFails, Goto, tables
<1> QED  BY <1>1, <1>3, <1>4

\* A step of q leaves what is known of another request alone.
LEMMA OthersKeep ==
  ASSUME TypeInv, LockInv, OutInv, NEW q \in Requests,
         Start(q) \/ Serve(q) \/ StatementFails(q)
  PROVE  /\ \A r \in Requests \ {q} :
              /\ pc'[r] = pc[r] /\ call'[r] = call[r] /\ reply'[r] = reply[r]
              /\ seen'[r] = seen[r] /\ holder'[r] = holder[r]
              /\ refresh'[r] = "none" <=> refresh[r] = "none"
         /\ \A e \in Emails : users[e].state # "absent" => users'[e].state # "absent"
         /\ \A s \in Sessions : holder'[s] = holder[s]
<1>1. /\ \A r \in Requests : r \in Tokens /\ r \notin Sessions
      /\ Sessions \subseteq Tokens
      /\ T(q) \in Sessions
      /\ refresh[T(q)] # "none"
      /\ refresh \in [Tokens -> {"none", "live", "revoked"}]
  BY KindAt, ConstantsAssumption DEF Tokens, TypeInv, TablesInv, OutInv
<1>2. ASSUME NEW r \in Requests \ {q}
      PROVE  pc'[r] = pc[r] /\ call'[r] = call[r]
  BY ControlStep DEF TypeInv, ControlInv, Start, Goto
<1>3. ASSUME NEW r \in Requests \ {q} PROVE holder'[r] = holder[r]
  BY <1>1, TokensChange
<1>4. ASSUME NEW s \in Sessions PROVE holder'[s] = holder[s]
  BY <1>1, TokensChange
<1>5. ASSUME NEW r \in Requests \ {q} PROVE seen'[r] = seen[r]
  BY DEF TypeInv, TablesInv, Start, StatementFails, Serve, tables, history,
     RegisterLookup, RegisterCreate, RegisterOpenAccounts, LoginLookup, LoginFailed,
     LoginSucceeded, AuditAccountLocked, GenerateTokens, RefreshLookup,
     RefreshUser, RefreshRevoke, LogoutValidate, LogoutBlacklist,
     LogoutRevokeAll, RequireAuth, FindTarget, UnlockUser, DeleteUser,
     AdminResetPassword, CustomerUpdatePassword, UpdatePasswordHash,
     CreateAuditLog
<1>6. ASSUME NEW r \in Requests \ {q}
      PROVE  refresh'[r] = "none" <=> refresh[r] = "none"
  <2>1. CASE GenerateTokens(q)
    BY <1>1, <2>1 DEF GenerateTokens, IssueTo
  <2>2. CASE RefreshRevoke(q)
    BY <1>1, <2>2 DEF RefreshRevoke, Revoke
  <2>3. CASE LogoutRevokeAll(q)
    BY <1>1, <2>3 DEF LogoutRevokeAll, RevokeAllForUser
  <2>4. CASE ~(GenerateTokens(q) \/ RefreshRevoke(q) \/ LogoutRevokeAll(q))
    <3>1. UNCHANGED refresh
      BY <2>4 DEF Start, StatementFails, Serve, tables, RegisterLookup, RegisterCreate,
         RegisterOpenAccounts, LoginLookup, LoginFailed, LoginSucceeded,
         AuditAccountLocked, RefreshLookup, RefreshUser, LogoutValidate,
         LogoutBlacklist, RequireAuth, FindTarget, UnlockUser, DeleteUser,
         AdminResetPassword, CustomerUpdatePassword, UpdatePasswordHash,
         CreateAuditLog
    <3> QED  BY <3>1
  <2> QED  BY <2>1, <2>2, <2>3, <2>4
<1>7. ASSUME NEW e \in Emails, users[e].state # "absent"
      PROVE  users'[e].state # "absent"
  <2>1. CASE Serve(q)
    BY <1>7, <2>1, RowsChange
  <2>2. CASE Start(q) \/ StatementFails(q)
    BY <1>7, <2>2 DEF Start, StatementFails, tables
  <2> QED  BY <2>1, <2>2
<1>8. ASSUME NEW r \in Requests \ {q} PROVE reply'[r] = reply[r]
  <2>1. \/ UNCHANGED reply
        \/ \E code : reply' = [reply EXCEPT ![q] = code]
    BY DEF TypeInv, ControlInv, Start, StatementFails, Serve, Goto, Answer, Refuse,
     Return, Authorize, Admitted, IssueTo,
     RegisterLookup, RegisterCreate, RegisterOpenAccounts, LoginLookup, LoginFailed,
     LoginSucceeded, AuditAccountLocked, GenerateTokens, RefreshLookup,
     RefreshUser, RefreshRevoke, LogoutValidate, LogoutBlacklist,
     LogoutRevokeAll, RequireAuth, FindTarget, UnlockUser, DeleteUser,
     AdminResetPassword, CustomerUpdatePassword, UpdatePasswordHash,
     CreateAuditLog
  <2> QED  BY <2>1 DEF TypeInv, ControlInv
<1> QED  BY <1>2, <1>3, <1>4, <1>5, <1>6, <1>7, <1>8

-----------------------------------------------------------------------------
(* The request itself *)

LEMMA ToldStart ==
  ASSUME TypeInv, OutInv, NEW r \in Requests, Told(r), Start(r), ControlInv'
  PROVE  Told(r)'
<1>1. PICK c \in Calls : /\ call' = [call EXCEPT ![r] = c]
                         /\ Goto(r, FirstStatement[c.kind])
  BY DEF Start
<1>2. c \in Call /\ c.kind \in Kinds
  BY ConstantsAssumption DEF Call
<1>3. /\ call'[r] = c /\ pc'[r] = FirstStatement[c.kind]
      /\ UNCHANGED <<reply, holder, refresh>> /\ pc[r] = "idle"
  BY <1>1 DEF Start, Goto, TypeInv, ControlInv, tables
<1>4. pc'[r] \in {"findEmail", "findLogin", "findToken", "validate", "authorize"}
  BY <1>2, <1>3 DEF FirstStatement, Kinds
<1>5. reply[r] = "none" /\ holder[r] = Nobody /\ refresh[r] = "none"
  BY <1>3 DEF Told, Past, OutInv
<1> QED  BY <1>3, <1>4, <1>5 DEF Told, Past

LEMMA ToldStep ==
  ASSUME TypeInv, LockInv, OutInv, NEW r \in Requests, Told(r),
         Serve(r) \/ StatementFails(r), ControlInv', UNCHANGED call
  PROVE  Told(r)'
<1>0. /\ DOMAIN pc = Requests /\ reply \in [Requests -> Replies]
      /\ r \in Tokens /\ T(r) \in Sessions /\ T(r) \in Tokens /\ T(r) # r
      /\ Owner(r) \in Emails /\ E(r) \in Emails /\ Nobody \notin Emails
      /\ holder \in [Tokens -> Emails \union {Nobody}]
      /\ refresh \in [Tokens -> {"none", "live", "revoked"}]
      /\ users \in [Emails -> UserRow] /\ seen \in [Requests -> UserRow]
      /\ refresh[T(r)] # "none"
  BY KindAt, OwnersExist, ConstantsAssumption DEF TypeInv, ControlInv, TablesInv, OutInv
<1>1. /\ E(r)' = E(r) /\ T(r)' = T(r)
      /\ Owner(r)' = Owner(r)
  <2>1. holder'[T(r)] = holder[T(r)]
    BY <1>0, TokensChange
  <2> QED  BY <2>1 DEF E, T, Owner
<1>2. \A e \in Emails : users[e].state # "absent" => users'[e].state # "absent"
  BY OthersKeep
<1>3. CASE pc[r] \in Past
  BY <1>0, <1>1, <1>2, <1>3, PastOnlyAudits DEF Told, Past
<1>4. CASE pc[r] = "auditLocked"
  <2>1. /\ UNCHANGED <<users, holder, refresh, reply, seen>> /\ pc'[r] = "audit"
        /\ call[r].kind = "login"
    BY <1>0, <1>4, KindAt DEF Serve, StatementFails, Ignored, tables, Goto, TypeInv,
     RegisterLookup, RegisterCreate, RegisterOpenAccounts, LoginLookup, LoginFailed,
     LoginSucceeded, AuditAccountLocked, GenerateTokens, RefreshLookup,
     RefreshUser, RefreshRevoke, LogoutValidate, LogoutBlacklist,
     LogoutRevokeAll, RequireAuth, FindTarget, UnlockUser, DeleteUser,
     AdminResetPassword, CustomerUpdatePassword, CreateAuditLog
  <2> QED  BY <1>1, <1>4, <2>1 DEF Told, Past
<1> DEFINE Early == pc[r] \notin Past \union {"auditLocked"}
<1>5. ASSUME Early
      PROVE reply[r] = "none" /\ holder[r] = Nobody /\ refresh[r] = "none"
  BY <1>5 DEF Told, Past, OutInv
<1>6. pc'[r] \in Places(call[r].kind)
  BY DEF ControlInv
<1>10. CASE Early /\ RegisterLookup(r)
  BY <1>0, <1>1, <1>2, <1>5, <1>6, <1>10, KindAt
     DEF Told, Past, TypeInv, Goto, Answer, Refuse, Return, tables, RegisterLookup, RegisterHandler
<1>11. CASE Early /\ RegisterCreate(r)
  BY <1>0, <1>1, <1>2, <1>5, <1>6, <1>11, KindAt
     DEF Told, Past, TypeInv, Goto, Answer, Refuse, Return, tables, RegisterCreate, RegisterHandler, InsertUser, NewUser
<1>12. CASE Early /\ RegisterOpenAccounts(r)
  BY <1>0, <1>1, <1>2, <1>5, <1>6, <1>12, KindAt
     DEF Told, Past, TypeInv, Goto, Answer, Refuse, Return, tables, RegisterOpenAccounts, RegisterHandler
<1>13. CASE Early /\ LoginLookup(r)
  BY <1>0, <1>1, <1>2, <1>5, <1>6, <1>13, KindAt
     DEF Told, Past, TypeInv, Goto, Answer, Refuse, Return, tables, LoginLookup, LoginHandler
<1>14. CASE Early /\ LoginFailed(r)
  BY <1>0, <1>1, <1>2, <1>5, <1>6, <1>14, KindAt
     DEF Told, Past, TypeInv, Goto, Answer, Refuse, Return, tables, LoginFailed, LoginHandler, AfterFailure
<1>15. CASE Early /\ LoginSucceeded(r)
  BY <1>0, <1>1, <1>2, <1>5, <1>6, <1>15, KindAt
     DEF Told, Past, TypeInv, Goto, Answer, Refuse, Return, tables, LoginSucceeded
<1>16. CASE Early /\ GenerateTokens(r)
  BY <1>0, <1>1, <1>2, <1>5, <1>6, <1>16, KindAt
     DEF Told, Past, TypeInv, Goto, Answer, Refuse, Return, tables, GenerateTokens, IssueTo
<1>17. CASE Early /\ RefreshLookup(r)
  BY <1>0, <1>1, <1>2, <1>5, <1>6, <1>17, KindAt
     DEF Told, Past, TypeInv, Goto, Answer, Refuse, Return, tables, RefreshLookup, RefreshHandler
<1>18. CASE Early /\ RefreshUser(r)
  BY <1>0, <1>1, <1>2, <1>5, <1>6, <1>18, KindAt
     DEF Told, Past, TypeInv, Goto, Answer, Refuse, Return, tables, RefreshUser, RefreshHandler
<1>19. CASE Early /\ RefreshRevoke(r)
  BY <1>0, <1>1, <1>2, <1>5, <1>6, <1>19, KindAt
     DEF Told, Past, TypeInv, Goto, Answer, Refuse, Return, tables, RefreshRevoke, Revoke
<1>20. CASE Early /\ LogoutValidate(r)
  BY <1>0, <1>1, <1>2, <1>5, <1>6, <1>20, KindAt
     DEF Told, Past, TypeInv, Goto, Answer, Refuse, Return, tables, LogoutValidate, LogoutHandler
<1>21. CASE Early /\ LogoutBlacklist(r)
  BY <1>0, <1>1, <1>2, <1>5, <1>6, <1>21, KindAt
     DEF Told, Past, TypeInv, Goto, Answer, Refuse, Return, tables, LogoutBlacklist
<1>22. CASE Early /\ LogoutRevokeAll(r)
  BY <1>0, <1>1, <1>2, <1>5, <1>6, <1>22, KindAt
     DEF Told, Past, TypeInv, Goto, Answer, Refuse, Return, tables, LogoutRevokeAll, LogoutHandler, RevokeAllForUser
<1>23. CASE Early /\ RequireAuth(r)
  BY <1>0, <1>1, <1>2, <1>5, <1>6, <1>23, KindAt
     DEF Told, Past, TypeInv, Goto, Answer, Refuse, Return, tables, RequireAuth, Authorize, Admitted, Rejection, AdminRoutes, HasRole
<1>24. CASE Early /\ FindTarget(r)
  BY <1>0, <1>1, <1>2, <1>5, <1>6, <1>24, KindAt
     DEF Told, Past, TypeInv, Goto, Answer, Refuse, Return, tables, FindTarget, ResetPasswordHandler, UpdateMyPasswordHandler
<1>25. CASE Early /\ UnlockUser(r)
  BY <1>0, <1>1, <1>2, <1>5, <1>6, <1>25, KindAt
     DEF Told, Past, TypeInv, Goto, Answer, Refuse, Return, tables, UnlockUser
<1>26. CASE Early /\ DeleteUser(r)
  BY <1>0, <1>1, <1>2, <1>5, <1>6, <1>26, KindAt
     DEF Told, Past, TypeInv, Goto, Answer, Refuse, Return, tables, DeleteUser
<1>27. CASE Early /\ AdminResetPassword(r)
  BY <1>0, <1>1, <1>2, <1>5, <1>6, <1>27, KindAt
     DEF Told, Past, TypeInv, Goto, Answer, Refuse, Return, tables, AdminResetPassword, UpdatePasswordHash
<1>28. CASE Early /\ CustomerUpdatePassword(r)
  BY <1>0, <1>1, <1>2, <1>5, <1>6, <1>28, KindAt
     DEF Told, Past, TypeInv, Goto, Answer, Refuse, Return, tables, CustomerUpdatePassword, UpdatePasswordHash
<1>29. CASE Early /\ StatementFails(r)
  <2>0. UNCHANGED <<users, holder, refresh, seen>> /\ reply[r] = "none"
    BY <1>5, <1>29 DEF StatementFails, tables
  <2>1. CASE pc[r] \in DOMAIN Ignored
    <3>1. Goto(r, Ignored[pc[r]])
      BY <1>0, <1>29, <2>1 DEF StatementFails, Ignored
    <3>2. pc'[r] \in {"issue", "revokeAll"} /\ UNCHANGED reply
      BY <1>0, <1>29, <2>1, <3>1 DEF Ignored, Goto, Past
    <3> QED  BY <1>1, <1>5, <2>0, <3>2 DEF Told, Past
  <2>2. CASE pc[r] \in {"openAccounts", "revokeAll"}
    <3>1. Answer(r, "audit", "ok") /\ call[r].kind \in {"register", "logout"}
      BY <1>29, <2>2, KindAt DEF StatementFails, Ignored, TypeInv
    <3>2. pc'[r] = "audit" /\ reply'[r] = "ok"
      BY <1>0, <3>1 DEF Answer
    <3> QED  BY <1>1, <1>5, <1>29, <2>0, <2>2, <3>1, <3>2, KindAt DEF Told, Past, TypeInv
  <2>3. CASE pc[r] = "saveFailure"
    <3>1. Answer(r, AfterFailure(r), "AuthInvalidCredentials") /\ call[r].kind = "login"
      BY <1>29, <2>3, KindAt DEF StatementFails, Ignored, TypeInv, LoginHandler
    <3>2. pc'[r] \in {"auditLocked", "audit"} /\ reply'[r] = "AuthInvalidCredentials"
      BY <1>0, <3>1 DEF Answer, AfterFailure
    <3> QED  BY <1>1, <1>5, <1>29, <2>0, <2>3, <3>1, <3>2 DEF Told, Past
  <2>4. CASE pc[r] = "findToken"
    <3>1. Refuse(r, "AuthInvalidTokenFormat") /\ call[r].kind = "refresh"
      BY <1>29, <2>4, KindAt DEF StatementFails, Ignored, TypeInv
    <3>2. pc'[r] = "audit" /\ reply'[r] = "AuthInvalidTokenFormat"
      BY <1>0, <3>1 DEF Answer, Refuse
    <3> QED  BY <1>1, <1>5, <2>0, <3>1, <3>2 DEF Told, Past
  <2>5. CASE pc[r] = "authorize"
    <3>1. Authorize(r, FALSE) /\ call[r].kind \notin {"login", "refresh", "register"}
      BY <1>29, <2>5, KindAt DEF StatementFails, Ignored, TypeInv
    <3>2. CASE Rejection(r, FALSE) = "none"
      <4>1. Admitted(r)
        BY <3>1, <3>2 DEF Authorize
      <4>2. call[r].kind \in {"unlock", "delete"} => Owner(r) \in Admins
        BY <3>2 DEF Rejection, AdminRoutes, HasRole
      <4>3. /\ pc'[r] \in {"done", "findTarget"}
            /\ pc'[r] = "findTarget" => reply'[r] = "none"
        BY <1>0, <2>0, <4>1 DEF Admitted, Goto, Return, Answer
      <4> QED  BY <1>1, <1>5, <2>0, <3>1, <4>2, <4>3 DEF Told, Past
    <3>3. CASE Rejection(r, FALSE) # "none"
      <4>1. pc'[r] = "done"
        BY <1>0, <3>1, <3>3 DEF Authorize, Return, Answer
      <4> QED  BY <1>1, <1>5, <2>0, <3>1, <4>1 DEF Told, Past
    <3> QED  BY <3>2, <3>3
  <2>6. CASE pc[r] \notin DOMAIN Ignored \union {"openAccounts", "revokeAll",
                           "saveFailure", "findToken", "authorize"}
    <3>1. Return(r, "SystemInternalError")
      BY <1>29, <2>6 DEF StatementFails
    <3>2. pc'[r] = "done" /\ reply'[r] = "SystemInternalError"
      BY <1>0, <3>1 DEF Answer, Return
    <3> QED  BY <1>1, <1>5, <2>0, <3>2 DEF Told, Past
  <2> QED  BY <2>1, <2>2, <2>3, <2>4, <2>5, <2>6
<1> QED  BY <1>3, <1>4, <1>10, <1>11, <1>12, <1>13, <1>14, <1>15, <1>16, <1>17, <1>18, <1>19, <1>20, <1>21, <1>22, <1>23, <1>24, <1>25, <1>26, <1>27, <1>28, <1>29
  DEF Serve, Past, AuditAccountLocked, CreateAuditLog

LEMMA ToldInvariant ==
  ASSUME TypeInv, LockInv, OutInv, \A r \in Requests : Told(r), ControlInv',
         NEW q \in Requests, Start(q) \/ Serve(q) \/ StatementFails(q),
         NEW r \in Requests
  PROVE  Told(r)'
<1>1. CASE r = q
  <2>1. CASE Start(q)
    BY <1>1, <2>1, ToldStart
  <2>2. CASE Serve(q) \/ StatementFails(q)
    BY <1>1, <2>2, ToldStep, ControlStep DEF TypeInv
  <2> QED  BY <2>1, <2>2
<1>2. CASE r # q
  <2>1. T(r) \in Sessions /\ E(r) \in Emails
    BY KindAt DEF TypeInv
  <2>2. E(r)' = E(r) /\ T(r)' = T(r) /\ Owner(r)' = Owner(r)
    BY <1>2, <2>1, OthersKeep DEF E, T, Owner
  <2> QED  BY <1>2, <2>1, <2>2, OthersKeep DEF Told
<1> QED  BY <1>1, <1>2

-----------------------------------------------------------------------------
(* The audit rows *)

\* The row a step of q adds, if any.
LEMMA RowsAdded ==
  ASSUME TypeInv, LockInv, OutInv, NEW q \in Requests, Told(q),
         Start(q) \/ Serve(q) \/ StatementFails(q), ControlInv',
         NEW row \in audit' \ audit
  PROVE  Witnessed(row)'
<1>0. /\ DOMAIN pc = Requests /\ q \in Tokens /\ Nobody \notin Emails
      /\ T(q) \in Sessions /\ Owner(q) \in Emails /\ E(q) \in Emails
      /\ holder \in [Tokens -> Emails \union {Nobody}]
  BY KindAt, OwnersExist, ConstantsAssumption DEF TypeInv, ControlInv, TablesInv
<1>1. CASE CreateAuditLog(q)
  <2>1. /\ row = <<AuditAction(q), q, AuditSubject(q)>> /\ pc[q] = "audit"
        /\ pc'[q] = "done"
        /\ UNCHANGED <<users, holder, call, seen, reply>>
    BY <1>0, <1>1 DEF CreateAuditLog, Goto
  <2>2. Owner(q)' = Owner(q)
    BY <2>1 DEF E, T, Owner
  <2>3. call[q].kind \in Kinds
    BY KindAt DEF TypeInv
  <2>4. AuditSubject(q) \in Emails
    BY <1>0 DEF AuditSubject
  <2>5. AuditAction(q) \in {"login", "refresh"} => holder[q] = AuditSubject(q)
    BY <1>0, <2>1, <2>3 DEF AuditAction, AuditSubject, Told, Owner, Kinds
  <2>6. AuditAction(q) \in {"failed_login", "token_refresh_failed"} => holder[q] = Nobody
    BY <1>0, <2>1, <2>3 DEF AuditAction, AuditSubject, Told, Owner, Kinds
  <2>7. AuditAction(q) # "account_locked" /\ AuditAction(q) # "account.auto_created"
    BY <1>0, <2>1, <2>3 DEF AuditAction, AuditSubject, Told, Owner, Kinds
  <2>8. AuditAction(q) \in {"unlock", "delete"} =>
          call[q].kind \in {"unlock", "delete"} /\ Owner(q) \in Admins
    BY <1>0, <2>1, <2>3 DEF AuditAction, AuditSubject, Told, Owner, Kinds
  <2>9. AuditAction(q) = "register" => users[AuditSubject(q)].state # "absent"
    BY <1>0, <2>1, <2>3 DEF AuditAction, AuditSubject, Told, Owner, Kinds
  <2> QED  BY <2>1, <2>2, <2>4, <2>5, <2>6, <2>7, <2>8, <2>9 DEF Witnessed, Past
<1>2. CASE AuditAccountLocked(q)
  <2>1. /\ row = <<"account_locked", q, E(q)>> /\ pc[q] = "auditLocked"
        /\ pc'[q] = "audit"
        /\ UNCHANGED <<users, holder, call, seen, reply>>
    BY <1>0, <1>2 DEF AuditAccountLocked, Goto
  <2> QED  BY <1>0, <2>1 DEF Witnessed, Past, Told
<1>3. CASE RegisterOpenAccounts(q)
  <2>1. PICK action \in {"account.auto_created", "account.auto_creation_failed"} :
          row = <<action, q, E(q)>>
    BY <1>3 DEF RegisterOpenAccounts
  <2>2. /\ pc[q] = "openAccounts" /\ pc'[q] = "audit"
        /\ UNCHANGED <<users, holder, call, seen>>
    BY <1>0, <1>3 DEF RegisterOpenAccounts, Answer
  <2>3. call[q].kind = "register"
    BY <2>2, KindAt DEF TypeInv
  <2> QED  BY <1>0, <2>1, <2>2, <2>3 DEF Witnessed, Past, Told
<1>4. CASE ~(CreateAuditLog(q) \/ AuditAccountLocked(q) \/ RegisterOpenAccounts(q))
  <2>1. UNCHANGED audit
    BY <1>4 DEF Start, StatementFails, Serve, tables,
     RegisterLookup, RegisterCreate, LoginLookup, LoginFailed,
     LoginSucceeded, GenerateTokens, RefreshLookup,
     RefreshUser, RefreshRevoke, LogoutValidate, LogoutBlacklist,
     LogoutRevokeAll, RequireAuth, FindTarget, UnlockUser, DeleteUser,
     AdminResetPassword, CustomerUpdatePassword, UpdatePasswordHash
  <2> QED  BY <2>1
<1> QED  BY <1>1, <1>2, <1>3, <1>4

LEMMA RowsStay ==
  ASSUME TypeInv, LockInv, OutInv, NEW q \in Requests,
         Start(q) \/ Serve(q) \/ StatementFails(q),
         NEW row \in audit, Witnessed(row)
  PROVE  Witnessed(row)'
<1> DEFINE r == row[2]
<1>1. r \in Requests /\ T(r) \in Sessions
  BY KindAt DEF Witnessed, TypeInv
<1>2. /\ holder'[r] = holder[r] /\ seen'[r] = seen[r] /\ call'[r] = call[r]
      /\ pc'[r] \in Past
  BY <1>1, OthersKeep, PastOnlyAudits DEF Witnessed, Past
<1>3. Owner(r)' = Owner(r)
  BY <1>1, <1>2, OthersKeep DEF E, T, Owner
<1>4. \A e \in Emails : users[e].state # "absent" => users'[e].state # "absent"
  BY OthersKeep
<1> QED  BY <1>1, <1>2, <1>3, <1>4 DEF Witnessed

-----------------------------------------------------------------------------
LEMMA TellInit == Init => TellInv
<1> SUFFICES ASSUME Init PROVE TellInv
  OBVIOUS
<1>1. ASSUME NEW r \in Requests PROVE Told(r)
  <2>1. r \in Tokens /\ r \notin Sessions
    BY ConstantsAssumption DEF Tokens
  <2> QED  BY <2>1 DEF Init, Told, Past, Tokens
<1> QED  BY <1>1 DEF Init, TellInv

LEMMA TellInvariant ==
  TypeInv /\ LockInv /\ OutInv /\ TellInv /\ [Next]_vars => TellInv'
<1> SUFFICES ASSUME TypeInv, LockInv, OutInv, TellInv, [Next]_vars PROVE TellInv'
  OBVIOUS
<1>1. ControlInv'
  BY ControlInvariant
<1>2. ASSUME NEW q \in Requests, Start(q) \/ Serve(q) \/ StatementFails(q)
      PROVE  TellInv'
  <2>1. ASSUME NEW r \in Requests PROVE Told(r)'
    BY <1>1, <1>2, ToldInvariant DEF TellInv
  <2>2. ASSUME NEW row \in audit' PROVE Witnessed(row)'
    <3>1. CASE row \in audit
      BY <1>2, <3>1, RowsStay DEF TellInv
    <3>2. CASE row \notin audit
      BY <1>1, <1>2, <3>2, RowsAdded DEF TellInv
    <3> QED  BY <3>1, <3>2
  <2> QED  BY <2>1, <2>2 DEF TellInv
<1>3. CASE UNCHANGED <<tables, pc, call, seen, reply>>
  BY <1>3 DEF TellInv, Told, Witnessed, tables, E, T, Owner
<1> QED  BY <1>2, <1>3 DEF Next, Expire, Finished, vars

(* What clients and auditors are told is so: tokens are sent, and a login  *)
(* or refresh is audited, only with a stored row; a refused one stored     *)
(* none; account_locked follows a wrong guess; admin actions are admins'.  *)
THEOREM RepliesAgreeWithAudit == Spec => []RepliesAndAuditAgree
<1>1. Init => OutInv /\ TellInv
  BY OutInit, TellInit
<1>2. OutInv /\ TellInv => RepliesAndAuditAgree
  <2> SUFFICES ASSUME OutInv, TellInv PROVE RepliesAndAuditAgree
    OBVIOUS
  <2>1. ASSUME NEW r \in Requests, call[r].kind \in {"login", "refresh"}
        PROVE  reply[r] = "ok" <=> refresh[r] # "none"
    BY <2>1 DEF TellInv, Told
  <2>2. ASSUME NEW row \in audit PROVE Witnessed(row)
    BY DEF TellInv
  <2> QED  BY <2>1, <2>2 DEF RepliesAndAuditAgree, Witnessed
<1> QED
  BY <1>1, <1>2, OutInvariant, TellInvariant, SessionsInvariant, PTL DEF Spec

=============================================================================
