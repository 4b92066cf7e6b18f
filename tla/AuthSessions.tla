---------------------------- MODULE AuthSessions ----------------------------
(***************************************************************************)
(* Users, passwords and tokens: the requests of auth_service.go,           *)
(* password_service.go and the admin handlers that change a user or a      *)
(* session, and the RequireAuth middleware that reads them.                *)
(*                                                                         *)
(* One request is one handler goroutine, one action one SQL statement with *)
(* the Go code up to the next one.  A row of users is named by its e-mail, *)
(* which the unique index keeps for deleted rows too.  A request issues at *)
(* most one pair of tokens, so pairs are named by the issuing request.     *)
(* A crash of the server is a request that takes no further step, which    *)
(* Spec, without fairness, always allows.                                  *)
(***************************************************************************)
EXTENDS Integers, FiniteSets, ErrorCodes

CONSTANTS
  Emails,         \* e-mail addresses, and the user rows that carry them
  Admins,         \* the rows with role admin; the role never changes
  Requests,       \* handler goroutines
  Sessions,       \* token pairs issued before the first request
  HolderOf,       \* HolderOf[s]: the user of pair s
  Passwords,
  WeakPasswords,  \* the passwords ValidatePassword refuses
  Temporary,      \* what GenerateSecurePassword returns
  Calls,          \* the calls clients may make
  FirstRows,      \* the contents of table users at the start
  Perishable,     \* the tokens whose lifetime may end during the run
  Faults          \* {"error"}: any statement may fail; {}: none does

MaxFailedLoginAttempts == 3
Nobody == "nobody"
Tokens == Requests \union Sessions
UserRow == [state : {"absent", "live", "deleted"}, password : Passwords,
            attempts : 0..MaxFailedLoginAttempts, locked : BOOLEAN]

\* A call of /auth/... or of an authenticated route: only the fields the
\* route has are meaningful.
Kinds == {"register", "login", "refresh", "logout", "use", "unlock", "delete",
          "resetPassword", "changePassword"}
Call == [kind : Kinds, email : Emails, password : Passwords, new : Passwords,
         token : Sessions]

ASSUME ConstantsAssumption ==
  /\ Admins \subseteq Emails
  /\ HolderOf \in [Sessions -> Emails]
  /\ Requests \intersect Sessions = {}
  /\ Sessions # {}
  /\ Nobody \notin Emails
  /\ WeakPasswords \subseteq Passwords
  /\ Temporary \in Passwords
  /\ Calls \subseteq Call
  /\ FirstRows \in [Emails -> UserRow]
  /\ \A e \in Emails :
       /\ FirstRows[e].locked <=> FirstRows[e].attempts = MaxFailedLoginAttempts
       /\ FirstRows[e].state = "absent" => ~FirstRows[e].locked
  /\ Perishable \subseteq Tokens \X {"access", "refresh"}
  /\ Faults \subseteq {"error"}

VARIABLES
  users,      \* table users
  holder,     \* holder[t]: the user pair t was issued to, or Nobody
  refresh,    \* table refresh_tokens: the row of pair t, or "none"
  blacklist,  \* table blacklisted_tokens: pairs whose access token is in it
  expired,    \* tokens past their expiry
  audit,      \* table audit_logs: <<action, request, user>>
  pc, call,
  seen,       \* seen[r]: the user row request r read
  reply,      \* reply[r]: "ok", an error code, or "none" before the answer
  swallowed,  \* history: requests that logged an error and went on
  cut         \* history: cut[r]: the pairs issued when logout r revoked

tables == <<users, holder, refresh, blacklist, audit>>
history == <<swallowed, cut>>
vars == <<tables, expired, pc, call, seen, reply, history>>

Issued == {t \in Tokens : holder[t] # Nobody}

-----------------------------------------------------------------------------
(* models/user.go *)

\* BeforeCreate: a user starts with no failed attempt and no lock.
NewUser(p) == [state |-> "live", password |-> p, attempts |-> 0, locked |-> FALSE]

IncrementFailedAttempts(u) ==
  LET n == u.attempts + 1
  IN [u EXCEPT !.attempts = IF n >= MaxFailedLoginAttempts
                            THEN MaxFailedLoginAttempts ELSE n,
               !.locked = @ \/ n >= MaxFailedLoginAttempts]

ResetFailedAttempts(u) == [u EXCEPT !.attempts = 0]

-----------------------------------------------------------------------------
(* token_service.go: the signature and the issuer are right by assumption *)

\* validateToken, validateClaims
Validates(t, type) == holder[t] # Nobody /\ <<t, type>> \notin expired

\* GetByTokenHash finds a row, revoked or not
Stored(t) == refresh[t] # "none"

\* RefreshToken.IsValid on that row
IsValid(t) == refresh[t] # "revoked" /\ <<t, "refresh">> \notin expired

-----------------------------------------------------------------------------
(* Steps of a request *)

Goto(r, p) == pc' = [pc EXCEPT ![r] = p] /\ UNCHANGED reply
Answer(r, p, code) ==
  pc' = [pc EXCEPT ![r] = p] /\ reply' = [reply EXCEPT ![r] = code]
Return(r, code) == Answer(r, "done", code)
Refuse(r, code) == Answer(r, "audit", code)

E(r) == call[r].email
T(r) == call[r].token
Live(e) == users[e].state = "live"

\* UPDATE users ... WHERE id = ? AND deleted_at IS NULL
UpdateUser(e, row) ==
  users' = [users EXCEPT ![e] = IF Live(e) THEN row ELSE @]

\* What each handler answers for the error its service returns
RegisterHandler == [ok |-> "ok", userAlreadyExists |-> "CustomerAlreadyExists",
                    other |-> "SystemInternalError"]
LoginHandler == [ok |-> "ok", accountLocked |-> "AuthAccountLocked",
                 invalidCredentials |-> "AuthInvalidCredentials",
                 other |-> "SystemInternalError"]
RefreshHandler == [ok |-> "ok", invalidRefreshToken |-> "AuthInvalidTokenFormat",
                   other |-> "SystemInternalError"]
\* Logout always reports success.
LogoutHandler == "ok"
ResetPasswordHandler == [ok |-> "ok", customerNotFound |-> "CustomerNotFound",
                         other |-> "SystemInternalError"]
UpdateMyPasswordHandler ==
  [ok |-> "ok", currentPasswordWrong |-> "AuthInvalidCredentials",
   other |-> "SystemInternalError"]

\* The handlers bind and validate the body and hand it to the service; the
\* routes behind RequireAuth start with the middleware.
FirstStatement == [register |-> "findEmail", login |-> "findLogin",
  refresh |-> "findToken", logout |-> "validate", use |-> "authorize",
  unlock |-> "authorize", delete |-> "authorize",
  resetPassword |-> "authorize", changePassword |-> "authorize"]

Start(r) ==
  /\ pc[r] = "idle"
  /\ \E c \in Calls : /\ call' = [call EXCEPT ![r] = c]
                      /\ Goto(r, FirstStatement[c.kind])
  /\ UNCHANGED <<tables, expired, seen, history>>

-----------------------------------------------------------------------------
(* AuthService.Register *)

\* GetByEmail does not see deleted rows; a weak password makes HashPassword
\* fail after the lookup, which the handler answers with 500.
RegisterLookup(r) ==
  /\ pc[r] = "findEmail"
  /\ CASE Live(E(r)) -> Refuse(r, RegisterHandler.userAlreadyExists)
       [] ~Live(E(r)) /\ call[r].password \in WeakPasswords ->
            Return(r, RegisterHandler.other)
       [] OTHER -> Goto(r, "insertUser")
  /\ UNCHANGED <<tables, expired, call, seen, history>>

EmailIsFree(e) == users[e].state = "absent"
InsertUser(e, p) == users' = [users EXCEPT ![e] = NewUser(p)]

\* The e-mail is unique over deleted rows too, and Register passes the
\* repository's ErrUserAlreadyExists on as a failure of its own.
RegisterCreate(r) ==
  /\ pc[r] = "insertUser"
  /\ IF EmailIsFree(E(r))
     THEN InsertUser(E(r), call[r].password) /\ Goto(r, "openAccounts")
     ELSE Return(r, RegisterHandler.other) /\ UNCHANGED users
  /\ UNCHANGED <<holder, refresh, blacklist, audit, expired, call, seen, history>>

\* CreateAccountsForNewUser (module CustomerAccounts) succeeds or fails; both
\* are audited and neither stops the registration.
RegisterOpenAccounts(r) ==
  /\ pc[r] = "openAccounts"
  /\ \E action \in {"account.auto_created", "account.auto_creation_failed"} :
       audit' = audit \union {<<action, r, E(r)>>}
  /\ Answer(r, "audit", RegisterHandler.ok)
  /\ UNCHANGED <<users, holder, refresh, blacklist, expired, call, seen, history>>

-----------------------------------------------------------------------------
(* AuthService.Login *)

\* An unknown and a deleted user are answered like a wrong password.
LoginLookup(r) ==
  /\ pc[r] = "findLogin"
  /\ seen' = [seen EXCEPT ![r] = users[E(r)]]
  /\ CASE ~Live(E(r)) -> Refuse(r, LoginHandler.invalidCredentials)
       [] Live(E(r)) /\ users[E(r)].locked -> Refuse(r, LoginHandler.accountLocked)
       [] OTHER -> Goto(r, IF users[E(r)].password = call[r].password
                           THEN "saveSuccess" ELSE "saveFailure")
  /\ UNCHANGED <<tables, expired, call, history>>

\* Slip: the count is written and the lock is not.
SaveCountOnly(e, u) == UpdateUser(e, [users[e] EXCEPT !.attempts = u.attempts])

\* UpdateFailedLoginAttempts writes both columns from the caller's copy.
UpdateFailedLoginAttempts(e, u) ==
  UpdateUser(e, [users[e] EXCEPT !.attempts = u.attempts, !.locked = u.locked])

\* The lock that is audited is the one in the request's copy.
AfterFailure(r) ==
  IF IncrementFailedAttempts(seen[r]).locked THEN "auditLocked" ELSE "audit"

LoginFailed(r) ==
  /\ pc[r] = "saveFailure"
  /\ UpdateFailedLoginAttempts(E(r), IncrementFailedAttempts(seen[r]))
  /\ Answer(r, AfterFailure(r), LoginHandler.invalidCredentials)
  /\ UNCHANGED <<holder, refresh, blacklist, audit, expired, call, seen, history>>

AuditAccountLocked(r) ==
  /\ pc[r] = "auditLocked"
  /\ audit' = audit \union {<<"account_locked", r, E(r)>>}
  /\ Goto(r, "audit")
  /\ UNCHANGED <<users, holder, refresh, blacklist, expired, call, seen, history>>

LoginSucceeded(r) ==
  /\ pc[r] = "saveSuccess"
  /\ UpdateFailedLoginAttempts(E(r), ResetFailedAttempts(seen[r]))
  /\ Goto(r, "issue")
  /\ UNCHANGED <<holder, refresh, blacklist, audit, expired, call, seen, history>>

\* generateTokens: the INSERT of the refresh token, then both are sent.
IssueTo(r, e) ==
  /\ holder' = [holder EXCEPT ![r] = e]
  /\ refresh' = [refresh EXCEPT ![r] = "live"]
  /\ Answer(r, "audit", "ok")

Owner(r) == IF call[r].kind = "login" THEN E(r) ELSE holder[T(r)]

\* Slip: the answer is prepared and audited before the row is stored.
AnswerBeforeInsert(r) ==
  /\ pc[r] = "issue"
  /\ Answer(r, "audit", "ok")
  /\ UNCHANGED <<tables, expired, call, seen, history>>

GenerateTokens(r) ==
  /\ pc[r] = "issue"
  /\ IssueTo(r, Owner(r))
  /\ UNCHANGED <<users, blacklist, audit, expired, call, seen, history>>

-----------------------------------------------------------------------------
(* AuthService.RefreshTokens *)

RefreshLookup(r) ==
  /\ pc[r] = "findToken"
  /\ IF Validates(T(r), "refresh") /\ Stored(T(r)) /\ IsValid(T(r))
     THEN Goto(r, "findUser") ELSE Refuse(r, RefreshHandler.invalidRefreshToken)
  /\ UNCHANGED <<tables, expired, call, seen, history>>

RefreshUser(r) ==
  /\ pc[r] = "findUser"
  /\ IF Live(Owner(r)) THEN Goto(r, "revoke") ELSE Return(r, RefreshHandler.other)
  /\ UNCHANGED <<tables, expired, call, seen, history>>

\* Save of the whole row: the row as it was read, with revoked_at set
Revoke(r) == refresh' = [refresh EXCEPT ![T(r)] = "revoked"]

RefreshRevoke(r) ==
  /\ pc[r] = "revoke"
  /\ Revoke(r)
  /\ Goto(r, "issue")
  /\ UNCHANGED <<users, holder, blacklist, audit, expired, call, seen, history>>

-----------------------------------------------------------------------------
(* AuthService.Logout *)

\* An expired access token is to be blacklisted for the nil user, which the
\* foreign key on users refuses: nothing is stored, no refresh token is
\* revoked, and the answer is a success.
LogoutValidate(r) ==
  /\ pc[r] = "validate"
  /\ IF Validates(T(r), "access") THEN Goto(r, "blacklist") ELSE Return(r, LogoutHandler)
  /\ UNCHANGED <<tables, expired, call, seen, history>>

\* Slip: the nil id is what is stored.
BlacklistNil(r) ==
  /\ pc[r] = "blacklist"
  /\ blacklist' = blacklist \union {Nobody}
  /\ Goto(r, "revokeAll")
  /\ UNCHANGED <<users, holder, refresh, audit, expired, call, seen, history>>

BlacklistToken(t) == blacklist' = blacklist \union {t}

\* A second logout with one token breaks the unique jti, which is only logged.
LogoutBlacklist(r) ==
  /\ pc[r] = "blacklist"
  /\ BlacklistToken(T(r))
  /\ Goto(r, "revokeAll")
  /\ UNCHANGED <<users, holder, refresh, audit, expired, call, seen, history>>

\* Slip: the condition on revoked_at is turned round.
RevokeRevoked(e) ==
  [t \in Tokens |-> IF refresh[t] = "revoked" /\ holder[t] = e
                    THEN "revoked" ELSE refresh[t]]

RevokeAllForUser(e) ==
  [t \in Tokens |-> IF refresh[t] = "live" /\ holder[t] = e
                    THEN "revoked" ELSE refresh[t]]

LogoutRevokeAll(r) ==
  /\ pc[r] = "revokeAll"
  /\ refresh' = RevokeAllForUser(Owner(r))
  /\ cut' = [cut EXCEPT ![r] = Issued]
  /\ Answer(r, "audit", LogoutHandler)
  /\ UNCHANGED <<users, holder, blacklist, audit, expired, call, seen, swallowed>>

-----------------------------------------------------------------------------
(* The routes behind RequireAuth: RequireAdmin looks at the role the token *)
(* carries, and nobody looks at the user row of the bearer.                *)

Listed(t) == t \in blacklist
AdminRoutes == {"unlock", "delete", "resetPassword"}

\* RequireRole: the role claim, fixed when the token was signed
HasRole(e) == e \in Admins

\* listed: GetByJTI returned a row
Rejection(r, listed) ==
  CASE ~Validates(T(r), "access") -> "AuthExpiredToken"
    [] listed -> "AuthInvalidTokenFormat"
    [] call[r].kind \in AdminRoutes /\ ~HasRole(Owner(r)) ->
         "AuthInsufficientPermission"
    [] call[r].kind = "delete" /\ Owner(r) = E(r) -> "ValidationGeneral"
    [] call[r].kind = "changePassword"
         /\ \/ call[r].password = call[r].new
            \/ call[r].new \in WeakPasswords -> "SystemInternalError"
    [] OTHER -> "none"

Admitted(r) == IF call[r].kind = "use" THEN Return(r, "ok") ELSE Goto(r, "findTarget")

Authorize(r, listed) ==
  LET code == Rejection(r, listed)
  IN IF code = "none" THEN Admitted(r) ELSE Return(r, code)

RequireAuth(r) ==
  /\ pc[r] = "authorize"
  /\ Authorize(r, Listed(T(r)))
  /\ UNCHANGED <<tables, expired, call, seen, history>>

Target(r) == IF call[r].kind = "changePassword" THEN Owner(r) ELSE E(r)

\* GetByID, GetByIDActive; the password handlers know ErrUserNotFound as
\* services.ErrCustomerNotFound only, and UpdateMyPassword not at all.
FindTarget(r) ==
  /\ pc[r] = "findTarget"
  /\ CASE ~Live(Target(r)) ->
            Return(r, IF call[r].kind = "changePassword"
                      THEN UpdateMyPasswordHandler.other
                      ELSE ResetPasswordHandler.customerNotFound)
       [] Live(Target(r)) /\ call[r].kind = "changePassword"
            /\ users[Target(r)].password # call[r].password ->
            Return(r, UpdateMyPasswordHandler.currentPasswordWrong)
       [] OTHER -> Goto(r, call[r].kind)
  /\ UNCHANGED <<tables, expired, call, seen, history>>

ResetFailedLoginAttempts(e) ==
  UpdateUser(e, [users[e] EXCEPT !.attempts = 0, !.locked = FALSE])

UnlockUser(r) ==
  /\ pc[r] = "unlock"
  /\ ResetFailedLoginAttempts(E(r))
  /\ Answer(r, "audit", "ok")
  /\ UNCHANGED <<holder, refresh, blacklist, audit, expired, call, seen, history>>

SoftDelete(e) == users' = [users EXCEPT ![e].state = "deleted"]

\* The soft delete leaves the user's tokens alone.
DeleteUser(r) ==
  /\ pc[r] = "delete"
  /\ IF Live(E(r))
     THEN SoftDelete(E(r)) /\ Answer(r, "audit", "ok")
     ELSE Return(r, "SystemInternalError") /\ UNCHANGED users
  /\ UNCHANGED <<holder, refresh, blacklist, audit, expired, call, seen, history>>

\* Slip: a new password forgives the failed attempts.
UpdatePasswordUnlocks(r, p) ==
  /\ UpdateUser(Target(r), NewUser(p))
  /\ Return(r, "ok")
  /\ UNCHANGED <<holder, refresh, blacklist, audit, expired, call, seen, history>>

\* Neither password change revokes a session, and neither is audited.
UpdatePasswordHash(r, p) ==
  /\ UpdateUser(Target(r), [users[Target(r)] EXCEPT !.password = p])
  /\ Return(r, IF Live(Target(r)) THEN "ok" ELSE "SystemInternalError")
  /\ UNCHANGED <<holder, refresh, blacklist, audit, expired, call, seen, history>>

AdminResetPassword(r) ==
  pc[r] = "resetPassword" /\ UpdatePasswordHash(r, Temporary)
CustomerUpdatePassword(r) ==
  pc[r] = "changePassword" /\ UpdatePasswordHash(r, call[r].new)

-----------------------------------------------------------------------------
(* The last audit row, faults, time *)

AuditAction(r) ==
  CASE call[r].kind = "login" /\ reply[r] # "ok" -> "failed_login"
    [] call[r].kind = "refresh" /\ reply[r] # "ok" -> "token_refresh_failed"
    [] call[r].kind = "register" /\ reply[r] # "ok" -> "register_failed"
    [] OTHER -> call[r].kind

AuditSubject(r) ==
  IF call[r].kind \in {"logout", "refresh"} THEN Owner(r) ELSE E(r)

CreateAuditLog(r) ==
  /\ pc[r] = "audit"
  /\ audit' = audit \union {<<AuditAction(r), r, AuditSubject(r)>>}
  /\ Goto(r, "done")
  /\ UNCHANGED <<users, holder, refresh, blacklist, expired, call, seen, history>>

\* What follows a statement whose error is logged and otherwise ignored.  The
\* middleware takes a failed lookup for "not blacklisted".
Ignored == [saveSuccess |-> "issue", revoke |-> "issue",
            blacklist |-> "revokeAll", auditLocked |-> "audit",
            audit |-> "done"]

StatementFails(r) ==
  /\ "error" \in Faults
  /\ pc[r] \notin {"idle", "validate", "done"}
  /\ CASE pc[r] \in DOMAIN Ignored ->
            swallowed' = swallowed \union {r} /\ Goto(r, Ignored[pc[r]])
       [] pc[r] \in {"openAccounts", "revokeAll"} ->
            /\ swallowed' = swallowed \union {r}
            /\ Answer(r, "audit", "ok")
       [] pc[r] = "saveFailure" ->
            /\ swallowed' = swallowed \union {r}
            /\ Answer(r, AfterFailure(r), LoginHandler.invalidCredentials)
       [] pc[r] = "findToken" ->
            Refuse(r, "AuthInvalidTokenFormat") /\ UNCHANGED swallowed
       [] pc[r] = "authorize" ->
            swallowed' = swallowed \union {r} /\ Authorize(r, FALSE)
       [] OTHER -> Return(r, "SystemInternalError") /\ UNCHANGED swallowed
  /\ UNCHANGED <<tables, expired, call, seen, cut>>

Expire ==
  /\ \E x \in Perishable \ expired :
       holder[x[1]] # Nobody /\ expired' = expired \union {x}
  /\ UNCHANGED <<tables, pc, call, seen, reply, history>>

-----------------------------------------------------------------------------
AnyCall == CHOOSE c \in Call : TRUE

Init ==
  /\ users = FirstRows
  /\ holder = [t \in Tokens |-> IF t \in Sessions THEN HolderOf[t] ELSE Nobody]
  /\ refresh = [t \in Tokens |-> IF t \in Sessions THEN "live" ELSE "none"]
  /\ blacklist = {} /\ expired = {} /\ audit = {}
  /\ pc = [r \in Requests |-> "idle"]
  /\ call = [r \in Requests |-> AnyCall]
  /\ seen = [r \in Requests |-> NewUser(Temporary)]
  /\ reply = [r \in Requests |-> "none"]
  /\ swallowed = {}
  /\ cut = [r \in Requests |-> {}]

Serve(r) ==
  \/ RegisterLookup(r) \/ RegisterCreate(r) \/ RegisterOpenAccounts(r)
  \/ LoginLookup(r) \/ LoginFailed(r) \/ AuditAccountLocked(r)
  \/ LoginSucceeded(r) \/ GenerateTokens(r)
  \/ RefreshLookup(r) \/ RefreshUser(r) \/ RefreshRevoke(r)
  \/ LogoutValidate(r) \/ LogoutBlacklist(r) \/ LogoutRevokeAll(r)
  \/ RequireAuth(r) \/ FindTarget(r) \/ UnlockUser(r) \/ DeleteUser(r)
  \/ AdminResetPassword(r) \/ CustomerUpdatePassword(r) \/ CreateAuditLog(r)

Finished == (\A r \in Requests : pc[r] = "done") /\ UNCHANGED vars

Next ==
  \/ \E r \in Requests : Start(r) \/ Serve(r) \/ StatementFails(r)
  \/ Expire
  \/ Finished

Spec == Init /\ [][Next]_vars
=============================================================================
