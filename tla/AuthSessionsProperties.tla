----------------------- MODULE AuthSessionsProperties -----------------------
(* What AuthSessions promises.  GuessNeverUnlocks says what a reader of the *)
(* lock expects, and does not hold.                                        *)
EXTENDS AuthSessions

(* The values of the variables; a history is in its own range too. *)
TypeOK ==
  /\ users \in [Emails -> UserRow]
  /\ holder \in [Tokens -> Emails \union {Nobody}]
  /\ refresh \in [Tokens -> {"none", "live", "revoked"}]
  /\ blacklist \subseteq Tokens
  /\ expired \subseteq Perishable
  /\ call \in [Requests -> Call]
  /\ seen \in [Requests -> UserRow]
  /\ reply \in [Requests -> Codes \union {"none", "ok"}]
  /\ swallowed \subseteq Requests
  /\ cut \in [Requests -> SUBSET Tokens]

(* Failed attempts and the lock are written together from copies that may  *)
(* be old, by logins, by unlocking, by several at once; still a row is     *)
(* locked exactly when it counts MaxFailedLoginAttempts failures.          *)
LockMatchesCounter ==
  \A e \in Emails : users[e].locked <=> users[e].attempts = MaxFailedLoginAttempts

(* A lock goes away by UnlockUser, or because a login wrote back a copy of *)
(* the row it had read while the user was not locked; a login that found   *)
(* the user locked never lifts it.                                         *)
LockLiftedOnlyBy ==
  [][\A e \in Emails : users[e].locked /\ ~users'[e].locked =>
       \E r \in Requests : /\ E(r) = e
                           /\ pc'[r] # pc[r]
                           /\ \/ pc[r] = "unlock"
                              \/ pc[r] \in {"saveSuccess", "saveFailure"}
                                 /\ ~seen[r].locked]_vars

(* A logout that answered and met no error: its access token is black-     *)
(* listed, and every refresh token the user held when RevokeAllForUser ran *)
(* is revoked.  One issued later by a refresh in flight is not.            *)
SignedOutIsOut ==
  \A r \in Requests \ swallowed :
    call[r].kind = "logout" /\ reply[r] = "ok" /\ cut[r] # {} =>
      /\ T(r) \in blacklist
      /\ \A t \in cut[r] : holder[t] = Owner(r) => refresh[t] = "revoked"

(* What clients and auditors are told has happened: tokens are sent and    *)
(* the login is audited only once their row is stored, a refused login or  *)
(* refresh stored none, account_locked is written by a wrong guess, and    *)
(* admin actions are audited for admins only.                              *)
RepliesAndAuditAgree ==
  /\ \A r \in Requests : call[r].kind \in {"login", "refresh"} =>
       (reply[r] = "ok" <=> refresh[r] # "none")
  /\ \A row \in audit :
       LET r == row[2] IN
       /\ row[1] \in {"login", "refresh"} => holder[r] = row[3]
       /\ row[1] \in {"failed_login", "token_refresh_failed"} => holder[r] = Nobody
       /\ row[1] = "account_locked" => seen[r].password # call[r].password
       /\ row[1] \in {"unlock", "delete"} => Owner(r) \in Admins
       /\ row[1] \in {"register", "account.auto_created"} => users[row[3]].state # "absent"

(* An admin unlocks a locked user: no failed login does.                   *)
GuessNeverUnlocks ==
  [][\A r \in Requests : pc[r] = "saveFailure" /\ pc'[r] # pc[r] =>
       (users[E(r)].locked => users'[E(r)].locked)]_vars
=============================================================================
