-------------------------- MODULE CustomerAccounts --------------------------
(***************************************************************************)
(* Customers and the opening, listing, handing over and deletion of their  *)
(* accounts: customer_profile_service.go, account_association_service.go,  *)
(* customer_search_service.go, the opening half of account_service.go and  *)
(* the handlers and repositories under them.                               *)
(*                                                                         *)
(* One request is one handler goroutine, one action one SQL statement with *)
(* the Go code up to the next; a service is one operator with a disjunct   *)
(* per statement.  The middleware has admitted the caller (AuthSessions).  *)
(* An account is named by the request that inserts it and its type.  What  *)
(* AccountService saves meanwhile is Elsewhere.                            *)
(***************************************************************************)
EXTENDS Integers, FiniteSetsExt, ErrorCodes

CONSTANTS
  Users,          \* ids of rows of users, inserted or not
  Admins,         \* the users with role admin
  Emails,
  Numbers,        \* account numbers
  Requests,       \* handler goroutines
  Calls,          \* the calls clients may make
  FirstUsers,     \* table users when the requests arrive
  FirstAccounts,  \* table accounts when the requests arrive
  Schemas,        \* the schemas the database may have, see Schema
  Deposits,       \* balances NorthWind may report
  Balances,       \* balances other accounts are given; bounds what money does
  Faults          \* {"error"}: any statement may fail; {}: none does

Types == {"CHECKING", "SAVINGS", "MONEY_MARKET"}
Statuses == {"active", "inactive", "closed"}
UserRow == [state : {"absent", "live", "deleted"}, email : Emails,
            name : {"old", "new"}]
AccountIds == (Requests \X Types) \union DOMAIN FirstAccounts
AccountRow == [owner : Users, type : Types, number : Numbers,
               routing : {"", "given"}, balance : Nat, status : Statuses,
               deleted : BOOLEAN]

\* The account types the CHECK constraint admits, and whether routing_number
\* has the unique index of the model: migrations and AutoMigrate differ.
Schema == [types : SUBSET Types, routingUnique : BOOLEAN]

Kinds == {"search", "profile", "createCustomer", "updateProfile", "updateEmail",
          "delete", "list", "createFor", "transfer", "open", "newAccounts",
          "account", "myProfile", "myAccounts"}
\* user: whom the call is about; to: the new owner; fields: which columns the
\* update names; only the fields the route has are meaningful.
Call == [kind : Kinds, user : Users, to : Users, email : Emails,
         account : DOMAIN FirstAccounts, type : Types \union {"other"},
         number : Numbers, fields : {"name", "contact"}]

ASSUME ConstantsAssumption ==
  /\ Admins \subseteq Users
  /\ (Requests \X Types) \intersect DOMAIN FirstAccounts = {}
  /\ Numbers # {} /\ Call # {}
  /\ FirstUsers \in [Users -> UserRow]
  /\ FirstAccounts \in [DOMAIN FirstAccounts -> AccountRow]
  /\ IsFiniteSet(DOMAIN FirstAccounts)
  /\ Calls \subseteq Call
  /\ Schemas \subseteq Schema
  /\ Deposits \subseteq Int
  /\ Balances \subseteq Nat
  /\ Faults \subseteq {"error"}

\* The unique indexes hold of the rows there are when the requests arrive, and
\* no live account is left of a customer deleted before.
ASSUME FirstTablesAssumption ==
  /\ \A u, v \in {w \in Users : FirstUsers[w].state # "absent"} :
       FirstUsers[u].email = FirstUsers[v].email => u = v
  /\ \A a, b \in DOMAIN FirstAccounts :
       FirstAccounts[a].number = FirstAccounts[b].number => a = b
  /\ \A a \in DOMAIN FirstAccounts :
       FirstUsers[FirstAccounts[a].owner].state = "deleted" => FirstAccounts[a].deleted

VARIABLES
  schema,    \* chosen when the database is set up
  users, accounts,
  audit,     \* <<action, request>>
  pc, call,
  number,    \* number[r]: the account number r generated
  deposit,   \* deposit[r]: the balance NorthWind reported to r
  shown,     \* shown[r]: the users r found, or the accounts its answer lists
  reply,     \* reply[r]: "ok", an error code, or "none" before the answer
  raced,     \* history: accounts changed while their owner was being deleted
  late,      \* history: accounts inserted for an owner already deleted
  restored   \* history: deleted accounts that AccountService saved again

history == <<raced, late, restored>>
vars == <<schema, users, accounts, audit, pc, call, number, deposit, shown,
          reply, raced, late, restored>>

U(r) == call[r].user
At(r, p) == pc[r] = p
Goto(r, p) == pc' = [pc EXCEPT ![r] = p] /\ UNCHANGED reply

-----------------------------------------------------------------------------
(* The handlers: the code each answers for an unreadable id or body, for a  *)
(* body the validator refuses, and for each error of its service it knows;  *)
(* any other error is a system error.                                       *)

SearchCustomersHandler ==
  [ok |-> "ok", badBody |-> "ValidationGeneral", invalid |-> "ValidationGeneral"]
GetProfileHandler ==
  [ok |-> "ok", badId |-> "CustomerInvalidID", customerNotFound |-> "CustomerNotFound"]
GetMyProfileHandler == [ok |-> "ok", customerNotFound |-> "CustomerNotFound"]
CreateCustomerHandler ==
  [ok |-> "ok", badBody |-> "ValidationGeneral", invalid |-> "ValidationInvalidFormat",
   emailAlreadyExists |-> "CustomerAlreadyExists"]
UpdateCustomerProfileHandler ==
  [ok |-> "ok", badId |-> "CustomerInvalidID", badBody |-> "ValidationGeneral",
   invalid |-> "ValidationGeneral", customerNotFound |-> "CustomerNotFound"]
UpdateMyEmailHandler ==
  [ok |-> "ok", badBody |-> "ValidationGeneral", invalid |-> "ValidationInvalidFormat",
   emailAlreadyExists |-> "CustomerAlreadyExists",
   customerNotFound |-> "CustomerNotFound"]
DeleteCustomerHandler ==
  [ok |-> "ok", badId |-> "CustomerInvalidID", customerNotFound |-> "CustomerNotFound",
   customerHasBalance |-> "AccountOperationNotPermitted"]
GetCustomerAccountsHandler ==
  [ok |-> "ok", badId |-> "CustomerInvalidID", customerNotFound |-> "CustomerNotFound"]
GetMyAccountsHandler == [ok |-> "ok", customerNotFound |-> "CustomerNotFound"]
CreateAccountForCustomerHandler ==
  [ok |-> "ok", badId |-> "CustomerInvalidID", badBody |-> "ValidationGeneral",
   invalid |-> "ValidationInvalidFormat", customerNotFound |-> "CustomerNotFound"]
TransferAccountOwnershipHandler ==
  [ok |-> "ok", badBody |-> "ValidationGeneral", invalid |-> "ValidationInvalidFormat",
   customerNotFound |-> "CustomerNotFound", badId |-> "AccountInvalidNumber",
   accountNotFound |-> "AccountNotFound"]
\* The middleware has read the body before the handler does.
RequireAuthAccountHandler ==
  [badBody |-> "ValidationGeneral", northwindError |-> "NorthWindAccountError",
   northwindUnknown |-> "NorthWindAccountNotFound"]
CreateAccountHandler ==
  [ok |-> "ok", invalid |-> "ValidationGeneral",
   accountAlreadyExists |-> "ValidationGeneral",
   invalidAmount |-> "TransactionInvalidAmount"]
GetAccountHandler ==
  [ok |-> "ok", badId |-> "ValidationInvalidFormat", accountNotFound |-> "AccountNotFound",
   unauthorized |-> "AuthInsufficientPermission"]

Handler ==
  [search |-> SearchCustomersHandler, profile |-> GetProfileHandler,
   createCustomer |-> CreateCustomerHandler,
   updateProfile |-> UpdateCustomerProfileHandler,
   updateEmail |-> UpdateMyEmailHandler, delete |-> DeleteCustomerHandler,
   list |-> GetCustomerAccountsHandler,
   createFor |-> CreateAccountForCustomerHandler,
   transfer |-> TransferAccountOwnershipHandler,
   open |-> [err \in DOMAIN RequireAuthAccountHandler \union DOMAIN CreateAccountHandler |->
               IF err \in DOMAIN RequireAuthAccountHandler
               THEN RequireAuthAccountHandler[err] ELSE CreateAccountHandler[err]],
   newAccounts |-> [ok |-> "ok"], account |-> GetAccountHandler,
   myProfile |-> GetMyProfileHandler, myAccounts |-> GetMyAccountsHandler]

\* SendError for a known error, else SendSystemError
Answer(r, err) ==
  LET h == Handler[call[r].kind]
  IN reply' = [reply EXCEPT ![r] = IF err \in DOMAIN h THEN h[err]
                                   ELSE "SystemInternalError"]
Return(r, err) == pc' = [pc EXCEPT ![r] = "done"] /\ Answer(r, err)

FirstStatement ==
  [search |-> "search", profile |-> "findUser", createCustomer |-> "findEmail",
   updateProfile |-> "findUser", updateEmail |-> "findEmail",
   delete |-> "findUser", list |-> "findUser", createFor |-> "findUser",
   transfer |-> "findAccount", open |-> "northwind",
   newAccounts |-> "number", account |-> "findAccount",
   myProfile |-> "findUser", myAccounts |-> "findUser"]

\* BeforeCreate draws the id of a new user: no call names it earlier.
Created(u) == \E c \in Calls : c.kind = "createCustomer" /\ c.user = u
IdIsKnown(c) ==
  c.kind = "createCustomer" \/ users[c.user].state # "absent" \/ ~Created(c.user)

\* Bind and Validate, then the checks the service makes before any statement
Start(r) ==
  /\ At(r, "idle")
  /\ \E c \in Calls :
       /\ IdIsKnown(c)
       /\ call' = [call EXCEPT ![r] = c]
       /\ \/ Goto(r, FirstStatement[c.kind])
          \/ \E flaw \in DOMAIN Handler[c.kind] \intersect {"badId", "badBody", "invalid"} :
               /\ pc' = [pc EXCEPT ![r] = "done"]
               /\ reply' = [reply EXCEPT ![r] = Handler[c.kind][flaw]]
  /\ UNCHANGED <<schema, users, accounts, audit, number, deposit, shown, history>>

-----------------------------------------------------------------------------
(* The statements: a query sees only rows that are not deleted, a unique    *)
(* index all rows.                                                          *)

Live(u) == users[u].state = "live"
LiveAccounts == {a \in DOMAIN accounts : ~accounts[a].deleted}
AccountsOf(u) == {a \in LiveAccounts : accounts[a].owner = u}
GetByEmail(e) == {u \in Users : Live(u) /\ users[u].email = e}
GetByEmailExcluding(e, u) == GetByEmail(e) \ {u}
EmailIsFree(e, u) ==
  \A v \in Users \ {u} : users[v].state # "absent" => users[v].email # e

\* Slip: account_number has no unique index.
InsertableByType(row) == row.type \in schema.types

\* Create: the CHECK and UNIQUE constraints of accounts
Insertable(row) ==
  /\ row.type \in schema.types
  /\ \A a \in DOMAIN accounts :
       /\ accounts[a].number # row.number
       /\ schema.routingUnique => row.routing = "given" \/ accounts[a].routing # ""

\* BeforeCreate, Validate
NewAccount(owner, type, n, routing, balance) ==
  [owner |-> owner, type |-> type, number |-> n, routing |-> routing,
   balance |-> balance, status |-> "active", deleted |-> FALSE]

ExistsForUser(u, type) ==
  \E a \in AccountsOf(u) : accounts[a].type = type /\ accounts[a].status # "closed"
GetByUserIDExcludingStatus(u, status) ==
  {a \in AccountsOf(u) : accounts[a].status # status}
\* Slip: the sum leaves out the accounts that count.
TotalOfInactive(u) ==
  MapThenSumSet(LAMBDA a : accounts[a].balance,
                {a \in AccountsOf(u) : accounts[a].status # "active"})
GetTotalBalanceByUserID(u) ==
  MapThenSumSet(LAMBDA a : accounts[a].balance,
                {a \in AccountsOf(u) : accounts[a].status = "active"})

\* Ten tries of a random number of the type, against the rows not deleted;
\* the mutex is released before the caller inserts.
GenerateUniqueAccountNumber(r, next) ==
  LET taken == {accounts[a].number : a \in LiveAccounts} IN
  /\ \/ \E n \in Numbers \ taken : number' = [number EXCEPT ![r] = n] /\ Goto(r, next)
     \/ taken # {} /\ Return(r, "noNumber") /\ UNCHANGED number
  /\ UNCHANGED <<schema, users, accounts, audit, call, deposit, shown, history>>

\* Users a deletion has found without money, and not yet cut off.
BeingDeleted == {U(r) : r \in {q \in Requests : call[q].kind = "delete"
                                 /\ pc[q] \in {"deleteUser", "deleteAccounts"}}}
Raced(as) == raced' = raced \union {a \in as : accounts'[a].owner \in BeingDeleted}

InsertAccount(r, row) ==
  LET a == <<r, row.type>> IN
  /\ accounts' = [b \in DOMAIN accounts \union {a} |->
                    IF b = a THEN row ELSE accounts[b]]
  /\ Raced({a})
  /\ late' = IF Live(row.owner) THEN late ELSE late \union {a}
  /\ UNCHANGED restored

Read == <<schema, users, accounts, audit, call, number, deposit, history>>
Silent == <<schema, number, deposit, shown, call>>

-----------------------------------------------------------------------------
(* customer_profile_service.go *)

GetCustomerProfile(r) ==
  /\ call[r].kind \in {"profile", "myProfile"} /\ At(r, "findUser")
  /\ Return(r, IF Live(U(r)) THEN "ok" ELSE "customerNotFound")
  /\ UNCHANGED <<Read, shown>>

\* Create answers a lost race with ErrUserAlreadyExists, which this service
\* does not know.
CreateCustomer(r) ==
  /\ call[r].kind = "createCustomer"
  /\ \/ /\ At(r, "findEmail")
        /\ IF GetByEmail(call[r].email) # {} THEN Return(r, "emailAlreadyExists")
           ELSE Goto(r, "insertUser")
        /\ UNCHANGED users
     \/ /\ At(r, "insertUser")
        /\ IF EmailIsFree(call[r].email, U(r)) /\ users[U(r)].state = "absent"
           THEN /\ users' = [users EXCEPT ![U(r)] =
                      [state |-> "live", email |-> call[r].email, name |-> "old"]]
                /\ Return(r, "ok")
           ELSE Return(r, "userAlreadyExists") /\ UNCHANGED users
  /\ UNCHANGED <<Silent, accounts, audit, history>>

\* Table users has no column for phone, address, city, state and zip code.
UpdateCustomerProfile(r) ==
  /\ call[r].kind = "updateProfile"
  /\ \/ /\ At(r, "findUser")
        /\ IF Live(U(r)) THEN Goto(r, "updateFields") ELSE Return(r, "customerNotFound")
        /\ UNCHANGED users
     \/ /\ At(r, "updateFields")
        /\ CASE call[r].fields = "contact" -> Return(r, "noColumn") /\ UNCHANGED users
             [] call[r].fields # "contact" /\ ~Live(U(r)) ->
                  Return(r, "customerNotFound") /\ UNCHANGED users
             [] OTHER -> /\ users' = [users EXCEPT ![U(r)].name = "new"]
                         /\ Return(r, "ok")
  /\ UNCHANGED <<Silent, accounts, audit, history>>

UpdateCustomerEmail(r) ==
  /\ call[r].kind = "updateEmail"
  /\ \/ /\ At(r, "findEmail")
        /\ IF GetByEmailExcluding(call[r].email, U(r)) # {}
           THEN Return(r, "emailAlreadyExists") ELSE Goto(r, "findUser")
        /\ UNCHANGED users
     \/ /\ At(r, "findUser")
        /\ IF Live(U(r)) THEN Goto(r, "updateEmail") ELSE Return(r, "customerNotFound")
        /\ UNCHANGED users
     \/ /\ At(r, "updateEmail")
        /\ CASE ~Live(U(r)) -> Return(r, "customerNotFound") /\ UNCHANGED users
             [] Live(U(r)) /\ ~EmailIsFree(call[r].email, U(r)) ->
                  Return(r, "emailAlreadyExists") /\ UNCHANGED users
             [] OTHER -> /\ users' = [users EXCEPT ![U(r)].email = call[r].email]
                         /\ Return(r, "ok")
  /\ UNCHANGED <<Silent, accounts, audit, history>>

\* Slip: the cascade takes the active accounts only.
SoftDeleteActive(u) ==
  accounts' = [a \in DOMAIN accounts |->
                 IF a \in AccountsOf(u) /\ accounts[a].status = "active"
                 THEN [accounts[a] EXCEPT !.deleted = TRUE] ELSE accounts[a]]

\* Delete of the second statement marks the rows; the status update of the
\* third is refused by BeforeUpdate on an empty Account, unnoticed.
SoftDeleteByUserID(u) ==
  accounts' = [a \in DOMAIN accounts |->
                 IF a \in AccountsOf(u) THEN [accounts[a] EXCEPT !.deleted = TRUE]
                 ELSE accounts[a]]

DeleteCustomer(r) ==
  /\ call[r].kind = "delete"
  /\ \/ /\ At(r, "findUser")
        /\ IF Live(U(r)) THEN Goto(r, "sumBalances") ELSE Return(r, "customerNotFound")
        /\ UNCHANGED <<users, accounts>>
     \/ /\ At(r, "sumBalances")
        /\ IF GetTotalBalanceByUserID(U(r)) = 0 THEN Goto(r, "deleteUser")
           ELSE Return(r, "customerHasBalance")
        /\ UNCHANGED <<users, accounts>>
     \/ /\ At(r, "deleteUser")
        /\ IF Live(U(r))
           THEN users' = [users EXCEPT ![U(r)].state = "deleted"] /\ Goto(r, "deleteAccounts")
           ELSE Return(r, "customerNotFound") /\ UNCHANGED users
        /\ UNCHANGED accounts
     \/ /\ At(r, "deleteAccounts")
        /\ SoftDeleteByUserID(U(r)) /\ Return(r, "ok") /\ UNCHANGED users
  /\ UNCHANGED <<Silent, audit, history>>

-----------------------------------------------------------------------------
(* account_association_service.go *)

GetCustomerAccounts(r) ==
  /\ call[r].kind \in {"list", "myAccounts"}
  /\ \/ /\ At(r, "findUser")
        /\ IF Live(U(r)) THEN Goto(r, "list") ELSE Return(r, "customerNotFound")
        /\ UNCHANGED shown
     \/ /\ At(r, "list")
        /\ shown' = [shown EXCEPT ![r] = GetByUserIDExcludingStatus(U(r), "closed")]
        /\ Return(r, "ok")
  /\ UNCHANGED Read

\* No check that the customer has none of the type yet.  A failed audit is
\* logged only (StatementFails).
CreateAccountForCustomer(r) ==
  /\ call[r].kind = "createFor"
  /\ \/ /\ At(r, "findUser")
        /\ CASE call[r].type = "other" -> Return(r, "invalidAccountType")
             [] call[r].type # "other" /\ ~Live(U(r)) -> Return(r, "customerNotFound")
             [] OTHER -> Goto(r, "number")
        /\ UNCHANGED <<schema, users, accounts, audit, call, number, deposit, shown, history>>
     \/ At(r, "number") /\ GenerateUniqueAccountNumber(r, "insert")
     \/ /\ At(r, "insert")
        /\ LET row == NewAccount(U(r), call[r].type, number[r], "", 0) IN
           IF Insertable(row) THEN InsertAccount(r, row) /\ Goto(r, "audit")
           ELSE Return(r, "duplicate") /\ UNCHANGED <<accounts, history>>
        /\ UNCHANGED <<Silent, users, audit>>
     \/ /\ At(r, "audit")
        /\ audit' = audit \union {<<"account_created", r>>}
        /\ Return(r, "ok")
        /\ UNCHANGED <<Silent, users, accounts, history>>

\* Update runs BeforeUpdate on the Model value, an Account with nothing but
\* its id, and Validate refuses it: the row is never written.
UpdateOwnership(r) == Return(r, "userIdRequired") /\ UNCHANGED accounts

TransferAccountOwnership(r) ==
  /\ call[r].kind = "transfer"
  /\ \/ /\ At(r, "findAccount")
        /\ CASE U(r) = call[r].to -> Return(r, "sameCustomer")
             [] U(r) # call[r].to /\ call[r].account \notin LiveAccounts ->
                  Return(r, "accountNotFound")
             [] U(r) # call[r].to /\ call[r].account \in LiveAccounts ->
                  IF accounts[call[r].account].owner # U(r)
                  THEN Return(r, "fromCustomerMismatch") ELSE Goto(r, "findUser")
        /\ UNCHANGED accounts
     \/ /\ At(r, "findUser")
        /\ IF Live(U(r)) THEN Goto(r, "findTo") ELSE Return(r, "customerNotFound")
        /\ UNCHANGED accounts
     \/ /\ At(r, "findTo")
        /\ IF Live(call[r].to) THEN Goto(r, "update") ELSE Return(r, "customerNotFound")
        /\ UNCHANGED accounts
     \/ At(r, "update") /\ UpdateOwnership(r)
  /\ UNCHANGED <<Silent, users, audit, history>>

-----------------------------------------------------------------------------
(* account_service.go *)

\* RequireAuthAccount asks NorthWind: an error, an answer without data (its
\* logging dereferences nil and the request panics), an unknown account, or
\* a balance, which becomes the initial deposit.
AuthAccount(r) ==
  /\ At(r, "northwind")
  /\ \/ \E err \in {"northwindError", "panic", "northwindUnknown"} :
           Return(r, err) /\ UNCHANGED deposit
     \/ \E d \in Deposits :
           deposit' = [deposit EXCEPT ![r] = d] /\ Goto(r, "findUser")
  /\ UNCHANGED <<schema, users, accounts, audit, call, number, shown, history>>

\* No ledger row is written for the initial deposit.
CreateAccount(r) ==
  /\ call[r].kind = "open"
  /\ \/ /\ At(r, "findUser")
        /\ IF Live(U(r)) THEN Goto(r, "exists") ELSE Return(r, "userNotFound")
        /\ UNCHANGED <<accounts, audit, history>>
     \/ /\ At(r, "exists")
        /\ CASE ExistsForUser(U(r), call[r].type) -> Return(r, "accountAlreadyExists")
             [] ~ExistsForUser(U(r), call[r].type) /\ deposit[r] < 0 ->
                  Return(r, "invalidAmount")
             [] OTHER -> Goto(r, "insert")
        /\ UNCHANGED <<accounts, audit, history>>
     \/ /\ At(r, "insert")
        /\ LET row == NewAccount(U(r), call[r].type, call[r].number, "given", deposit[r])
           IN IF Insertable(row) THEN InsertAccount(r, row) /\ Goto(r, "audit")
              ELSE Return(r, "duplicate") /\ UNCHANGED <<accounts, history>>
        /\ UNCHANGED audit
     \/ /\ At(r, "audit")
        /\ audit' = audit \union {<<"account.created", r>>}
        /\ Return(r, "ok")
        /\ UNCHANGED <<accounts, history>>
  /\ UNCHANGED <<Silent, users>>

\* CreateWithTransaction of a new user's account, whose seeded ledger ends at
\* the balance
CreateAccountWithSampleData(r, type, next) ==
  /\ \E b \in Balances :
       LET row == NewAccount(U(r), type, number[r], "", b) IN
       IF Insertable(row)
       THEN InsertAccount(r, row)
            /\ IF next = "done" THEN Return(r, "ok") ELSE Goto(r, next)
       ELSE Return(r, "failed") /\ UNCHANGED <<accounts, history>>
  /\ UNCHANGED <<Silent, users, audit>>

CreateAccountsForNewUser(r) ==
  /\ call[r].kind = "newAccounts"
  /\ \/ At(r, "number") /\ GenerateUniqueAccountNumber(r, "checking")
     \/ At(r, "checking") /\ CreateAccountWithSampleData(r, "CHECKING", "number2")
     \/ At(r, "number2") /\ GenerateUniqueAccountNumber(r, "savings")
     \/ At(r, "savings") /\ CreateAccountWithSampleData(r, "SAVINGS", "done")

\* Slip: whoever exists may see the account.
ShowToAnyUser(r) ==
  /\ call[r].kind = "account" /\ At(r, "findAccount")
  /\ shown' = [shown EXCEPT ![r] = {call[r].account}]
  /\ Return(r, "ok")
  /\ UNCHANGED Read

GetAccountByID(r) ==
  /\ call[r].kind = "account"
  /\ \/ /\ At(r, "findAccount")
        /\ CASE call[r].account \notin LiveAccounts -> Return(r, "accountNotFound") /\ UNCHANGED shown
             [] call[r].account \in AccountsOf(U(r)) ->
                  /\ shown' = [shown EXCEPT ![r] = {call[r].account}]
                  /\ Return(r, "ok")
             [] OTHER -> Goto(r, "findUser") /\ UNCHANGED shown
     \/ /\ At(r, "findUser")
        /\ IF Live(U(r)) /\ U(r) \in Admins
           THEN shown' = [shown EXCEPT ![r] = {call[r].account}] /\ Return(r, "ok")
           ELSE Return(r, "unauthorized") /\ UNCHANGED shown
  /\ UNCHANGED Read

-----------------------------------------------------------------------------
(* customer_search_service.go: the handler searches by e-mail only; the     *)
(* accounts are counted by a statement of their own for each user found.    *)

SearchUsers(q) == GetByEmail(q)
CountAccountsByUserID(u) == AccountsOf(u)

SearchCustomers(r) ==
  /\ call[r].kind = "search"
  /\ \/ /\ At(r, "search")
        /\ shown' = [shown EXCEPT ![r] = SearchUsers(call[r].email)]
        /\ IF SearchUsers(call[r].email) = {} THEN Return(r, "ok") ELSE Goto(r, "count")
     \/ /\ At(r, "count")
        /\ shown' = [shown EXCEPT ![r] = UNION {CountAccountsByUserID(u) : u \in @}]
        /\ Return(r, "ok")
  /\ UNCHANGED Read

-----------------------------------------------------------------------------
\* Any statement may fail: the error is answered, except that a failed audit
\* is only logged, and that GetAccountByID takes a failed lookup of the
\* caller for a caller who may not see the account.
StatementFails(r) ==
  /\ "error" \in Faults
  /\ pc[r] \notin {"idle", "northwind", "done"}
  /\ Return(r, CASE At(r, "audit") -> "ok"
                 [] At(r, "findUser") /\ call[r].kind = "account" -> "unauthorized"
                 [] OTHER -> "databaseError")
  /\ UNCHANGED <<Read, shown>>

\* No request has read these.
DeletedBefore == {a \in DOMAIN FirstAccounts : FirstAccounts[a].deleted}

\* AccountService saves a whole row that it read earlier, whatever has become
\* of it: a balance and a status of then, a closed account opened again, and
\* if the row is deleted, Save inserts it over the deleted one.
Elsewhere ==
  /\ \E a \in DOMAIN accounts \ DeletedBefore, b \in Balances, s \in Statuses :
       /\ accounts' = [accounts EXCEPT ![a] =
                         [@ EXCEPT !.balance = b, !.status = s, !.deleted = FALSE]]
       /\ restored' = IF accounts[a].deleted THEN restored \union {a} ELSE restored
       /\ Raced({a})
  /\ UNCHANGED <<Silent, users, audit, pc, reply, late>>

Init ==
  /\ schema \in Schemas
  /\ users = FirstUsers
  /\ accounts = FirstAccounts
  /\ audit = {} /\ raced = {} /\ late = {} /\ restored = {}
  /\ pc = [r \in Requests |-> "idle"]
  /\ call = [r \in Requests |-> CHOOSE c \in Call : TRUE]
  /\ number = [r \in Requests |-> CHOOSE n \in Numbers : TRUE]
  /\ deposit = [r \in Requests |-> 0]
  /\ shown = [r \in Requests |-> {}]
  /\ reply = [r \in Requests |-> "none"]

Serve(r) ==
  \/ GetCustomerProfile(r) \/ CreateCustomer(r) \/ UpdateCustomerProfile(r)
  \/ UpdateCustomerEmail(r) \/ DeleteCustomer(r) \/ GetCustomerAccounts(r)
  \/ CreateAccountForCustomer(r) \/ TransferAccountOwnership(r)
  \/ AuthAccount(r) \/ CreateAccount(r) \/ CreateAccountsForNewUser(r)
  \/ GetAccountByID(r) \/ SearchCustomers(r)

Next ==
  \/ \E r \in Requests : Start(r) \/ Serve(r) \/ StatementFails(r)
  \/ Elsewhere
  \/ (\A r \in Requests : pc[r] = "done") /\ UNCHANGED vars

Spec == Init /\ [][Next]_vars
=============================================================================
