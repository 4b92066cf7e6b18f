----------------------- MODULE CustomerAccountsProofs -----------------------
(***************************************************************************)
(* Proofs about CustomerAccounts for every value of its constants.         *)
(***************************************************************************)
EXTENDS CustomerAccountsProperties, FiniteSums

TablesOK ==
  /\ KeysAreUnique
  /\ users \in [Users -> UserRow]
  /\ DOMAIN accounts \subseteq AccountIds
  /\ \A a \in DOMAIN accounts : accounts[a] \in AccountRow

LocalsOK ==
  /\ schema \in Schemas
  /\ call \in [Requests -> Call]
  /\ number \in [Requests -> Numbers]
  /\ deposit \in [Requests -> Int]
  /\ reply \in [Requests -> Codes \union {"none", "ok"}]
  /\ DOMAIN pc = Requests

\* A call answers last, and opens an account with the balance it has checked.
CallInv ==
  \A r \in Requests :
    /\ reply[r] # "none" => At(r, "done")
    /\ call[r].kind = "open" /\ At(r, "insert") => deposit[r] >= 0

-----------------------------------------------------------------------------
(* What any step may do *)

\* to the rows of accounts: none of number and owner changes, and one that is
\* deleted comes back only where the history says so
RowsKept ==
  /\ DOMAIN accounts' = DOMAIN accounts
  /\ \A a \in DOMAIN accounts :
       /\ accounts'[a] \in AccountRow
       /\ accounts'[a].number = accounts[a].number
       /\ accounts'[a].owner = accounts[a].owner
       /\ accounts[a].deleted => accounts'[a].deleted \/ a \in restored'

RowInserted ==
  \E r \in Requests, row \in AccountRow :
    /\ Insertable(row) /\ row.type \in Types
    /\ accounts' = [a \in DOMAIN accounts \union {<<r, row.type>>} |->
                      IF a = <<r, row.type>> THEN row ELSE accounts[a]]
    /\ UNCHANGED users
    /\ ~Live(row.owner) => <<r, row.type>> \in late'

\* to the rows of users: one row changes, to an e-mail that is free
UserKept(u) ==
  /\ users'[u].email = users[u].email
  /\ users'[u].state = users[u].state
UserChanged(u) ==
  /\ users' \in [Users -> UserRow]
  /\ \A v \in Users \ {u} : UserKept(v)
  /\ \/ users'[u].email = users[u].email /\ users[u].state # "absent"
     \/ EmailIsFree(users'[u].email, u)
  /\ users'[u].state # "deleted"
  /\ users[u].state # "deleted"

UserDeleted(u) ==
  /\ users[u].state = "live"
  /\ users' = [users EXCEPT ![u].state = "deleted"]
  /\ \E r \in Requests : /\ call[r].kind = "delete" /\ U(r) = u /\ call' = call
                         /\ pc'[r] = "deleteAccounts"

\* to a call that has been answered, or has deleted its customer
CallKept(r) ==
  /\ reply[r] # "none" => reply'[r] = reply[r] /\ call'[r] = call[r]
  /\ call[r].kind = "delete" /\ At(r, "deleteAccounts") =>
       /\ call'[r] = call[r]
       /\ \/ pc'[r] = "deleteAccounts"
          \/ reply'[r] = "SystemInternalError"
          \/ SoftDeleteByUserID(U(r))

Shape ==
  /\ LocalsOK' /\ CallInv'
  /\ RowsKept \/ RowInserted
  /\ UNCHANGED users \/ \E u \in Users : UserChanged(u) \/ UserDeleted(u)
  /\ \A r \in Requests : CallKept(r)

\* Every error of every handler has a registered code.
LEMMA Codings ==
  \A kind \in Kinds : \A err \in DOMAIN Handler[kind] :
    Handler[kind][err] \in Codes \union {"ok"}
  BY DEF Kinds, Handler, SearchCustomersHandler, GetProfileHandler, GetMyProfileHandler,
         CreateCustomerHandler, UpdateCustomerProfileHandler, UpdateMyEmailHandler,
         DeleteCustomerHandler, GetCustomerAccountsHandler, GetMyAccountsHandler,
         CreateAccountForCustomerHandler, TransferAccountOwnershipHandler,
         RequireAuthAccountHandler, CreateAccountHandler, GetAccountHandler, Codes,
         BadRequest, Unauthorized, Forbidden, NotFound, Conflict, Unprocessable,
         ServerErrors, Northwind

\* An answer is a code and ends the call.
LEMMA Answers ==
  ASSUME LocalsOK, NEW r \in Requests, NEW err, Return(r, err)
  PROVE  /\ pc' = [pc EXCEPT ![r] = "done"]
         /\ reply' \in [Requests -> Codes \union {"none", "ok"}]
         /\ \E a \in Codes \union {"ok"} : reply' = [reply EXCEPT ![r] = a]
  <1>1. call[r].kind \in Kinds
    BY DEF LocalsOK, Call
  <1>2. "SystemInternalError" \in Codes
    BY DEF Codes, ServerErrors
  <1>3. PICK a \in Codes \union {"ok"} : reply' = [reply EXCEPT ![r] = a]
    BY <1>1, <1>2, Codings DEF Return, Answer
  <1> QED BY <1>3 DEF Return, LocalsOK

\* A call with an answer is told apart from one without.
LEMMA NoneIsNoAnswer == "none" \notin Codes \union {"ok"}
  BY DEF Codes, BadRequest, Unauthorized, Forbidden, NotFound, Conflict, Unprocessable,
         ServerErrors, Northwind

\* r is answered or goes on to its next statement, which leaves calls alone
Proceeds(r) ==
  /\ ~At(r, "done") /\ ~(call[r].kind = "delete" /\ At(r, "deleteAccounts"))
  /\ \/ \E err : Return(r, err)
     \/ \E p : Goto(r, p) /\ (call[r].kind = "open" /\ p = "insert" => deposit'[r] >= 0)
  /\ UNCHANGED <<schema, call>>
  /\ number' \in [Requests -> Numbers] /\ deposit' \in [Requests -> Int]
  /\ \A q \in Requests \ {r} : deposit'[q] = deposit[q]

\* What a step that proceeds leaves true of every call.
LEMMA Proceeding ==
  ASSUME LocalsOK, CallInv, NEW r \in Requests, Proceeds(r)
  PROVE  LocalsOK' /\ CallInv' /\ \A q \in Requests : CallKept(q)
  <1> USE DEF Proceeds, At, U
  <1>1. CASE \E err : Return(r, err)
    <2>1. PICK a \in Codes \union {"ok"} :
            /\ pc' = [pc EXCEPT ![r] = "done"] /\ reply' = [reply EXCEPT ![r] = a]
            /\ reply' \in [Requests -> Codes \union {"none", "ok"}]
      BY <1>1, Answers
    <2>2. LocalsOK'
      BY <2>1 DEF LocalsOK
    <2>3. CallInv'
      BY <2>1 DEF LocalsOK, CallInv
    <2>4. \A q \in Requests : CallKept(q)
      BY <2>1 DEF LocalsOK, CallInv, CallKept
    <2> QED BY <2>2, <2>3, <2>4
  <1>2. ASSUME NEW p, Goto(r, p), call[r].kind = "open" /\ p = "insert" => deposit'[r] >= 0
        PROVE  LocalsOK' /\ CallInv' /\ \A q \in Requests : CallKept(q)
    <2>1. pc' = [pc EXCEPT ![r] = p] /\ UNCHANGED reply
      BY <1>2 DEF Goto
    <2>2. LocalsOK'
      BY <2>1 DEF LocalsOK
    <2>3. CallInv'
      BY <1>2, <2>1 DEF LocalsOK, CallInv
    <2>4. \A q \in Requests : CallKept(q)
      BY <2>1 DEF LocalsOK, CallInv, CallKept
    <2> QED BY <2>2, <2>3, <2>4
  <1> QED BY <1>1, <1>2

\* Every row a call inserts is well formed and the caller's.
Opened(r, row) == row \in AccountRow /\ row.owner = U(r) /\ ~row.deleted

\* The three ways to open an account do.
LEMMA RowsOpened ==
  ASSUME LocalsOK, CallInv, NEW r \in Requests
  PROVE  /\ Insertable(NewAccount(U(r), call[r].type, number[r], "", 0))
              => Opened(r, NewAccount(U(r), call[r].type, number[r], "", 0))
         /\ At(r, "insert") /\ call[r].kind = "open" =>
              (Insertable(NewAccount(U(r), call[r].type, call[r].number, "given", deposit[r]))
               => Opened(r, NewAccount(U(r), call[r].type, call[r].number, "given", deposit[r])))
         /\ \A type \in {"CHECKING", "SAVINGS"}, b \in Balances :
              Opened(r, NewAccount(U(r), type, number[r], "", b))
  <1>0. call[r] \in Call /\ U(r) \in Users /\ deposit[r] \in Int /\ number[r] \in Numbers
        /\ call[r].number \in Numbers
    BY DEF LocalsOK, Call, U
  <1>1. \A row : Insertable(row) => row.type \in Types
    BY ConstantsAssumption DEF Insertable, LocalsOK, Schema
  <1>2. Insertable(NewAccount(U(r), call[r].type, number[r], "", 0))
              => Opened(r, NewAccount(U(r), call[r].type, number[r], "", 0))
    BY <1>0, <1>1 DEF NewAccount, AccountRow, Statuses, Opened
  <1>3. At(r, "insert") /\ call[r].kind = "open" =>
          (Insertable(NewAccount(U(r), call[r].type, call[r].number, "given", deposit[r]))
              => Opened(r, NewAccount(U(r), call[r].type, call[r].number, "given", deposit[r])))
    <2>1. At(r, "insert") /\ call[r].kind = "open" => deposit[r] \in Nat
      BY <1>0 DEF CallInv
    <2> QED BY <1>0, <1>1, <2>1 DEF NewAccount, AccountRow, Statuses, Opened
  <1>4. \A type \in {"CHECKING", "SAVINGS"}, b \in Balances :
          Opened(r, NewAccount(U(r), type, number[r], "", b))
    BY <1>0, ConstantsAssumption DEF NewAccount, AccountRow, Statuses, Types, Opened
  <1> QED BY <1>2, <1>3, <1>4

\* The row AccountService saves differs in balance, status and deleted only.
SavedAgain(a, row) == /\ accounts' = [accounts EXCEPT ![a] = row]
                      /\ row.number = accounts[a].number
                      /\ row.owner = accounts[a].owner
                      /\ ~row.deleted
LEMMA Saving ==
  ASSUME TablesOK, Elsewhere
  PROVE  \E a \in DOMAIN accounts, row \in AccountRow :
           /\ SavedAgain(a, row) /\ Raced({a})
           /\ accounts[a].deleted => a \in restored'
  <1>1. PICK a \in DOMAIN accounts, b \in Balances, s \in Statuses :
          /\ accounts' = [accounts EXCEPT ![a] =
                            [@ EXCEPT !.balance = b, !.status = s, !.deleted = FALSE]]
          /\ restored' = IF accounts[a].deleted THEN restored \union {a} ELSE restored
          /\ Raced({a})
    BY DEF Elsewhere
  <1> DEFINE row == [accounts[a] EXCEPT !.balance = b, !.status = s, !.deleted = FALSE]
  <1>2. accounts[a] \in AccountRow
    BY DEF TablesOK
  <1>3. /\ row \in AccountRow /\ ~row.deleted
        /\ row.number = accounts[a].number /\ row.owner = accounts[a].owner
    BY <1>2, ConstantsAssumption DEF AccountRow
  <1>4. accounts' = [accounts EXCEPT ![a] = row]
    BY <1>1
  <1> HIDE DEF row
  <1> QED BY <1>1, <1>3, <1>4 DEF SavedAgain

\* What the history has noted it keeps.
HistoryGrows == late \subseteq late' /\ restored \subseteq restored'
LEMMA HistoryKept == [Next]_vars => HistoryGrows
  <1> SUFFICES ASSUME [Next]_vars PROVE HistoryGrows
    OBVIOUS
  <1> USE DEF HistoryGrows, history, Silent, Read
  <1>1. ASSUME NEW r \in Requests, NEW row, InsertAccount(r, row) PROVE HistoryGrows
    BY <1>1 DEF InsertAccount
  <1>2. ASSUME NEW r \in Requests, CreateAccountForCustomer(r) PROVE HistoryGrows
    BY <1>1, <1>2 DEF CreateAccountForCustomer, GenerateUniqueAccountNumber
  <1>3. ASSUME NEW r \in Requests, CreateAccount(r) PROVE HistoryGrows
    BY <1>1, <1>3 DEF CreateAccount
  <1>4. ASSUME NEW r \in Requests, CreateAccountsForNewUser(r) PROVE HistoryGrows
    BY <1>1, <1>4 DEF CreateAccountsForNewUser, CreateAccountWithSampleData,
       GenerateUniqueAccountNumber
  <1>5. ASSUME NEW r \in Requests,
               \/ Start(r) \/ StatementFails(r) \/ GetCustomerProfile(r)
               \/ CreateCustomer(r) \/ UpdateCustomerProfile(r) \/ UpdateCustomerEmail(r)
               \/ DeleteCustomer(r) \/ GetCustomerAccounts(r) \/ TransferAccountOwnership(r)
               \/ AuthAccount(r) \/ GetAccountByID(r) \/ SearchCustomers(r)
        PROVE  HistoryGrows
    BY <1>5 DEF Start, StatementFails, GetCustomerProfile, CreateCustomer,
       UpdateCustomerProfile, UpdateCustomerEmail, DeleteCustomer, GetCustomerAccounts,
       TransferAccountOwnership, AuthAccount, GetAccountByID, SearchCustomers
  <1>6. CASE Elsewhere
    BY <1>6 DEF Elsewhere
  <1>7. CASE UNCHANGED vars
    BY <1>7 DEF vars
  <1> QED BY <1>2, <1>3, <1>4, <1>5, <1>6, <1>7 DEF Next, Serve

\* Every action has the shape.
LEMMA Shapes == TablesOK /\ LocalsOK /\ CallInv /\ [Next]_vars => Shape
  <1> SUFFICES ASSUME TablesOK, LocalsOK, CallInv, [Next]_vars PROVE Shape
    OBVIOUS
  <1> USE DEF Goto, At, U, Silent, Read, history
  <1>0. \A r \in Requests : call[r] \in Call /\ U(r) \in Users /\ deposit[r] \in Int
    BY DEF LocalsOK, Call
  <1>r. ASSUME NEW r \in Requests, NEW err, Return(r, err)
        PROVE  /\ pc' = [pc EXCEPT ![r] = "done"]
               /\ reply' \in [Requests -> Codes \union {"none", "ok"}]
               /\ \A q \in Requests \ {r} : reply'[q] = reply[q]
               /\ reply'[r] # "none"
    BY <1>r, Answers, NoneIsNoAnswer DEF LocalsOK
  <1>s. UNCHANGED accounts => RowsKept
    BY DEF RowsKept, TablesOK
  <1>1. ASSUME NEW r \in Requests, Start(r) PROVE Shape
    <2> USE <1>1, <1>0, <1>r DEF Start, Goto
    <2>1. LocalsOK'
      <3>1. PICK c \in Calls : /\ call' = [call EXCEPT ![r] = c]
                               /\ \/ UNCHANGED reply /\ DOMAIN pc' = DOMAIN pc
                                  \/ \E flaw \in DOMAIN Handler[c.kind] :
                                       /\ DOMAIN pc' = DOMAIN pc
                                       /\ reply' = [reply EXCEPT ![r] = Handler[c.kind][flaw]]
        OBVIOUS
      <3>2. c \in Call /\ c.kind \in Kinds
        BY ConstantsAssumption DEF Call
      <3> QED BY <3>1, <3>2, Codings DEF LocalsOK
    <2>2. CallInv'
      <3>1. /\ \A q \in Requests \ {r} : pc'[q] = pc[q] /\ call'[q] = call[q] /\ reply'[q] = reply[q]
            /\ UNCHANGED deposit /\ reply[r] = "none"
            /\ pc'[r] = "done" \/ (reply'[r] = "none" /\ pc'[r] # "insert")
        <4>1. PICK c \in Calls :
                /\ call' = [call EXCEPT ![r] = c]
                /\ \/ pc' = [pc EXCEPT ![r] = FirstStatement[c.kind]] /\ UNCHANGED reply
                   \/ \E a : pc' = [pc EXCEPT ![r] = "done"] /\ reply' = [reply EXCEPT ![r] = a]
          OBVIOUS
        <4>2. c.kind \in Kinds
          BY ConstantsAssumption DEF Call
        <4>3. FirstStatement[c.kind] # "insert"
          BY <4>2 DEF FirstStatement, Kinds
        <4> QED BY <4>1, <4>3 DEF CallInv, LocalsOK
      <3> QED BY <3>1 DEF CallInv
    <2>3. RowsKept \/ RowInserted
      BY <1>s DEF RowInserted
    <2>4. UNCHANGED users \/ \E u \in Users : UserChanged(u) \/ UserDeleted(u)
      BY DEF UserChanged, UserKept, UserDeleted, TablesOK
    <2>5. ASSUME NEW q \in Requests PROVE CallKept(q)
      BY DEF CallKept, CallInv, LocalsOK
    <2> QED BY ONLY <2>1, <2>2, <2>3, <2>4, <2>5 DEF Shape
  <1>2. ASSUME NEW r \in Requests, GetCustomerProfile(r) PROVE Shape
    <2> USE <1>2, <1>0, <1>r DEF GetCustomerProfile
    <2>1. LocalsOK'
      BY DEF LocalsOK
    <2>2. CallInv'
      BY DEF CallInv, LocalsOK
    <2>3. RowsKept \/ RowInserted
      BY <1>s DEF RowInserted
    <2>4. UNCHANGED users \/ \E u \in Users : UserChanged(u) \/ UserDeleted(u)
      BY DEF UserChanged, UserKept, UserDeleted, TablesOK
    <2>5. ASSUME NEW q \in Requests PROVE CallKept(q)
      BY DEF CallKept, CallInv, LocalsOK
    <2> QED BY ONLY <2>1, <2>2, <2>3, <2>4, <2>5 DEF Shape
  <1>3. ASSUME NEW r \in Requests, CreateCustomer(r) PROVE Shape
    <2> USE <1>3, <1>0, <1>r DEF CreateCustomer
    <2>1. LocalsOK'
      BY DEF LocalsOK
    <2>2. CallInv'
      BY DEF CallInv, LocalsOK
    <2>3. RowsKept \/ RowInserted
      BY <1>s DEF RowInserted
    <2>4. UNCHANGED users \/ \E u \in Users : UserChanged(u) \/ UserDeleted(u)
      <3>1. CASE UNCHANGED users
        BY <3>1
      <3>2. CASE /\ EmailIsFree(call[r].email, U(r)) /\ users[U(r)].state = "absent"
                 /\ users' = [users EXCEPT ![U(r)] =
                      [state |-> "live", email |-> call[r].email, name |-> "old"]]
        <4>1. [state |-> "live", email |-> call[r].email, name |-> "old"] \in UserRow
          BY DEF Call, UserRow
        <4>2. UserChanged(U(r))
          BY <3>2, <4>1 DEF UserChanged, UserKept, TablesOK
        <4> QED BY <4>2
      <3> QED BY <3>1, <3>2
    <2>5. ASSUME NEW q \in Requests PROVE CallKept(q)
      BY DEF CallKept, CallInv, LocalsOK
    <2> QED BY ONLY <2>1, <2>2, <2>3, <2>4, <2>5 DEF Shape
  <1>4. ASSUME NEW r \in Requests, UpdateCustomerProfile(r) PROVE Shape
    <2> USE <1>4, <1>0, <1>r DEF UpdateCustomerProfile
    <2>1. LocalsOK'
      BY DEF LocalsOK
    <2>2. CallInv'
      BY DEF CallInv, LocalsOK
    <2>3. RowsKept \/ RowInserted
      BY <1>s DEF RowInserted
    <2>4. UNCHANGED users \/ \E u \in Users : UserChanged(u) \/ UserDeleted(u)
      <3>1. CASE UNCHANGED users
        BY <3>1
      <3>2. CASE Live(U(r)) /\ users' = [users EXCEPT ![U(r)].name = "new"]
        <4>1. /\ users[U(r)] \in UserRow
              /\ [users[U(r)] EXCEPT !.name = "new"] \in UserRow
          BY DEF UserRow, TablesOK
        <4>2. UserChanged(U(r))
          BY <3>2, <4>1 DEF UserChanged, UserKept, TablesOK, Live, UserRow
        <4> QED BY <4>2
      <3> QED BY <3>1, <3>2
    <2>5. ASSUME NEW q \in Requests PROVE CallKept(q)
      BY DEF CallKept, CallInv, LocalsOK
    <2> QED BY ONLY <2>1, <2>2, <2>3, <2>4, <2>5 DEF Shape
  <1>5. ASSUME NEW r \in Requests, UpdateCustomerEmail(r) PROVE Shape
    <2> USE <1>5, <1>0, <1>r DEF UpdateCustomerEmail
    <2>1. LocalsOK'
      BY DEF LocalsOK
    <2>2. CallInv'
      BY DEF CallInv, LocalsOK
    <2>3. RowsKept \/ RowInserted
      BY <1>s DEF RowInserted
    <2>4. UNCHANGED users \/ \E u \in Users : UserChanged(u) \/ UserDeleted(u)
      <3>1. CASE UNCHANGED users
        BY <3>1
      <3>2. CASE /\ Live(U(r)) /\ EmailIsFree(call[r].email, U(r))
                 /\ users' = [users EXCEPT ![U(r)].email = call[r].email]
        <4>1. /\ users[U(r)] \in UserRow
              /\ [users[U(r)] EXCEPT !.email = call[r].email] \in UserRow
          BY DEF UserRow, TablesOK, Call
        <4>2. UserChanged(U(r))
          BY <3>2, <4>1 DEF UserChanged, UserKept, TablesOK, Live, UserRow
        <4> QED BY <4>2
      <3> QED BY <3>1, <3>2
    <2>5. ASSUME NEW q \in Requests PROVE CallKept(q)
      BY DEF CallKept, CallInv, LocalsOK
    <2> QED BY ONLY <2>1, <2>2, <2>3, <2>4, <2>5 DEF Shape
  <1>6. ASSUME NEW r \in Requests, DeleteCustomer(r) PROVE Shape
    <2> USE <1>6, <1>0, <1>r DEF DeleteCustomer, SoftDeleteByUserID
    <2>1. LocalsOK'
      BY DEF LocalsOK
    <2>2. CallInv'
      BY DEF CallInv, LocalsOK
    <2>3. RowsKept \/ RowInserted
      <3>1. CASE SoftDeleteByUserID(U(r))
        <4>1. \A a \in DOMAIN accounts :
                [accounts[a] EXCEPT !.deleted = TRUE] \in AccountRow
          BY DEF TablesOK, AccountRow
        <4> QED BY <3>1, <4>1 DEF RowsKept, SoftDeleteByUserID, TablesOK, AccountRow
      <3> QED BY <1>s, <3>1 DEF SoftDeleteByUserID
    <2>4. UNCHANGED users \/ \E u \in Users : UserChanged(u) \/ UserDeleted(u)
      <3>1. CASE At(r, "deleteUser") /\ Live(U(r))
        <4>1. UserDeleted(U(r))
          BY <3>1 DEF UserDeleted, Live, LocalsOK
        <4> QED BY <4>1
      <3> QED BY <3>1
    <2>5. ASSUME NEW q \in Requests PROVE CallKept(q)
      BY DEF CallKept, CallInv, LocalsOK
    <2> QED BY ONLY <2>1, <2>2, <2>3, <2>4, <2>5 DEF Shape
  <1>7. ASSUME NEW r \in Requests, GetCustomerAccounts(r) PROVE Shape
    <2> USE <1>7, <1>0, <1>r DEF GetCustomerAccounts
    <2>1. LocalsOK'
      BY DEF LocalsOK
    <2>2. CallInv'
      BY DEF CallInv, LocalsOK
    <2>3. RowsKept \/ RowInserted
      BY <1>s DEF RowInserted
    <2>4. UNCHANGED users \/ \E u \in Users : UserChanged(u) \/ UserDeleted(u)
      BY DEF UserChanged, UserKept, UserDeleted, TablesOK
    <2>5. ASSUME NEW q \in Requests PROVE CallKept(q)
      BY DEF CallKept, CallInv, LocalsOK
    <2> QED BY ONLY <2>1, <2>2, <2>3, <2>4, <2>5 DEF Shape
  <1>8. ASSUME NEW r \in Requests, CreateAccountForCustomer(r) PROVE Shape
    <2> USE <1>8, <1>0 DEF CreateAccountForCustomer,
       GenerateUniqueAccountNumber, InsertAccount
    <2>1. Proceeds(r)
      <3>1. CASE At(r, "findUser")
        BY <3>1 DEF Proceeds, LocalsOK, Goto
      <3>2. CASE At(r, "number")
        BY <3>2 DEF Proceeds, LocalsOK, Goto
      <3>3. CASE At(r, "insert")
        BY <3>3 DEF Proceeds, LocalsOK, Goto
      <3>4. CASE At(r, "audit")
        BY <3>4 DEF Proceeds, LocalsOK, Goto
      <3> QED BY <3>1, <3>2, <3>3, <3>4
    <2>2. LocalsOK' /\ CallInv' /\ \A q \in Requests : CallKept(q)
      BY ONLY <2>1, LocalsOK, CallInv, Proceeding
    <2>3. RowsKept \/ RowInserted
      <3>1. CASE UNCHANGED accounts
        BY <3>1, <1>s
      <3>2. CASE /\ At(r, "insert")
                 /\ Insertable(NewAccount(U(r), call[r].type, number[r], "", 0))
                 /\ InsertAccount(r, NewAccount(U(r), call[r].type, number[r], "", 0))
        <4> DEFINE row == NewAccount(U(r), call[r].type, number[r], "", 0)
        <4>1. Insertable(row)
          BY <3>2
        <4>2. row \in AccountRow /\ row.type \in Types
          BY <3>2, RowsOpened DEF Opened, AccountRow
        <4>3. accounts' = [a \in DOMAIN accounts \union {<<r, row.type>>} |->
                             IF a = <<r, row.type>> THEN row ELSE accounts[a]]
          BY <3>2
        <4>4. UNCHANGED users /\ (~Live(row.owner) => <<r, row.type>> \in late')
          BY <3>2
        <4> QED BY ONLY <4>1, <4>2, <4>3, <4>4 DEF RowInserted
      <3> QED BY <3>1, <3>2
    <2>4. UNCHANGED users
      OBVIOUS
    <2> QED BY ONLY <2>2, <2>3, <2>4 DEF Shape
  <1>9. ASSUME NEW r \in Requests, TransferAccountOwnership(r) PROVE Shape
    <2> USE <1>9, <1>0 DEF TransferAccountOwnership, UpdateOwnership
    <2>1. Proceeds(r)
      <3>1. CASE At(r, "findAccount")
        BY <3>1 DEF Proceeds, LocalsOK, Goto
      <3>2. CASE At(r, "findUser")
        BY <3>2 DEF Proceeds, LocalsOK, Goto
      <3>3. CASE At(r, "findTo")
        BY <3>3 DEF Proceeds, LocalsOK, Goto
      <3>4. CASE At(r, "update")
        BY <3>4 DEF Proceeds, LocalsOK, Goto
      <3> QED BY <3>1, <3>2, <3>3, <3>4
    <2>2. LocalsOK' /\ CallInv' /\ \A q \in Requests : CallKept(q)
      BY ONLY <2>1, LocalsOK, CallInv, Proceeding
    <2>3. RowsKept
      BY <1>s
    <2>4. UNCHANGED users
      OBVIOUS
    <2> QED BY ONLY <2>2, <2>3, <2>4 DEF Shape
  <1>10. ASSUME NEW r \in Requests, AuthAccount(r) PROVE Shape
    <2> USE <1>10, <1>0 DEF AuthAccount
    <2>1. Proceeds(r)
      <3>1. CASE UNCHANGED deposit /\ \E err : Return(r, err)
        BY <3>1 DEF Proceeds, LocalsOK
      <3>2. ASSUME NEW d \in Deposits, deposit' = [deposit EXCEPT ![r] = d], Goto(r, "findUser")
            PROVE  Proceeds(r)
        BY <3>2, ConstantsAssumption DEF Proceeds, LocalsOK
      <3> QED BY <3>1, <3>2
    <2>2. LocalsOK' /\ CallInv' /\ \A q \in Requests : CallKept(q)
      BY ONLY <2>1, LocalsOK, CallInv, Proceeding
    <2>3. RowsKept
      BY <1>s
    <2>4. UNCHANGED users
      OBVIOUS
    <2> QED BY ONLY <2>2, <2>3, <2>4 DEF Shape
  <1>11. ASSUME NEW r \in Requests, CreateAccount(r) PROVE Shape
    <2> USE <1>11, <1>0 DEF CreateAccount, InsertAccount
    <2>1. Proceeds(r)
      <3>1. CASE At(r, "findUser")
        BY <3>1 DEF Proceeds, LocalsOK, Goto
      <3>2. CASE At(r, "exists")
        BY <3>2 DEF Proceeds, LocalsOK, Goto
      <3>3. CASE At(r, "insert")
        BY <3>3 DEF Proceeds, LocalsOK, Goto
      <3>4. CASE At(r, "audit")
        BY <3>4 DEF Proceeds, LocalsOK, Goto
      <3> QED BY <3>1, <3>2, <3>3, <3>4
    <2>2. LocalsOK' /\ CallInv' /\ \A q \in Requests : CallKept(q)
      BY ONLY <2>1, LocalsOK, CallInv, Proceeding
    <2>3. RowsKept \/ RowInserted
      <3>1. CASE UNCHANGED accounts
        BY <3>1, <1>s
      <3>2. CASE /\ At(r, "insert")
                 /\ Insertable(NewAccount(U(r), call[r].type, call[r].number, "given", deposit[r]))
                 /\ InsertAccount(r, NewAccount(U(r), call[r].type, call[r].number, "given", deposit[r]))
        <4> DEFINE row == NewAccount(U(r), call[r].type, call[r].number, "given", deposit[r])
        <4>1. Insertable(row)
          BY <3>2
        <4>2. row \in AccountRow /\ row.type \in Types
          BY <3>2, RowsOpened DEF Opened, AccountRow
        <4>3. accounts' = [a \in DOMAIN accounts \union {<<r, row.type>>} |->
                             IF a = <<r, row.type>> THEN row ELSE accounts[a]]
          BY <3>2
        <4>4. UNCHANGED users /\ (~Live(row.owner) => <<r, row.type>> \in late')
          BY <3>2
        <4> QED BY ONLY <4>1, <4>2, <4>3, <4>4 DEF RowInserted
      <3> QED BY <3>1, <3>2
    <2>4. UNCHANGED users
      OBVIOUS
    <2> QED BY ONLY <2>2, <2>3, <2>4 DEF Shape
  <1>12. ASSUME NEW r \in Requests, CreateAccountsForNewUser(r) PROVE Shape
    <2> USE <1>12, <1>0 DEF CreateAccountsForNewUser,
       CreateAccountWithSampleData, GenerateUniqueAccountNumber
    <2>1. Proceeds(r)
      <3>1. CASE At(r, "number")
        BY <3>1 DEF Proceeds, LocalsOK, Goto
      <3>2. CASE At(r, "checking")
        BY <3>2 DEF Proceeds, LocalsOK, Goto
      <3>3. CASE At(r, "number2")
        BY <3>3 DEF Proceeds, LocalsOK, Goto
      <3>4. CASE At(r, "savings")
        BY <3>4 DEF Proceeds, LocalsOK, Goto
      <3> QED BY <3>1, <3>2, <3>3, <3>4
    <2>2. LocalsOK' /\ CallInv' /\ \A q \in Requests : CallKept(q)
      BY ONLY <2>1, LocalsOK, CallInv, Proceeding
    <2>3. RowsKept \/ RowInserted
      <3>1. CASE UNCHANGED accounts
        BY <3>1, <1>s
      <3>2. ASSUME NEW type \in {"CHECKING", "SAVINGS"}, NEW next,
                   CreateAccountWithSampleData(r, type, next)
            PROVE  RowsKept \/ RowInserted
        <4>1. PICK b \in Balances :
                \/ UNCHANGED accounts
                \/ /\ Insertable(NewAccount(U(r), type, number[r], "", b))
                   /\ InsertAccount(r, NewAccount(U(r), type, number[r], "", b))
          BY ONLY <3>2 DEF CreateAccountWithSampleData
        <4> DEFINE row == NewAccount(U(r), type, number[r], "", b)
        <4>2. row \in AccountRow /\ row.type \in Types
          BY RowsOpened DEF Opened, AccountRow
        <4>3. CASE UNCHANGED accounts
          BY <4>3, <1>s
        <4>4. CASE Insertable(row) /\ InsertAccount(r, row)
          <5>1. UNCHANGED users
            OBVIOUS
          <5> QED BY ONLY <4>2, <4>4, <5>1, r \in Requests DEF RowInserted, InsertAccount
        <4> QED BY <4>1, <4>3, <4>4
      <3> QED BY <3>1, <3>2
    <2>4. UNCHANGED users
      OBVIOUS
    <2> QED BY ONLY <2>2, <2>3, <2>4 DEF Shape
  <1>13. ASSUME NEW r \in Requests, GetAccountByID(r) PROVE Shape
    <2> USE <1>13, <1>0, <1>r DEF GetAccountByID
    <2>1. LocalsOK'
      BY DEF LocalsOK
    <2>2. CallInv'
      BY DEF CallInv, LocalsOK
    <2>3. RowsKept \/ RowInserted
      BY <1>s DEF RowInserted
    <2>4. UNCHANGED users \/ \E u \in Users : UserChanged(u) \/ UserDeleted(u)
      BY DEF UserChanged, UserKept, UserDeleted, TablesOK
    <2>5. ASSUME NEW q \in Requests PROVE CallKept(q)
      BY DEF CallKept, CallInv, LocalsOK
    <2> QED BY ONLY <2>1, <2>2, <2>3, <2>4, <2>5 DEF Shape
  <1>14. ASSUME NEW r \in Requests, SearchCustomers(r) PROVE Shape
    <2> USE <1>14, <1>0, <1>r DEF SearchCustomers
    <2>1. LocalsOK'
      BY DEF LocalsOK
    <2>2. CallInv'
      BY DEF CallInv, LocalsOK
    <2>3. RowsKept \/ RowInserted
      BY <1>s DEF RowInserted
    <2>4. UNCHANGED users \/ \E u \in Users : UserChanged(u) \/ UserDeleted(u)
      BY DEF UserChanged, UserKept, UserDeleted, TablesOK
    <2>5. ASSUME NEW q \in Requests PROVE CallKept(q)
      BY DEF CallKept, CallInv, LocalsOK
    <2> QED BY ONLY <2>1, <2>2, <2>3, <2>4, <2>5 DEF Shape
  <1>15. ASSUME NEW r \in Requests, StatementFails(r) PROVE Shape
    <2> USE <1>15, <1>0, <1>r DEF StatementFails
    <2>1. LocalsOK'
      BY DEF LocalsOK
    <2>2. CallInv'
      BY DEF CallInv, LocalsOK
    <2>3. RowsKept \/ RowInserted
      BY <1>s DEF RowInserted
    <2>4. UNCHANGED users \/ \E u \in Users : UserChanged(u) \/ UserDeleted(u)
      BY DEF UserChanged, UserKept, UserDeleted, TablesOK
    <2>5. ASSUME NEW q \in Requests PROVE CallKept(q)
      <3>1. CASE q # r
        <4>1. /\ call' = call /\ pc' = [pc EXCEPT ![r] = "done"]
              /\ \E a : reply' = [reply EXCEPT ![r] = a]
          BY DEF Return, Answer
        <4> QED BY ONLY <3>1, <4>1, LocalsOK DEF CallKept, LocalsOK, At
      <3>2. CASE q = r /\ ~(call[r].kind = "delete" /\ At(r, "deleteAccounts"))
        BY <3>2 DEF CallKept, CallInv
      <3>3. CASE q = r /\ call[r].kind = "delete" /\ At(r, "deleteAccounts")
        <4>1. Return(r, "databaseError")
          BY <3>3
        <4>2. "databaseError" \notin DOMAIN Handler["delete"]
          BY DEF Handler, DeleteCustomerHandler
        <4>3. reply' = [reply EXCEPT ![r] = "SystemInternalError"]
          BY ONLY <3>3, <4>1, <4>2 DEF Return, Answer
        <4> QED BY <3>3, <4>3 DEF CallKept, CallInv, LocalsOK
      <3> QED BY <3>1, <3>2, <3>3
    <2> QED BY ONLY <2>1, <2>2, <2>3, <2>4, <2>5 DEF Shape
  <1>16. CASE Elsewhere
    <2>1. RowsKept
      <3>1. PICK a \in DOMAIN accounts, row \in AccountRow :
              SavedAgain(a, row) /\ (accounts[a].deleted => a \in restored')
        BY <1>16, Saving
      <3> QED BY <3>1 DEF SavedAgain, RowsKept, TablesOK
    <2>2. LocalsOK' /\ CallInv' /\ UNCHANGED users /\ \A q \in Requests : CallKept(q)
      BY <1>16 DEF Elsewhere, LocalsOK, CallInv, CallKept
    <2> QED BY <2>1, <2>2 DEF Shape
  <1>17. CASE UNCHANGED vars
    BY <1>17, <1>s DEF vars, Shape, LocalsOK, CallInv, CallKept
  <1> QED
    BY <1>1, <1>2, <1>3, <1>4, <1>5, <1>6, <1>7, <1>8, <1>9, <1>10, <1>11,
       <1>12, <1>13, <1>14, <1>15, <1>16, <1>17
       DEF Next, Serve

-----------------------------------------------------------------------------
(* Keys *)

\* The unique indexes keep e-mails and account numbers apart.
LEMMA TablesStep == TablesOK /\ Shape => TablesOK'
  <1> SUFFICES ASSUME TablesOK, Shape PROVE TablesOK'
    OBVIOUS
  <1>1. /\ \A a \in DOMAIN accounts' : accounts'[a] \in AccountRow
        /\ DOMAIN accounts' \subseteq AccountIds
        /\ \A a, b \in DOMAIN accounts' : accounts'[a].number = accounts'[b].number => a = b
    <2>1. CASE RowsKept
      BY <2>1 DEF RowsKept, TablesOK, KeysAreUnique
    <2>2. CASE RowInserted
      <3>1. PICK r \in Requests, row \in AccountRow :
              /\ Insertable(row) /\ row.type \in Types
              /\ accounts' = [a \in DOMAIN accounts \union {<<r, row.type>>} |->
                                IF a = <<r, row.type>> THEN row ELSE accounts[a]]
        BY <2>2 DEF RowInserted
      <3>2. <<r, row.type>> \in AccountIds
        BY <3>1 DEF AccountIds
      <3>3. \A a \in DOMAIN accounts : accounts[a].number # row.number
        BY <3>1 DEF Insertable
      <3> QED BY <3>1, <3>2, <3>3 DEF TablesOK, KeysAreUnique
    <2> QED BY <2>1, <2>2 DEF Shape
  <1>2. /\ users' \in [Users -> UserRow]
        /\ \A u, v \in {w \in Users : users'[w].state # "absent"} :
             users'[u].email = users'[v].email => u = v
    <2>1. CASE UNCHANGED users
      BY <2>1 DEF TablesOK, KeysAreUnique
    <2>2. ASSUME NEW u \in Users, UserChanged(u) PROVE <1>2
      BY <2>2 DEF UserChanged, UserKept, EmailIsFree, TablesOK, KeysAreUnique
    <2>3. ASSUME NEW u \in Users, UserDeleted(u) PROVE <1>2
      <3>1. /\ users[u] \in UserRow
            /\ [users[u] EXCEPT !.state = "deleted"] \in UserRow
        BY DEF TablesOK, UserRow
      <3>2. \A v \in Users : /\ users'[v].email = users[v].email
                             /\ users'[v].state # "absent" => users[v].state # "absent"
        BY <2>3, <3>1 DEF UserDeleted, TablesOK, UserRow
      <3>3. users' \in [Users -> UserRow]
        BY <2>3, <3>1 DEF UserDeleted, TablesOK
      <3> QED BY <3>2, <3>3 DEF TablesOK, KeysAreUnique
    <2> QED BY <2>1, <2>2, <2>3 DEF Shape
  <1> QED BY <1>1, <1>2 DEF TablesOK, KeysAreUnique

-----------------------------------------------------------------------------
(* Orphans *)

\* An account the history does not name escapes a deletion in no step.
LEMMA OrphansStep ==
  TablesOK /\ LocalsOK /\ CallInv /\ OrphansExplained /\ Shape /\ HistoryGrows
    => OrphansExplained'
  <1> SUFFICES ASSUME TablesOK, LocalsOK, CallInv, OrphansExplained, Shape, HistoryGrows,
                      NEW a \in LiveAccounts', a \notin late' \union restored',
                      users'[accounts'[a].owner].state = "deleted"
               PROVE  \E r \in Requests :
                        /\ call'[r].kind = "delete" /\ call'[r].user = accounts'[a].owner
                        /\ pc'[r] = "deleteAccounts" \/ reply'[r] = "SystemInternalError"
    BY DEF OrphansExplained, U
  <1> DEFINE owner == accounts[a].owner
  <1>1. a \in LiveAccounts /\ accounts'[a].owner = owner /\ owner \in Users
    <2>1. CASE RowsKept
      BY <2>1 DEF RowsKept, LiveAccounts, TablesOK, AccountRow
    <2>2. CASE RowInserted
      <3>1. PICK r \in Requests, row \in AccountRow :
              /\ accounts' = [b \in DOMAIN accounts \union {<<r, row.type>>} |->
                                IF b = <<r, row.type>> THEN row ELSE accounts[b]]
              /\ UNCHANGED users
              /\ ~Live(row.owner) => <<r, row.type>> \in late'
        BY <2>2 DEF RowInserted
      <3>2. a # <<r, row.type>>
        BY <3>1 DEF Live
      <3> QED BY <3>1, <3>2 DEF LiveAccounts, TablesOK, AccountRow
    <2> QED BY <2>1, <2>2 DEF Shape
  <1>2. CASE users[owner].state = "deleted"
    <2>1. PICK r \in Requests :
            /\ call[r].kind = "delete" /\ U(r) = owner
            /\ At(r, "deleteAccounts") \/ reply[r] = "SystemInternalError"
      BY <1>1, <1>2 DEF OrphansExplained, HistoryGrows, At
    <2>2. CallKept(r)
      BY DEF Shape
    <2>3. CASE reply[r] = "SystemInternalError"
      BY <1>1, <2>1, <2>2, <2>3 DEF CallKept, U, At
    <2>4. CASE At(r, "deleteAccounts")
      <3>1. ~SoftDeleteByUserID(U(r))
        <4>1. a \in AccountsOf(U(r)) /\ accounts[a] \in AccountRow
          BY <1>1, <2>1 DEF AccountsOf, LiveAccounts, TablesOK
        <4>2. SoftDeleteByUserID(U(r)) => accounts'[a].deleted
          BY <4>1 DEF SoftDeleteByUserID, AccountsOf, LiveAccounts, AccountRow
        <4> QED BY <1>1, <4>2 DEF LiveAccounts
      <3> QED BY <1>1, <2>1, <2>2, <2>4, <3>1 DEF CallKept, U, At
    <2> QED BY <2>1, <2>3, <2>4
  <1>3. CASE users[owner].state # "deleted"
    <2>1. PICK u \in Users : UserChanged(u) \/ UserDeleted(u)
      BY <1>1, <1>3 DEF Shape
    <2>2. UserDeleted(u) /\ u = owner
      BY <1>1, <1>3, <2>1 DEF UserChanged, UserKept, UserDeleted, TablesOK
    <2> QED BY <1>1, <2>2 DEF UserDeleted, U, At
  <1> QED BY <1>2, <1>3

CustomerInv == TablesOK /\ LocalsOK /\ CallInv /\ OrphansExplained

\* The first state.
LEMMA CustomerInit == Init => CustomerInv
  <1> SUFFICES ASSUME Init PROVE CustomerInv
    OBVIOUS
  <1> USE ConstantsAssumption, FirstTablesAssumption DEF Init
  <1>1. TablesOK
    BY DEF TablesOK, KeysAreUnique, AccountIds
  <1>2. LocalsOK
    BY DEF LocalsOK
  <1>3. CallInv
    BY DEF CallInv, At
  <1>4. OrphansExplained
    BY DEF OrphansExplained, LiveAccounts, AccountRow
  <1> QED BY <1>1, <1>2, <1>3, <1>4 DEF CustomerInv

\* The inductive invariant holds of every reachable state.
THEOREM CustomersCorrect == Spec => []CustomerInv
  <1>1. CustomerInv /\ [Next]_vars => CustomerInv'
    BY Shapes, HistoryKept, TablesStep, OrphansStep DEF CustomerInv, Shape
  <1> QED BY CustomerInit, <1>1, PTL DEF Spec

\* Every column keeps its type, and e-mails and account numbers stay unique,
\* deleted rows included, for every number of requests: what the lookups
\* miss the unique indexes refuse.
THEOREM TypesAndKeysCorrect == Spec => []TypeOK
  <1>1. CustomerInv => TypeOK
    BY DEF CustomerInv, TablesOK, LocalsOK, TypeOK
  <1> QED BY CustomersCorrect, <1>1, PTL

\* An account outlives its customer only while the deletion is at work, where
\* it was cut short by a failed statement, if it was inserted after the customer
\* went, or if AccountService saved it again after it was deleted.
THEOREM OrphansAreExplained == Spec => []OrphansExplained
  <1>1. CustomerInv => OrphansExplained
    BY DEF CustomerInv
  <1> QED BY CustomersCorrect, <1>1, PTL

-----------------------------------------------------------------------------
(* Money in deleted accounts *)

\* The balances a deletion has found to be zero add up one by one to zero.
LEMMA NothingLeft ==
  ASSUME NEW u, TablesOK, IsFiniteSet(DOMAIN accounts), GetTotalBalanceByUserID(u) = 0
  PROVE  \A a \in AccountsOf(u) : accounts[a].status = "active" => accounts[a].balance = 0
  <1> DEFINE S == {a \in AccountsOf(u) : accounts[a].status = "active"}
             e == [a \in S |-> accounts[a].balance]
             P(g) == g = [s \in SUBSET S |->
                            IF s = {} THEN 0
                            ELSE accounts[CHOOSE x \in s : TRUE].balance
                                 + g[s \ {CHOOSE x \in s : TRUE}]]
             iter == CHOOSE g : P(g)
  <1>0. IsFiniteSet(S) /\ \A a \in S : accounts[a].balance \in Nat
    <2>1. S \in SUBSET DOMAIN accounts
      BY DEF AccountsOf, LiveAccounts
    <2> QED BY <2>1, FS_Subset DEF TablesOK, AccountRow
  <1>1. GetTotalBalanceByUserID(u) = iter[S]
    BY DEF GetTotalBalanceByUserID, MapThenSumSet, MapThenFoldSet
  <1>2. ASSUME NEW g PROVE P(g) <=> IsSum(g, e, S)
    <2>1. ASSUME NEW s \in SUBSET S, s # {}
          PROVE  e[Pick(s)] = accounts[CHOOSE x \in s : TRUE].balance
      <3> HIDE DEF S
      <3>1. Pick(s) \in S
        BY <2>1, PickIn
      <3> QED BY <3>1 DEF Pick
    <2> HIDE DEF S
    <2> QED BY <2>1 DEF IsSum, Pick
  <1>3. P(iter)
    <2> HIDE DEF e, P, S
    <2>1. \E g : P(g)
      BY <1>0, <1>2, SumExists
    <2> QED BY <2>1 DEF iter
  <1>4. IsSum(iter, e, S)
    BY <1>2, <1>3
  <1>5. \A a \in S : e[a] \in Nat /\ e[a] = accounts[a].balance
    BY <1>0
  <1>6. iter[S] = 0
    BY <1>1
  <1> HIDE DEF iter, P, e, S
  <1>7. \A a \in S : e[a] = 0
    BY <1>0, <1>4, <1>5, <1>6, SumOfNats
  <1> QED BY <1>5, <1>7 DEF S

\* Between the sum of the balances and the end of the deletion an account of
\* the customer may hold money only if it came meanwhile.
Cutting == {"deleteUser", "deleteAccounts"}
RaceInv ==
  \A r \in Requests : call[r].kind = "delete" /\ pc[r] \in Cutting =>
    \A a \in AccountsOf(U(r)) :
      accounts[a].status = "active" => accounts[a].balance = 0 \/ a \in raced

MoneyInv == IsFiniteSet(DOMAIN accounts) /\ RaceInv /\ MoneyLostOnlyByRace

\* What a step may do to rows of accounts, and how a deletion gets to cut
\* its customer off
RowTouched(a) ==
  /\ a \in DOMAIN accounts /\ Raced({a})
  /\ \E row \in AccountRow : SavedAgain(a, row)
RaceStep ==
  /\ \/ UNCHANGED <<accounts, raced>>
     \/ \E r \in Requests, row \in AccountRow : ~row.deleted /\ InsertAccount(r, row)
     \/ \E r \in Requests : /\ call[r].kind = "delete" /\ At(r, "deleteAccounts")
                            /\ SoftDeleteByUserID(U(r)) /\ UNCHANGED raced
     \/ \E a \in DOMAIN accounts : RowTouched(a)
  /\ \A q \in Requests : call'[q].kind = "delete" /\ pc'[q] \in Cutting =>
       /\ call'[q] = call[q]
       /\ \/ pc[q] \in Cutting
          \/ GetTotalBalanceByUserID(U(q)) = 0 /\ UNCHANGED <<accounts, raced>>

\* Money is lost in no step of that shape, but by a race.
LEMMA RaceKept ==
  ASSUME TablesOK, MoneyInv, RaceStep
  PROVE  MoneyInv'
  <1> USE DEF MoneyInv
  <1>0. ASSUME NEW q \in Requests, call'[q].kind = "delete", pc'[q] \in Cutting
        PROVE  /\ call[q].kind = "delete" /\ call'[q].user = U(q)
               /\ \/ pc[q] \in Cutting
                  \/ UNCHANGED <<accounts, raced>>
               /\ \A a \in AccountsOf(U(q)) :
                    accounts[a].status = "active" => accounts[a].balance = 0 \/ a \in raced
    <2>1. call'[q] = call[q] /\ call[q].kind = "delete"
      BY <1>0 DEF RaceStep
    <2>2. CASE pc[q] \in Cutting
      BY <2>1, <2>2 DEF RaceInv, U
    <2>3. CASE GetTotalBalanceByUserID(U(q)) = 0 /\ UNCHANGED <<accounts, raced>>
      BY <2>1, <2>3, NothingLeft DEF U
    <2> QED BY <1>0, <2>2, <2>3 DEF RaceStep
  <1>1. CASE UNCHANGED <<accounts, raced>>
    <2>1. RaceInv'
      BY <1>0, <1>1 DEF RaceInv, U, AccountsOf, LiveAccounts
    <2> QED BY <1>1, <2>1 DEF MoneyLostOnlyByRace
  <1>2. ASSUME NEW r \in Requests, NEW row \in AccountRow, ~row.deleted, InsertAccount(r, row)
        PROVE  MoneyInv'
    <2> DEFINE k == <<r, row.type>>
    <2>1. /\ accounts' = [a \in DOMAIN accounts \union {k} |->
                            IF a = k THEN row ELSE accounts[a]]
          /\ raced' = raced \union {a \in {k} : accounts'[a].owner \in BeingDeleted}
      BY <1>2 DEF InsertAccount, Raced
    <2> HIDE DEF k
    <2>2. IsFiniteSet(DOMAIN accounts')
      BY <2>1, FS_AddElement
    <2>3. MoneyLostOnlyByRace'
      BY <1>2, <2>1 DEF MoneyLostOnlyByRace
    <2>4. RaceInv'
      <3> SUFFICES ASSUME NEW q \in Requests, call'[q].kind = "delete", pc'[q] \in Cutting,
                          NEW a \in AccountsOf(U(q))', accounts'[a].status = "active"
                   PROVE  accounts'[a].balance = 0 \/ a \in raced'
        BY DEF RaceInv
      <3>1. call'[q].user = U(q) /\ accounts'[a].owner = U(q) /\ ~accounts'[a].deleted
        BY <1>0 DEF AccountsOf, LiveAccounts, U
      <3>2. CASE a # k
        BY <1>0, <2>1, <3>1, <3>2 DEF AccountsOf, LiveAccounts
      <3>3. CASE a = k /\ pc[q] \in Cutting
        <4>1. U(q) \in BeingDeleted
          BY <1>0, <3>3 DEF BeingDeleted, Cutting
        <4> QED BY <2>1, <3>1, <3>3, <4>1
      <3>4. CASE a = k /\ UNCHANGED <<accounts, raced>>
        BY <1>0, <3>1, <3>4 DEF AccountsOf, LiveAccounts
      <3> QED BY <1>0, <3>2, <3>3, <3>4
    <2> QED BY <2>2, <2>3, <2>4
  <1>3. ASSUME NEW r \in Requests, call[r].kind = "delete", At(r, "deleteAccounts"),
               SoftDeleteByUserID(U(r)), UNCHANGED raced
        PROVE  MoneyInv'
    <2>1. /\ DOMAIN accounts' = DOMAIN accounts
          /\ \A a \in DOMAIN accounts :
               /\ a \in AccountsOf(U(r)) => /\ accounts'[a].deleted
                                            /\ accounts'[a].balance = accounts[a].balance
                                            /\ accounts'[a].status = accounts[a].status
                                            /\ accounts'[a].owner = accounts[a].owner
               /\ a \notin AccountsOf(U(r)) => accounts'[a] = accounts[a]
      BY <1>3 DEF SoftDeleteByUserID, TablesOK, AccountRow
    <2>2. \A a \in AccountsOf(U(r)) :
            accounts[a].status = "active" => accounts[a].balance = 0 \/ a \in raced
      BY <1>3 DEF RaceInv, Cutting, At
    <2>3. MoneyLostOnlyByRace'
      BY <1>3, <2>1, <2>2 DEF MoneyLostOnlyByRace
    <2>4. RaceInv'
      <3> SUFFICES ASSUME NEW q \in Requests, call'[q].kind = "delete", pc'[q] \in Cutting,
                          NEW a \in AccountsOf(U(q))', accounts'[a].status = "active"
                   PROVE  accounts'[a].balance = 0 \/ a \in raced'
        BY DEF RaceInv
      <3>1. a \in AccountsOf(U(q)) /\ accounts'[a] = accounts[a]
        BY <1>0, <2>1 DEF AccountsOf, LiveAccounts, U
      <3> QED BY <1>0, <1>3, <3>1
    <2> QED BY <2>1, <2>3, <2>4
  <1>4. ASSUME NEW a \in DOMAIN accounts, RowTouched(a) PROVE MoneyInv'
    <2>1. PICK row \in AccountRow : /\ accounts' = [accounts EXCEPT ![a] = row]
                                    /\ row.owner = accounts[a].owner /\ ~row.deleted
      BY <1>4 DEF RowTouched, SavedAgain
    <2>2. raced' = raced \union {b \in {a} : accounts'[b].owner \in BeingDeleted}
      BY <1>4 DEF RowTouched, Raced
    <2>3. MoneyLostOnlyByRace'
      BY <2>1, <2>2 DEF MoneyLostOnlyByRace
    <2>4. RaceInv'
      <3> SUFFICES ASSUME NEW q \in Requests, call'[q].kind = "delete", pc'[q] \in Cutting,
                          NEW b \in AccountsOf(U(q))', accounts'[b].status = "active"
                   PROVE  accounts'[b].balance = 0 \/ b \in raced'
        BY DEF RaceInv
      <3>1. call'[q].user = U(q) /\ accounts'[b].owner = U(q) /\ ~accounts'[b].deleted
        BY <1>0 DEF AccountsOf, LiveAccounts, U
      <3>2. CASE b # a
        BY <1>0, <2>1, <2>2, <3>1, <3>2 DEF AccountsOf, LiveAccounts
      <3>3. CASE b = a /\ pc[q] \in Cutting
        <4>1. U(q) \in BeingDeleted
          BY <1>0, <3>3 DEF BeingDeleted, Cutting
        <4> QED BY <2>2, <3>1, <3>3, <4>1
      <3>4. CASE b = a /\ UNCHANGED <<accounts, raced>>
        BY <1>0, <3>1, <3>4 DEF AccountsOf, LiveAccounts
      <3> QED BY <1>0, <3>2, <3>3, <3>4
    <2> QED BY <2>1, <2>3, <2>4
  <1> QED BY <1>1, <1>2, <1>3, <1>4 DEF RaceStep

\* Every step changes rows as RaceStep says.
LEMMA RaceSteps == TablesOK /\ LocalsOK /\ CallInv /\ [Next]_vars => RaceStep
  <1> SUFFICES ASSUME TablesOK, LocalsOK, CallInv, [Next]_vars PROVE RaceStep
    OBVIOUS
  <1> USE DEF At, history
  <1> DEFINE Others(r) == /\ \A q \in Requests \ {r} : pc'[q] = pc[q] /\ call'[q] = call[q]
             NotCutting(r) == call'[r].kind = "delete" => pc'[r] \notin Cutting
  <1>0. ASSUME NEW r \in Requests, Others(r), UNCHANGED <<accounts, raced>>,
               \/ NotCutting(r)
               \/ call' = call /\ (pc[r] \in Cutting \/ GetTotalBalanceByUserID(U(r)) = 0)
        PROVE  RaceStep
    BY <1>0 DEF RaceStep
  <1>r. ASSUME NEW r \in Requests, NEW err, Return(r, err)
        PROVE  /\ \A q \in Requests \ {r} : pc'[q] = pc[q]
               /\ pc'[r] = "done"
    BY <1>r DEF Return, LocalsOK
  <1>g. ASSUME NEW r \in Requests, NEW p, Goto(r, p)
        PROVE  /\ \A q \in Requests \ {r} : pc'[q] = pc[q]
               /\ pc'[r] = p
    BY <1>g DEF Goto, LocalsOK
  <1>c. ASSUME NEW r \in Requests, NEW row \in AccountRow, Others(r), NotCutting(r),
               \/ UNCHANGED <<accounts, raced>>
               \/ ~row.deleted /\ InsertAccount(r, row)
        PROVE  RaceStep
    BY <1>c DEF RaceStep
  <1>1. ASSUME NEW r \in Requests, Start(r) PROVE RaceStep
    <2>1. PICK c \in Calls :
            /\ call' = [call EXCEPT ![r] = c]
            /\ \/ pc' = [pc EXCEPT ![r] = FirstStatement[c.kind]]
               \/ pc' = [pc EXCEPT ![r] = "done"]
      BY <1>1 DEF Start, Goto
    <2>2. FirstStatement["delete"] = "findUser"
      BY DEF FirstStatement
    <2>3. Others(r) /\ NotCutting(r)
      BY <2>1, <2>2 DEF LocalsOK, Cutting
    <2> QED BY <1>0, <1>1, <2>3 DEF Start
  <1>2. ASSUME NEW r \in Requests, DeleteCustomer(r) PROVE RaceStep
    <2>1. \/ Others(r) /\ pc'[r] \notin Cutting /\ UNCHANGED <<accounts, raced>>
          \/ /\ Others(r) /\ UNCHANGED <<accounts, raced, call>>
             /\ pc[r] \in Cutting \/ GetTotalBalanceByUserID(U(r)) = 0
          \/ /\ Others(r) /\ pc'[r] \notin Cutting /\ UNCHANGED raced
             /\ call[r].kind = "delete" /\ At(r, "deleteAccounts") /\ SoftDeleteByUserID(U(r))
      BY <1>2, <1>r, <1>g DEF DeleteCustomer, Silent, Cutting
    <2> QED BY <1>0, <2>1 DEF RaceStep
  <1>3. ASSUME NEW r \in Requests, \/ GetCustomerProfile(r) \/ CreateCustomer(r)
                                   \/ GetCustomerAccounts(r) \/ GetAccountByID(r)
                                   \/ SearchCustomers(r)
        PROVE  RaceStep
    <2>1. Others(r) /\ NotCutting(r) /\ UNCHANGED <<accounts, raced>>
      BY <1>3, <1>r, <1>g DEF GetCustomerProfile, CreateCustomer, GetCustomerAccounts,
         GetAccountByID, SearchCustomers, Silent, Read
    <2> QED BY <1>0, <2>1
  <1>4. ASSUME NEW r \in Requests, \/ UpdateCustomerProfile(r) \/ UpdateCustomerEmail(r)
                                   \/ TransferAccountOwnership(r) \/ AuthAccount(r)
                                   \/ StatementFails(r)
        PROVE  RaceStep
    <2>1. Others(r) /\ NotCutting(r) /\ UNCHANGED <<accounts, raced>>
      <3>1. CASE UpdateCustomerProfile(r)
        BY <3>1, <1>r, <1>g DEF UpdateCustomerProfile, Silent
      <3>2. CASE UpdateCustomerEmail(r)
        BY <3>2, <1>r, <1>g DEF UpdateCustomerEmail, Silent
      <3>3. CASE TransferAccountOwnership(r)
        BY <3>3, <1>r, <1>g DEF TransferAccountOwnership, UpdateOwnership, Silent
      <3>4. CASE AuthAccount(r)
        BY <3>4, <1>r, <1>g DEF AuthAccount, Cutting
      <3>5. CASE StatementFails(r)
        BY <3>5, <1>r DEF StatementFails, Read, Cutting
      <3> QED BY <1>4, <3>1, <3>2, <3>3, <3>4, <3>5
    <2> QED BY <1>0, <2>1
  <1>5. ASSUME NEW r \in Requests, \/ CreateAccountForCustomer(r) \/ CreateAccount(r)
                                   \/ CreateAccountsForNewUser(r)
        PROVE  RaceStep
    <2>1. Others(r) /\ NotCutting(r)
      <3>1. CASE CreateAccountForCustomer(r)
        BY <3>1, <1>r, <1>g DEF CreateAccountForCustomer, GenerateUniqueAccountNumber, Silent
      <3>2. CASE CreateAccount(r)
        BY <3>2, <1>r, <1>g DEF CreateAccount, Silent
      <3>3. CASE CreateAccountsForNewUser(r)
        BY <3>3, <1>r, <1>g DEF CreateAccountsForNewUser, CreateAccountWithSampleData,
           GenerateUniqueAccountNumber, Silent
      <3> QED BY <1>5, <3>1, <3>2, <3>3
    <2>2. \/ UNCHANGED <<accounts, raced>>
          \/ \E row \in AccountRow : ~row.deleted /\ InsertAccount(r, row)
      <3>1. CASE CreateAccountForCustomer(r)
        BY <3>1, RowsOpened DEF CreateAccountForCustomer, GenerateUniqueAccountNumber, Opened
      <3>2. CASE CreateAccount(r)
        BY <3>2, RowsOpened DEF CreateAccount, Opened
      <3>3. CASE CreateAccountsForNewUser(r)
        BY <3>3, RowsOpened DEF CreateAccountsForNewUser, CreateAccountWithSampleData,
           GenerateUniqueAccountNumber, Opened
      <3> QED BY <1>5, <3>1, <3>2, <3>3
    <2>3. CASE UNCHANGED <<accounts, raced>>
      BY <1>0, <2>1, <2>3
    <2>4. ASSUME NEW row \in AccountRow, ~row.deleted, InsertAccount(r, row)
          PROVE  RaceStep
      BY <1>c, <2>1, <2>4
    <2> QED BY <2>2, <2>3, <2>4
  <1>6. CASE Elsewhere
    <2>1. UNCHANGED <<pc, call>>
      BY <1>6 DEF Elsewhere, Silent
    <2>2. PICK a \in DOMAIN accounts, row \in AccountRow : SavedAgain(a, row) /\ Raced({a})
      BY <1>6, Saving
    <2>3. RowTouched(a)
      BY <2>2 DEF RowTouched
    <2> QED BY <2>1, <2>3 DEF RaceStep
  <1>7. CASE UNCHANGED vars
    BY <1>7 DEF vars, RaceStep
  <1> QED
    BY <1>1, <1>2, <1>3, <1>4, <1>5, <1>6, <1>7 DEF Next, Serve

\* The inductive invariant, with what a deletion relies on: nothing of a
\* customer found without money is active and holds some, but what came
\* while the deletion was at work.
THEOREM MoneyCorrect == Spec => [](CustomerInv /\ MoneyInv)
  <1>1. Init => MoneyInv
    BY ConstantsAssumption DEF Init, MoneyInv, RaceInv, MoneyLostOnlyByRace,
       DeletedBefore, Cutting
  <1>2. CustomerInv /\ MoneyInv /\ [Next]_vars => CustomerInv' /\ MoneyInv'
    BY Shapes, HistoryKept, TablesStep, OrphansStep, RaceSteps, RaceKept DEF CustomerInv, Shape
  <1> QED BY CustomerInit, <1>1, <1>2, PTL DEF Spec

\* No active account is deleted with money in it unless the money came, or the
\* account was activated or opened, while its owner was being deleted: the sum
\* of the balances is read in one statement and relied on two statements later.
THEOREM MoneyIsLostOnlyByRace == Spec => []MoneyLostOnlyByRace
  <1>1. MoneyInv => MoneyLostOnlyByRace
    BY DEF MoneyInv
  <1> QED BY MoneyCorrect, <1>1, PTL

-----------------------------------------------------------------------------
(* Answers *)

\* The accounts r has inserted, and what r may rely on at every statement
Mine(r) == {a \in DOMAIN accounts \ DOMAIN FirstAccounts : a[1] = r}
CallStarted(r) ==
  IF At(r, "idle") THEN reply[r] = "none" /\ shown[r] = {} /\ Mine(r) = {}
  ELSE /\ call[r] \in Calls /\ IdIsKnown(call[r])
       /\ At(r, "northwind") => call[r].kind = "open"
       /\ At(r, "audit") => call[r].kind \in {"open", "createFor"}
Truthful(r) ==
  /\ call[r].kind = "delete" /\ (At(r, "deleteAccounts") \/ reply[r] = "ok") =>
       users[U(r)].state = "deleted"
  /\ reply[r] = "CustomerNotFound" /\ call[r].kind # "transfer" =>
       call[r].kind # "createCustomer" /\ ~Live(U(r))
Opening(r) ==
  call[r].kind \in {"open", "createFor"} =>
    /\ pc[r] \notin {"audit", "done"} \/ reply[r] \notin {"none", "ok"} => Mine(r) = {}
    /\ At(r, "audit") \/ reply[r] = "ok" => \E a \in Mine(r) : accounts[a].owner = U(r)
Registering(r) ==
  call[r].kind = "newAccounts" =>
    /\ pc[r] \in {"number", "checking"} => Mine(r) = {}
    /\ pc[r] \in {"number2", "savings"} => Mine(r) = {<<r, "CHECKING">>}
    /\ reply[r] = "ok" => Mine(r) = {<<r, "CHECKING">>, <<r, "SAVINGS">>}
Showing(r) ==
  call[r].kind = "account" =>
    \A a \in shown[r] :
      \/ U(r) \in Admins
      \/ a \in DOMAIN FirstAccounts \intersect DOMAIN accounts /\ accounts[a].owner = U(r)
ReplyInv(r) ==
  CallStarted(r) /\ Truthful(r) /\ Opening(r) /\ Registering(r) /\ Showing(r)
RepliesInv == DOMAIN shown = Requests /\ \A r \in Requests : ReplyInv(r)

\* What the others may do to the tables meanwhile
UsersMove ==
  \A u \in Users :
    /\ users[u].state = "deleted" => users'[u].state = "deleted"
    /\ users[u].state # "absent" => users'[u].state # "absent"
    /\ Live(u)' => Live(u) \/ (users[u].state = "absent" /\ Created(u))
RowsStay(r) ==
  \A a \in DOMAIN accounts \union DOMAIN accounts' :
    a \in DOMAIN FirstAccounts \/ a[1] = r =>
      /\ a \in DOMAIN accounts /\ a \in DOMAIN accounts'
      /\ accounts'[a].owner = accounts[a].owner
Untouched(r) == /\ pc'[r] = pc[r] /\ call'[r] = call[r] /\ reply'[r] = reply[r]
                /\ shown'[r] = shown[r]

\* A call that does not move keeps what it relies on.
LEMMA RepliesStay ==
  ASSUME TablesOK, LocalsOK, NEW r \in Requests, ReplyInv(r), UsersMove, RowsStay(r),
         Untouched(r), call[r] \in Call
  PROVE  ReplyInv(r)'
  <1> USE DEF ReplyInv, U, At
  <1>1. U(r) \in Users
    BY DEF Call
  <1>2. Mine(r)' = Mine(r) /\ \A a \in Mine(r) : accounts'[a].owner = accounts[a].owner
    BY DEF RowsStay, Mine
  <1>3. CallStarted(r)'
    <2>1. IdIsKnown(call[r]) => IdIsKnown(call[r])'
      BY <1>1 DEF IdIsKnown, UsersMove, Created, Untouched
    <2> QED BY <1>2, <2>1 DEF CallStarted, Untouched
  <1>4. Truthful(r)'
    <2>1. ASSUME reply[r] = "CustomerNotFound", call[r].kind # "transfer"
          PROVE  ~Live(U(r))'
      <3>1. IdIsKnown(call[r]) /\ ~Live(U(r)) /\ call[r].kind # "createCustomer"
        BY <2>1 DEF CallStarted, Truthful
      <3> QED BY <1>1, <3>1 DEF UsersMove, IdIsKnown, Untouched
    <2> QED BY <1>1, <2>1 DEF Truthful, Untouched, UsersMove
  <1>5. Opening(r)'
    BY <1>2 DEF Opening, Untouched
  <1>6. Registering(r)'
    BY <1>2 DEF Registering, Untouched
  <1>7. Showing(r)'
    BY DEF Showing, Untouched, RowsStay
  <1> QED BY <1>3, <1>4, <1>5, <1>6, <1>7

\* "ok" is no error's code, and only a missing customer is answered so.
LEMMA AnswerIsTrue ==
  ASSUME LocalsOK, NEW r \in Requests, NEW err, Return(r, err)
  PROVE  /\ pc' = [pc EXCEPT ![r] = "done"]
         /\ \A q \in Requests \ {r} : reply'[q] = reply[q]
         /\ reply'[r] = "ok" <=> err = "ok"
         /\ reply'[r] = "CustomerNotFound" =>
              err = "customerNotFound" /\ call[r].kind \notin {"createCustomer", "open"}
         /\ reply'[r] # "none"
  <1>1. call[r].kind \in Kinds
    BY DEF LocalsOK, Call
  <1>2. /\ "SystemInternalError" \notin {"ok", "none", "CustomerNotFound"}
        /\ \A kind \in Kinds :
             /\ "ok" \in DOMAIN Handler[kind]
             /\ \A e \in DOMAIN Handler[kind] :
                  /\ Handler[kind][e] = "ok" <=> e = "ok"
                  /\ Handler[kind][e] = "CustomerNotFound" =>
                       e = "customerNotFound" /\ kind \notin {"createCustomer", "open"}
                  /\ Handler[kind][e] # "none"
    BY DEF Kinds, Handler, SearchCustomersHandler, GetProfileHandler, GetMyProfileHandler,
         CreateCustomerHandler, UpdateCustomerProfileHandler, UpdateMyEmailHandler,
         DeleteCustomerHandler, GetCustomerAccountsHandler, GetMyAccountsHandler,
         CreateAccountForCustomerHandler, TransferAccountOwnershipHandler,
         RequireAuthAccountHandler, CreateAccountHandler, GetAccountHandler
  <1> QED BY <1>1, <1>2 DEF Return, Answer, LocalsOK

\* A step of r that inserts no account: it goes on, or it answers.
Moves(r) ==
  /\ pc[r] \notin {"idle", "done"} /\ UNCHANGED call
  /\ UsersMove /\ RowsStay(r) /\ Showing(r)'
  /\ \/ \E p : /\ Goto(r, p) /\ p \notin {"idle", "northwind", "audit"} /\ ~At(r, "audit")
               /\ call[r].kind = "newAccounts" =>
                    <<pc[r], p>> \in {<<"number", "checking">>, <<"number2", "savings">>}
               /\ call[r].kind = "delete" /\ p = "deleteAccounts" =>
                    users'[U(r)].state = "deleted"
     \/ \E err : /\ Return(r, err)
                 /\ call[r].kind = "newAccounts" => err # "ok"
                 /\ call[r].kind \in {"open", "createFor"} => (err = "ok" <=> At(r, "audit"))
                 /\ call[r].kind = "delete" /\ err = "ok" => users'[U(r)].state = "deleted"
                 /\ call[r].kind # "transfer" /\ err = "customerNotFound" => ~Live(U(r))'

\* A step without an insert keeps what its request relies on.
LEMMA Moving ==
  ASSUME TablesOK, LocalsOK, CallInv, NEW r \in Requests, ReplyInv(r), Moves(r)
  PROVE  ReplyInv(r)'
  <1> USE DEF Moves, ReplyInv, At, U
  <1>0. reply[r] = "none" /\ U(r) \in Users /\ call[r] \in Call /\ DOMAIN pc = Requests
    BY DEF CallInv, LocalsOK, Call
  <1>1. Mine(r)' = Mine(r) /\ \A a \in Mine(r) : accounts'[a].owner = accounts[a].owner
    BY DEF RowsStay, Mine
  <1>2. IdIsKnown(call[r])'
    BY <1>0 DEF IdIsKnown, UsersMove, Created, CallStarted
  <1>3. ASSUME NEW p, Goto(r, p), p \notin {"idle", "northwind", "audit"}, ~At(r, "audit"),
               call[r].kind = "newAccounts" =>
                 <<pc[r], p>> \in {<<"number", "checking">>, <<"number2", "savings">>},
               call[r].kind = "delete" /\ p = "deleteAccounts" => users'[U(r)].state = "deleted"
        PROVE  ReplyInv(r)'
    <2>1. pc'[r] = p /\ reply' = reply
      BY <1>0, <1>3 DEF Goto
    <2>2. CallStarted(r)'
      BY <1>2, <1>3, <2>1 DEF CallStarted
    <2>3. Truthful(r)'
      BY <1>0, <1>3, <2>1 DEF Truthful
    <2>4. Opening(r)'
      BY <1>0, <1>1, <1>3, <2>1 DEF Opening
    <2>5. Registering(r)'
      BY <1>0, <1>1, <1>3, <2>1 DEF Registering
    <2> QED BY <2>2, <2>3, <2>4, <2>5
  <1>4. ASSUME NEW err, Return(r, err), call[r].kind = "newAccounts" => err # "ok",
               call[r].kind \in {"open", "createFor"} => (err = "ok" <=> At(r, "audit")),
               call[r].kind = "delete" /\ err = "ok" => users'[U(r)].state = "deleted",
               call[r].kind # "transfer" /\ err = "customerNotFound" => ~Live(U(r))'
        PROVE  ReplyInv(r)'
    <2>1. /\ pc'[r] = "done"
          /\ reply'[r] = "ok" <=> err = "ok"
          /\ reply'[r] = "CustomerNotFound" =>
               err = "customerNotFound" /\ call[r].kind \notin {"createCustomer", "open"}
      BY <1>0, <1>4, AnswerIsTrue
    <2>2. CallStarted(r)'
      BY <1>2, <2>1 DEF CallStarted
    <2>3. Truthful(r)'
      BY <1>4, <2>1 DEF Truthful
    <2>4. Opening(r)'
      BY <1>0, <1>1, <1>4, <2>1 DEF Opening
    <2>5. Registering(r)'
      BY <1>0, <1>1, <1>4, <2>1 DEF Registering
    <2> QED BY <2>2, <2>3, <2>4, <2>5
  <1> QED BY <1>3, <1>4

\* A step of r that inserts the account it was opening: the first two kinds
\* then write the audit, a new user's two accounts follow each other.
Inserts(r) ==
  \E row \in AccountRow :
    /\ row.owner = U(r) /\ InsertAccount(r, row)
    /\ pc[r] \notin {"idle", "done"} /\ UNCHANGED <<call, users, shown>>
    /\ \/ At(r, "insert") /\ call[r].kind \in {"open", "createFor"} /\ Goto(r, "audit")
       \/ /\ At(r, "checking") /\ call[r].kind = "newAccounts" /\ row.type = "CHECKING"
          /\ Goto(r, "number2")
       \/ /\ At(r, "savings") /\ call[r].kind = "newAccounts" /\ row.type = "SAVINGS"
          /\ Return(r, "ok")

\* So does an insert.
LEMMA Inserting ==
  ASSUME TablesOK, LocalsOK, CallInv, NEW r \in Requests, ReplyInv(r), Inserts(r)
  PROVE  ReplyInv(r)'
  <1> USE DEF At, U
  <1>1. PICK row \in AccountRow :
          /\ row.owner = U(r) /\ InsertAccount(r, row)
          /\ pc[r] \notin {"idle", "done"} /\ UNCHANGED <<call, users, shown>>
          /\ \/ At(r, "insert") /\ call[r].kind \in {"open", "createFor"} /\ Goto(r, "audit")
             \/ /\ At(r, "checking") /\ call[r].kind = "newAccounts" /\ row.type = "CHECKING"
                /\ Goto(r, "number2")
             \/ /\ At(r, "savings") /\ call[r].kind = "newAccounts" /\ row.type = "SAVINGS"
                /\ Return(r, "ok")
    BY DEF Inserts
  <1> DEFINE k == <<r, row.type>>
  <1>2. accounts' = [a \in DOMAIN accounts \union {k} |-> IF a = k THEN row ELSE accounts[a]]
    BY <1>1 DEF InsertAccount
  <1>3. k \notin DOMAIN FirstAccounts /\ k[1] = r
    BY ConstantsAssumption DEF AccountRow
  <1>4. Mine(r)' = Mine(r) \union {k} /\ accounts'[k].owner = U(r)
    <2> HIDE DEF k
    <2> QED BY <1>1, <1>2, <1>3 DEF Mine
  <1>5. /\ reply[r] = "none"
        /\ \/ call[r].kind \in {"open", "createFor"} /\ pc'[r] = "audit" /\ reply'[r] = "none"
           \/ /\ call[r].kind = "newAccounts" /\ pc'[r] = "number2" /\ reply'[r] = "none"
              /\ At(r, "checking") /\ k = <<r, "CHECKING">>
           \/ /\ call[r].kind = "newAccounts" /\ pc'[r] = "done" /\ reply'[r] = "ok"
              /\ At(r, "savings") /\ k = <<r, "SAVINGS">>
    BY <1>1, AnswerIsTrue DEF Goto, CallInv, LocalsOK
  <1>6. CallStarted(r)'
    BY <1>1, <1>5 DEF ReplyInv, CallStarted, IdIsKnown, Created
  <1>7. Truthful(r)' /\ Showing(r)'
    BY <1>1, <1>5 DEF Truthful, Showing
  <1>8. Opening(r)' /\ Registering(r)'
    <2> HIDE DEF k
    <2> QED BY <1>1, <1>4, <1>5 DEF ReplyInv, Opening, Registering
  <1> QED BY <1>6, <1>7, <1>8 DEF ReplyInv

\* So does the start of a call.
LEMMA Starting ==
  ASSUME TablesOK, LocalsOK, CallInv, NEW r \in Requests, ReplyInv(r), Start(r)
  PROVE  ReplyInv(r)'
  <1> USE DEF At, U
  <1>1. PICK c \in Calls :
          /\ IdIsKnown(c) /\ call' = [call EXCEPT ![r] = c]
          /\ \/ Goto(r, FirstStatement[c.kind])
             \/ \E flaw \in DOMAIN Handler[c.kind] \intersect {"badId", "badBody", "invalid"} :
                  /\ pc' = [pc EXCEPT ![r] = "done"]
                  /\ reply' = [reply EXCEPT ![r] = Handler[c.kind][flaw]]
    BY DEF Start
  <1>2. c.kind \in Kinds /\ call'[r] = c
    BY <1>1, ConstantsAssumption DEF Call, LocalsOK
  <1>3. /\ FirstStatement[c.kind] = "northwind" => c.kind = "open"
        /\ FirstStatement[c.kind] \notin {"idle", "audit", "deleteAccounts", "number2", "savings"}
    BY <1>2 DEF Kinds, FirstStatement
  <1>4. \A flaw \in DOMAIN Handler[c.kind] \intersect {"badId", "badBody", "invalid"} :
          Handler[c.kind][flaw] \notin {"ok", "none", "CustomerNotFound"}
    BY <1>2 DEF Kinds, Handler, SearchCustomersHandler, GetProfileHandler, GetMyProfileHandler,
         CreateCustomerHandler, UpdateCustomerProfileHandler, UpdateMyEmailHandler,
         DeleteCustomerHandler, GetCustomerAccountsHandler, GetMyAccountsHandler,
         CreateAccountForCustomerHandler, TransferAccountOwnershipHandler,
         RequireAuthAccountHandler, CreateAccountHandler, GetAccountHandler
  <1>5. /\ pc'[r] = "northwind" => c.kind = "open"
        /\ pc'[r] \notin {"idle", "audit", "deleteAccounts", "number2", "savings"}
        /\ reply'[r] \notin {"ok", "CustomerNotFound"}
    <2>1. r \in DOMAIN pc /\ r \in DOMAIN reply /\ reply[r] = "none"
      BY DEF LocalsOK, CallInv, Start
    <2>2. CASE Goto(r, FirstStatement[c.kind])
      BY <1>3, <2>1, <2>2 DEF Goto
    <2>3. ASSUME NEW flaw \in DOMAIN Handler[c.kind] \intersect {"badId", "badBody", "invalid"},
                 pc' = [pc EXCEPT ![r] = "done"],
                 reply' = [reply EXCEPT ![r] = Handler[c.kind][flaw]]
          PROVE  <1>5
      BY <1>4, <2>1, <2>3
    <2> QED BY <1>1, <2>2, <2>3
  <1>6. shown'[r] = {} /\ Mine(r)' = {}
    BY DEF Start, ReplyInv, CallStarted, Mine
  <1>7. IdIsKnown(c)'
    BY <1>1 DEF Start, IdIsKnown, Created
  <1> QED BY <1>1, <1>2, <1>5, <1>6, <1>7
        DEF ReplyInv, CallStarted, Truthful, Opening, Registering, Showing

\* What r does the other calls survive.
LEMMA OneMoves ==
  ASSUME TablesOK, LocalsOK, NEW r \in Requests, \A q \in Requests : ReplyInv(q),
         ReplyInv(r)', UsersMove,
         \A q \in Requests \ {r} : RowsStay(q) /\ Untouched(q)
  PROVE  \A q \in Requests : ReplyInv(q)'
  <1>1. \A q \in Requests : call[q] \in Call
    BY DEF LocalsOK
  <1> QED BY <1>1, RepliesStay

\* Every step keeps what every request relies on.
LEMMA RepliesStep ==
  ASSUME TablesOK, LocalsOK, CallInv, RepliesInv, [Next]_vars
  PROVE  \A q \in Requests : ReplyInv(q)'
  <1> DEFINE Goal == \A q \in Requests : ReplyInv(q)'
             Others(r) == \A q \in Requests \ {r} : Untouched(q)
  <1> USE DEF At, U, Silent, Read
  <1>0. /\ \A r \in Requests : call[r] \in Call /\ U(r) \in Users
        /\ DOMAIN shown = Requests
        /\ \A r \in Requests : ReplyInv(r)
    BY DEF LocalsOK, Call, RepliesInv
  <1>u. UNCHANGED users => UsersMove
    BY DEF UsersMove, Live
  <1>a. UNCHANGED accounts => \A q \in Requests : RowsStay(q)
    BY DEF RowsStay
  <1>r. ASSUME NEW r \in Requests, NEW err, Return(r, err)
        PROVE  \A q \in Requests \ {r} : pc'[q] = pc[q] /\ reply'[q] = reply[q]
    BY <1>r, AnswerIsTrue DEF LocalsOK
  <1>g. ASSUME NEW r \in Requests, NEW p, Goto(r, p)
        PROVE  \A q \in Requests \ {r} : pc'[q] = pc[q] /\ reply'[q] = reply[q]
    BY <1>g DEF Goto, LocalsOK
  <1>m. ASSUME NEW r \in Requests, Moves(r), Others(r), \A q \in Requests \ {r} : RowsStay(q)
        PROVE  Goal
    BY <1>0, <1>m, Moving, OneMoves DEF Moves
  <1>i. ASSUME NEW r \in Requests, Inserts(r), Others(r)
        PROVE  Goal
    <2>1. PICK row \in AccountRow : InsertAccount(r, row) /\ UNCHANGED users
      BY <1>i DEF Inserts
    <2>2. ASSUME NEW q \in Requests \ {r} PROVE RowsStay(q)
      <3> DEFINE k == <<r, row.type>>
      <3>1. k \notin DOMAIN FirstAccounts /\ k[1] # q
        BY <2>2, ConstantsAssumption DEF AccountRow
      <3>2. accounts' = [a \in DOMAIN accounts \union {k} |-> IF a = k THEN row ELSE accounts[a]]
        BY <2>1 DEF InsertAccount
      <3> HIDE DEF k
      <3> QED BY <3>1, <3>2 DEF RowsStay
    <2> QED BY <1>0, <1>i, <1>u, <2>1, <2>2, Inserting, OneMoves
  <1>1. ASSUME NEW r \in Requests, Start(r) PROVE Goal
    <2>1. UsersMove /\ \A q \in Requests : RowsStay(q)
      BY <1>1, <1>u, <1>a DEF Start
    <2>2. Others(r)
      BY <1>1 DEF Start, Goto, LocalsOK, Untouched
    <2> QED BY <1>0, <1>1, <2>1, <2>2, Starting, OneMoves
  <1>2. ASSUME NEW r \in Requests, GetCustomerProfile(r) PROVE Goal
    <2>1. Others(r) /\ UNCHANGED accounts
      BY <1>2, <1>r DEF GetCustomerProfile, Untouched
    <2>2. Moves(r)
      BY <1>0, <1>2, <1>u, <1>a DEF GetCustomerProfile, Moves, Showing, Live
    <2> QED BY <1>a, <1>m, <2>1, <2>2
  <1>3. ASSUME NEW r \in Requests, CreateCustomer(r) PROVE Goal
    <2>1. Others(r) /\ UNCHANGED accounts
      BY <1>3, <1>r, <1>g DEF CreateCustomer, Untouched
    <2>2. Moves(r)
      <3>1. UsersMove
        <4>1. CASE UNCHANGED users
          BY <4>1, <1>u
        <4>2. CASE /\ users[U(r)].state = "absent"
                   /\ users' = [users EXCEPT ![U(r)] =
                        [state |-> "live", email |-> call[r].email, name |-> "old"]]
                   /\ At(r, "insertUser")
          <5>1. Created(U(r))
            BY <1>0, <1>3, <4>2 DEF CreateCustomer, Created, ReplyInv, CallStarted
          <5> QED BY <1>0, <4>2, <5>1 DEF UsersMove, Live, TablesOK
        <4> QED BY <1>3, <4>1, <4>2 DEF CreateCustomer
      <3>2. /\ pc[r] \notin {"idle", "done", "audit"} /\ UNCHANGED <<call, accounts>>
            /\ \/ Goto(r, "insertUser")
               \/ \E err : Return(r, err) /\ err # "customerNotFound"
        BY <1>3 DEF CreateCustomer
      <3> QED BY <1>3, <1>a, <3>1, <3>2 DEF CreateCustomer, Moves, Showing
    <2> QED BY <1>a, <1>m, <2>1, <2>2
  <1>4. ASSUME NEW r \in Requests, UpdateCustomerProfile(r) PROVE Goal
    <2>1. Others(r) /\ UNCHANGED accounts
      BY <1>4, <1>r, <1>g DEF UpdateCustomerProfile, Untouched
    <2>2. Moves(r)
      <3>1. UsersMove
        BY <1>0, <1>4, <1>u DEF UpdateCustomerProfile, UsersMove, Live, TablesOK, UserRow
      <3>2. /\ pc[r] \notin {"idle", "done", "audit"} /\ UNCHANGED <<call, accounts>>
            /\ \/ Goto(r, "updateFields")
               \/ \E err \in {"noColumn", "ok"} : Return(r, err)
               \/ Return(r, "customerNotFound") /\ ~Live(U(r))'
        BY <1>4 DEF UpdateCustomerProfile, Live
      <3> QED BY <1>4, <1>a, <3>1, <3>2 DEF UpdateCustomerProfile, Moves, Showing
    <2> QED BY <1>a, <1>m, <2>1, <2>2
  <1>5. ASSUME NEW r \in Requests, UpdateCustomerEmail(r) PROVE Goal
    <2>1. Others(r) /\ UNCHANGED accounts
      BY <1>5, <1>r, <1>g DEF UpdateCustomerEmail, Untouched
    <2>2. Moves(r)
      <3>1. UsersMove
        BY <1>0, <1>5, <1>u DEF UpdateCustomerEmail, UsersMove, Live, TablesOK, UserRow
      <3>2. /\ pc[r] \notin {"idle", "done", "audit"} /\ UNCHANGED <<call, accounts>>
            /\ \/ \E p \in {"findUser", "updateEmail"} : Goto(r, p)
               \/ \E err \in {"emailAlreadyExists", "ok"} : Return(r, err)
               \/ Return(r, "customerNotFound") /\ ~Live(U(r))'
        BY <1>5 DEF UpdateCustomerEmail, Live
      <3> QED BY <1>5, <1>a, <3>1, <3>2 DEF UpdateCustomerEmail, Moves, Showing
    <2> QED BY <1>a, <1>m, <2>1, <2>2
  <1>6. ASSUME NEW r \in Requests, DeleteCustomer(r) PROVE Goal
    <2>1. Others(r)
      BY <1>6, <1>r, <1>g DEF DeleteCustomer, Untouched
    <2>2. \A q \in Requests : RowsStay(q)
      <3>1. CASE SoftDeleteByUserID(U(r))
        BY <3>1 DEF SoftDeleteByUserID, RowsStay, TablesOK, AccountRow
      <3> QED BY <1>6, <1>a, <3>1 DEF DeleteCustomer
    <2>3. Moves(r)
      <3>1. UsersMove
        BY <1>0, <1>6, <1>u DEF DeleteCustomer, UsersMove, Live, TablesOK, UserRow
      <3>2. /\ pc[r] \notin {"idle", "done", "audit"} /\ UNCHANGED call
            /\ \/ \E p \in {"sumBalances", "deleteUser"} : Goto(r, p)
               \/ Goto(r, "deleteAccounts") /\ users'[U(r)].state = "deleted"
               \/ Return(r, "customerHasBalance")
               \/ Return(r, "ok") /\ users'[U(r)].state = "deleted"
               \/ Return(r, "customerNotFound") /\ ~Live(U(r))'
        <4>1. At(r, "deleteAccounts") => users[U(r)].state = "deleted"
          BY <1>0, <1>6 DEF DeleteCustomer, ReplyInv, Truthful
        <4>2. users' = [users EXCEPT ![U(r)].state = "deleted"] => users'[U(r)].state = "deleted"
          BY <1>0 DEF TablesOK, UserRow
        <4> QED BY <1>6, <4>1, <4>2 DEF DeleteCustomer, Live
      <3> QED BY <1>6, <2>2, <3>1, <3>2 DEF DeleteCustomer, Moves, Showing
    <2> QED BY <1>m, <2>1, <2>2, <2>3
  <1>7. ASSUME NEW r \in Requests, GetCustomerAccounts(r) PROVE Goal
    <2>1. Others(r) /\ UNCHANGED <<users, accounts>>
      BY <1>0, <1>7, <1>r, <1>g DEF GetCustomerAccounts, Untouched, LocalsOK
    <2>2. /\ pc[r] \notin {"idle", "done", "audit"} /\ UNCHANGED call
          /\ \/ Goto(r, "list") \/ Return(r, "ok")
             \/ Return(r, "customerNotFound") /\ ~Live(U(r))'
      BY <1>7 DEF GetCustomerAccounts, Live
    <2>3. Moves(r)
      BY <1>7, <1>a, <1>u, <2>1, <2>2 DEF GetCustomerAccounts, Moves, Showing
    <2> QED BY <1>a, <1>m, <2>1, <2>3
  <1>8. ASSUME NEW r \in Requests, CreateAccountForCustomer(r) PROVE Goal
    <2>1. Others(r)
      BY <1>8, <1>r, <1>g DEF CreateAccountForCustomer, GenerateUniqueAccountNumber, Untouched
    <2>2. /\ pc[r] \notin {"idle", "done"} /\ UNCHANGED <<call, users, shown>>
          /\ \/ UNCHANGED accounts /\ ~At(r, "audit") /\ \E p \in {"number", "insert"} : Goto(r, p)
             \/ UNCHANGED accounts /\ At(r, "audit") /\ Return(r, "ok")
             \/ /\ UNCHANGED accounts /\ ~At(r, "audit")
                /\ \E err \in {"invalidAccountType", "noNumber", "duplicate"} : Return(r, err)
             \/ /\ UNCHANGED accounts /\ ~At(r, "audit")
                /\ Return(r, "customerNotFound") /\ ~Live(U(r))'
             \/ /\ At(r, "insert") /\ Goto(r, "audit")
                /\ \E row \in AccountRow : row.owner = U(r) /\ InsertAccount(r, row)
      BY <1>8, RowsOpened DEF CreateAccountForCustomer, GenerateUniqueAccountNumber, Opened, Live
    <2>3. \/ Moves(r) /\ UNCHANGED accounts
          \/ Inserts(r)
      <3>1. call[r].kind = "createFor"
        BY <1>8 DEF CreateAccountForCustomer
      <3> QED BY <1>u, <1>a, <2>2, <3>1 DEF Moves, Inserts, Showing
    <2> QED BY <1>a, <1>m, <1>i, <2>1, <2>3
  <1>9. ASSUME NEW r \in Requests, TransferAccountOwnership(r) PROVE Goal
    <2>1. Others(r) /\ UNCHANGED <<users, accounts>>
      BY <1>9, <1>r, <1>g DEF TransferAccountOwnership, UpdateOwnership, Untouched
    <2>2. /\ pc[r] \notin {"idle", "done", "audit"} /\ UNCHANGED call
          /\ \/ \E p \in {"findUser", "findTo", "update"} : Goto(r, p)
             \/ \E err : Return(r, err)
      BY <1>9 DEF TransferAccountOwnership, UpdateOwnership
    <2>3. Moves(r)
      BY <1>9, <1>a, <1>u, <2>1, <2>2 DEF TransferAccountOwnership, Moves, Showing
    <2> QED BY <1>a, <1>m, <2>1, <2>3
  <1>10. ASSUME NEW r \in Requests, AuthAccount(r) PROVE Goal
    <2>1. Others(r) /\ UNCHANGED <<users, accounts>>
      BY <1>10, <1>r, <1>g DEF AuthAccount, Untouched
    <2>2. /\ At(r, "northwind") /\ UNCHANGED call /\ call[r].kind = "open"
          /\ \/ Goto(r, "findUser")
             \/ \E err \in {"northwindError", "panic", "northwindUnknown"} : Return(r, err)
      BY <1>0, <1>10 DEF AuthAccount, ReplyInv, CallStarted
    <2>3. Moves(r)
      BY <1>a, <1>u, <2>1, <2>2 DEF Moves, Showing
    <2> QED BY <1>a, <1>m, <2>1, <2>3
  <1>11. ASSUME NEW r \in Requests, CreateAccount(r) PROVE Goal
    <2>1. Others(r)
      BY <1>11, <1>r, <1>g DEF CreateAccount, Untouched
    <2>2. /\ pc[r] \notin {"idle", "done", "northwind"} /\ UNCHANGED <<call, users, shown>>
          /\ \/ UNCHANGED accounts /\ ~At(r, "audit") /\ \E p \in {"exists", "insert"} : Goto(r, p)
             \/ UNCHANGED accounts /\ At(r, "audit") /\ Return(r, "ok")
             \/ /\ UNCHANGED accounts /\ ~At(r, "audit")
                /\ \E err \in {"userNotFound", "accountAlreadyExists", "invalidAmount",
                               "duplicate"} : Return(r, err)
             \/ /\ At(r, "insert") /\ Goto(r, "audit")
                /\ \E row \in AccountRow : row.owner = U(r) /\ InsertAccount(r, row)
      BY <1>11, RowsOpened DEF CreateAccount, Opened
    <2>3. \/ Moves(r) /\ UNCHANGED accounts
          \/ Inserts(r)
      BY <1>11, <1>u, <1>a, <2>2 DEF CreateAccount, Moves, Inserts, Showing
    <2> QED BY <1>a, <1>m, <1>i, <2>1, <2>3
  <1>12. ASSUME NEW r \in Requests, CreateAccountsForNewUser(r) PROVE Goal
    <2>1. Others(r)
      BY <1>12, <1>r, <1>g DEF CreateAccountsForNewUser, CreateAccountWithSampleData,
         GenerateUniqueAccountNumber, Untouched
    <2>2. /\ pc[r] \notin {"idle", "done", "audit"} /\ UNCHANGED <<call, users, shown>>
          /\ \/ UNCHANGED accounts /\ At(r, "number") /\ Goto(r, "checking")
             \/ UNCHANGED accounts /\ At(r, "number2") /\ Goto(r, "savings")
             \/ UNCHANGED accounts /\ \E err \in {"noNumber", "failed"} : Return(r, err)
             \/ /\ At(r, "checking") /\ Goto(r, "number2")
                /\ \E row \in AccountRow : /\ row.owner = U(r) /\ row.type = "CHECKING"
                                          /\ InsertAccount(r, row)
             \/ /\ At(r, "savings") /\ Return(r, "ok")
                /\ \E row \in AccountRow : /\ row.owner = U(r) /\ row.type = "SAVINGS"
                                          /\ InsertAccount(r, row)
      <3>1. CASE At(r, "checking")
        BY <1>12, <3>1, RowsOpened DEF CreateAccountsForNewUser, CreateAccountWithSampleData,
           Opened, NewAccount
      <3>2. CASE At(r, "savings")
        BY <1>12, <3>2, RowsOpened DEF CreateAccountsForNewUser, CreateAccountWithSampleData,
           Opened, NewAccount
      <3> QED BY <1>12, <3>1, <3>2 DEF CreateAccountsForNewUser, GenerateUniqueAccountNumber
    <2>3. \/ Moves(r) /\ UNCHANGED accounts
          \/ Inserts(r)
      BY <1>12, <1>u, <1>a, <2>2 DEF CreateAccountsForNewUser, Moves, Inserts, Showing
    <2> QED BY <1>a, <1>m, <1>i, <2>1, <2>3
  <1>13. ASSUME NEW r \in Requests, GetAccountByID(r) PROVE Goal
    <2>1. Others(r) /\ UNCHANGED <<users, accounts, call>>
      BY <1>0, <1>13, <1>r, <1>g DEF GetAccountByID, Untouched, LocalsOK
    <2>2. /\ pc[r] \notin {"idle", "done", "audit"}
          /\ \/ Goto(r, "findUser")
             \/ \E err \in {"accountNotFound", "ok", "unauthorized"} : Return(r, err)
      BY <1>13 DEF GetAccountByID
    <2>3. call[r].account \in DOMAIN FirstAccounts
      BY <1>0 DEF Call
    <2>4. Showing(r)'
      <3>1. \/ shown' = shown
            \/ /\ shown' = [shown EXCEPT ![r] = {call[r].account}]
               /\ U(r) \in Admins \/ call[r].account \in AccountsOf(U(r))
        BY <1>13 DEF GetAccountByID
      <3>2. CASE shown' = shown
        BY <1>0, <2>1, <3>2 DEF Showing, ReplyInv
      <3>3. CASE /\ shown' = [shown EXCEPT ![r] = {call[r].account}]
                 /\ U(r) \in Admins \/ call[r].account \in AccountsOf(U(r))
        <4>1. shown'[r] \subseteq {call[r].account}
          BY <1>0, <3>3
        <4> QED BY <2>1, <2>3, <3>3, <4>1 DEF Showing, AccountsOf, LiveAccounts
      <3> QED BY <3>1, <3>2, <3>3
    <2>5. Moves(r)
      BY <1>13, <1>a, <1>u, <2>1, <2>2, <2>4 DEF GetAccountByID, Moves
    <2> QED BY <1>a, <1>m, <2>1, <2>5
  <1>14. ASSUME NEW r \in Requests, SearchCustomers(r) PROVE Goal
    <2>1. Others(r) /\ UNCHANGED <<users, accounts, call>>
      BY <1>0, <1>14, <1>r, <1>g DEF SearchCustomers, Untouched, LocalsOK
    <2>2. /\ pc[r] \notin {"idle", "done", "audit"}
          /\ Goto(r, "count") \/ Return(r, "ok")
      BY <1>14 DEF SearchCustomers
    <2>3. Moves(r)
      BY <1>14, <1>a, <1>u, <2>1, <2>2 DEF SearchCustomers, Moves, Showing
    <2> QED BY <1>a, <1>m, <2>1, <2>3
  <1>15. ASSUME NEW r \in Requests, StatementFails(r) PROVE Goal
    <2>1. Others(r) /\ UNCHANGED <<users, accounts, call, shown>>
      BY <1>15, <1>r DEF StatementFails, Untouched
    <2>2. /\ pc[r] \notin {"idle", "done", "northwind"}
          /\ \/ At(r, "audit") /\ Return(r, "ok")
             \/ ~At(r, "audit") /\ \E err \in {"unauthorized", "databaseError"} : Return(r, err)
      BY <1>15 DEF StatementFails
    <2>3. Moves(r)
      <3>1. At(r, "audit") => call[r].kind \in {"open", "createFor"}
        BY <1>0, <2>2 DEF ReplyInv, CallStarted
      <3>2. Showing(r)'
        BY <1>0, <2>1 DEF ReplyInv, Showing
      <3> QED BY <1>a, <1>u, <2>1, <2>2, <3>1, <3>2 DEF Moves
    <2> QED BY <1>a, <1>m, <2>1, <2>3
  <1>16. CASE Elsewhere
    <2>1. UNCHANGED <<users, pc, call, reply, shown>>
      BY <1>16 DEF Elsewhere
    <2>2. \A q \in Requests : RowsStay(q)
      <3>1. PICK a \in DOMAIN accounts, row \in AccountRow : SavedAgain(a, row)
        BY <1>16, Saving
      <3> QED BY <3>1 DEF SavedAgain, RowsStay
    <2> QED BY <1>0, <1>u, <2>1, <2>2, RepliesStay DEF Untouched
  <1>17. CASE UNCHANGED vars
    <2>1. UNCHANGED <<users, accounts, pc, call, reply, shown>>
      BY <1>17 DEF vars
    <2> QED BY <1>0, <1>u, <1>a, <2>1, RepliesStay DEF Untouched
  <1> QED
    BY <1>1, <1>2, <1>3, <1>4, <1>5, <1>6, <1>7, <1>8, <1>9, <1>10, <1>11,
       <1>12, <1>13, <1>14, <1>15, <1>16, <1>17 DEF Next, Serve

\* shown stays a function of the requests.
LEMMA ShownStep ==
  LocalsOK /\ DOMAIN shown = Requests /\ [Next]_vars => DOMAIN shown' = Requests
  <1>1. ASSUME NEW r \in Requests, Serve(r), DOMAIN shown = Requests
        PROVE  DOMAIN shown' = Requests
    BY <1>1 DEF Serve, GetCustomerProfile, CreateCustomer, UpdateCustomerProfile,
       UpdateCustomerEmail, DeleteCustomer, GetCustomerAccounts, CreateAccountForCustomer,
       GenerateUniqueAccountNumber, TransferAccountOwnership, AuthAccount, CreateAccount,
       CreateAccountsForNewUser, CreateAccountWithSampleData, GetAccountByID,
       SearchCustomers, Silent
  <1> QED BY <1>1 DEF Next, Start, StatementFails, Elsewhere, Silent, vars

\* Every request may rely on what it has read and inserted, at every statement.
THEOREM RepliesCorrect == Spec => [](CustomerInv /\ RepliesInv)
  <1>1. Init => RepliesInv
    BY DEF Init, RepliesInv, ReplyInv, CallStarted, Truthful, Opening, Registering, Showing, Mine, At
  <1>2. CustomerInv /\ RepliesInv /\ [Next]_vars => CustomerInv' /\ RepliesInv'
    <2>1. CustomerInv /\ [Next]_vars => CustomerInv'
      BY Shapes, HistoryKept, TablesStep, OrphansStep DEF CustomerInv, Shape
    <2>2. CustomerInv /\ RepliesInv /\ [Next]_vars => RepliesInv'
      BY RepliesStep, ShownStep DEF CustomerInv, RepliesInv
    <2> QED BY <2>1, <2>2
  <1> QED BY CustomerInit, <1>1, <1>2, PTL DEF Spec

\* What a caller is told is so, whatever the other requests did between its
\* statements and whatever statement failed: a customer reported missing is not
\* there, one reported deleted is deleted, a created account exists and is the
\* customer's, a refused opening left none, a new user has both accounts, and
\* nobody but its owner or an admin is shown an account.
THEOREM RepliesTrue == Spec => []RepliesAreTrue
  <1>1. ASSUME CustomerInv, \A r \in Requests : ReplyInv(r), NEW r \in Requests
        PROVE  /\ call[r].kind = "delete" /\ reply[r] = "ok" => users[U(r)].state = "deleted"
               /\ reply[r] = "CustomerNotFound" /\ call[r].kind # "transfer" => ~Live(U(r))
               /\ call[r].kind \in {"open", "createFor"} =>
                    /\ reply[r] = "ok" => \E a \in Mine(r) : accounts[a].owner = U(r)
                    /\ reply[r] \notin {"none", "ok"} => Mine(r) = {}
               /\ call[r].kind = "newAccounts" /\ reply[r] = "ok" => Cardinality(Mine(r)) = 2
               /\ call[r].kind = "account" =>
                    \A a \in shown[r] : accounts[a].owner = U(r) \/ U(r) \in Admins
    <2>1. Cardinality({<<r, "CHECKING">>, <<r, "SAVINGS">>}) = 2
      <3> DEFINE x == <<r, "CHECKING">>
                 y == <<r, "SAVINGS">>
      <3>1. y \notin {x} /\ {x, y} = {x} \union {y}
        OBVIOUS
      <3> HIDE DEF x, y
      <3>2. IsFiniteSet({x}) /\ Cardinality({x}) = 1
        BY FS_Singleton
      <3>3. Cardinality({x} \union {y}) = IF y \in {x} THEN 1 ELSE 1 + 1
        BY <3>2, FS_AddElement
      <3>4. Cardinality({x, y}) = 2
        BY <3>1, <3>3
      <3> QED BY <3>4 DEF x, y
    <2> QED BY <1>1, <2>1 DEF ReplyInv, Truthful, Opening, Registering, Showing
  <1>2. CustomerInv /\ RepliesInv => RepliesAreTrue
    BY <1>1 DEF RepliesAreTrue, Mine, RepliesInv
  <1> QED BY RepliesCorrect, <1>2, PTL

=============================================================================
