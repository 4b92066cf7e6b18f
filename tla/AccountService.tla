--------------------------- MODULE AccountService ---------------------------
(***************************************************************************)
(* The operations of services/account_service.go that move money or change *)
(* an account row, as concurrent requests over the tables accounts,        *)
(* transfers, transactions and audit_logs:                                 *)
(*                                                                         *)
(*   transfer        TransferBetweenAccounts                               *)
(*   credit, debit   PerformTransaction                                    *)
(*   status          UpdateAccountStatus, and CloseAccount (status closed) *)
(*                                                                         *)
(* One request is one handler goroutine.  One action is one SQL statement, *)
(* with the Go code that runs between it and the next one.  Postgres runs  *)
(* at READ COMMITTED: a statement sees committed rows only, an UPDATE      *)
(* waits for the row lock and keeps it until its transaction ends.  A      *)
(* SELECT never locks: the service asks for FOR UPDATE in the form of GORM *)
(* v1, which the pinned GORM v2 ignores.                                   *)
(***************************************************************************)
EXTENDS Integers, FiniteSets

CONSTANTS
  Accounts,        \* ids of existing account rows
  Users,           \* callers
  Admins,          \* the callers with role admin
  Owner,           \* Owner[a]: the user_id of account a
  Keys,            \* idempotency keys
  NoKey,           \* the key of an operation that carries none
  Requests,        \* handler goroutines; bounds the number of calls
  Nobody,          \* "no request"
  Operations,      \* the calls clients may make
  OpeningBalance,  \* OpeningBalance[a]: the balance a starts with
  WritesBack,      \* does Model(row).Update(column, v) assign v to row?  TRUE
                   \* for the pinned GORM; FALSE is what its callers expect
  Faults           \* which of "crash", "error", "ackLost" may happen

Statuses == {"active", "inactive", "closed"}
Row == [balance : Int, status : Statuses]
Kinds == {"transfer", "credit", "debit", "status"}
Operation == [kind : Kinds, from : Accounts, to : Accounts, amount : Int,
              key : Keys \union {NoKey}, user : Users, status : Statuses]

Transfer(u, a, b, n, k) ==
  [kind |-> "transfer", from |-> a, to |-> b, amount |-> n, key |-> k,
   user |-> u, status |-> "active"]
Post(u, kind, a, n) ==
  [kind |-> kind, from |-> a, to |-> a, amount |-> n, key |-> NoKey,
   user |-> u, status |-> "active"]
SetStatus(u, a, s) ==
  [kind |-> "status", from |-> a, to |-> a, amount |-> 0, key |-> NoKey,
   user |-> u, status |-> s]

ASSUME ConstantsAssumption ==
  /\ Admins \subseteq Users
  /\ Owner \in [Accounts -> Users]
  /\ Nobody \notin Requests
  /\ NoKey \notin Keys
  /\ Operations \subseteq Operation
  /\ \A o \in Operations : o.kind = "transfer" => o.key \in Keys
  /\ OpeningBalance \in [Accounts -> Nat]
  /\ WritesBack \in BOOLEAN
  /\ Faults \subseteq {"crash", "error", "ackLost"}

VARIABLES
  accounts,   \* table accounts: committed rows
  transfers,  \* table transfers, by its unique idempotency_key
  ledger,     \* table transactions: the set of its rows
  audit,      \* table audit_logs: requests that have a row, with the outcome
  lock,       \* lock[a]: the request whose open transaction locks row a
  pc,         \* pc[r]: the statement request r is about to send
  op,         \* op[r]: its call
  seen,       \* seen[r]: the account row the service read
  src,        \* src[r]: the row of op.from read inside the transaction
  dst,        \* dst[r]: the row of op.to read inside the transaction
  reply,      \* reply[r]: what the service method returns
  applied,    \* history: requests whose money movement has committed
  overwritten \* history: accounts whose row was written from a copy that was
              \* no longer the row

tables == <<accounts, transfers, ledger, audit>>
locals == <<op, seen, src, dst>>
history == <<applied, overwritten>>
vars == <<accounts, transfers, ledger, audit, lock, pc, op, seen, src, dst,
          reply, applied, overwritten>>

-----------------------------------------------------------------------------
(* Rows of the table transactions *)

(* An operator that a comment calls a slip is a mistake the code does not  *)
(* make: the specification does not use it, the properties must notice it. *)

LedgerRow(r, a, type, before, after) ==
  [req |-> r, account |-> a, type |-> type, amount |-> op[r].amount,
   before |-> before, after |-> after]

\* Slip: a debit adds.
SignedAlwaysAdds(type, n) == n

Signed(type, n) == IF type = "credit" THEN n ELSE -n

\* Transaction.ensureBalanceIsCorrect, run by the BeforeCreate hook
BalanceIsCorrect(row) == row.before + Signed(row.type, row.amount) = row.after

\* The rows ExecuteAtomicTransfer inserts: BalanceBefore is read from the
\* account struct after Model(acct).Update("balance", after).
TransferRow(r, a, type, balance) ==
  LET after == balance + Signed(type, op[r].amount)
  IN LedgerRow(r, a, type, IF WritesBack THEN after ELSE balance, after)

DebitRow(r) == TransferRow(r, op[r].from, "debit", src[r].balance)
\* Slip: the credit is filed under the source.
CreditRowMisfiled(r) == TransferRow(r, op[r].from, "credit", dst[r].balance)

CreditRow(r) == TransferRow(r, op[r].to, "credit", dst[r].balance)

\* Slip: every row is a credit.
PostingRowAlwaysCredit(r) ==
  LedgerRow(r, op[r].from, "credit", seen[r].balance,
            seen[r].balance + op[r].amount)

\* The row PerformTransaction inserts quotes the balance it read before
\* UpdateBalance.
PostingRow(r) ==
  LedgerRow(r, op[r].from, op[r].kind, seen[r].balance,
            seen[r].balance + Signed(op[r].kind, op[r].amount))

-----------------------------------------------------------------------------
(* Steps of a request *)

Goto(r, p) == pc' = [pc EXCEPT ![r] = p] /\ UNCHANGED reply
Answer(r, p, a) == pc' = [pc EXCEPT ![r] = p] /\ reply' = [reply EXCEPT ![r] = a]
Return(r, a) == Answer(r, "done", a)

TransferTx == {"debitRead", "debitWrite", "creditRead", "creditWrite"}
Statements == TransferTx \union
  {"checkKey", "readFrom", "readTo", "claim", "complete", "fail", "read",
   "findUser", "balanceRead", "balanceWrite", "record", "saveRow", "audit"}

CanLock(r, a) == lock[a] \in {r, Nobody}
Lock(r, a) == lock' = [lock EXCEPT ![a] = r]

\* Slip: the transaction is never ended.
UnlockNothing(r) == UNCHANGED lock

Unlock(r) == lock' = [a \in Accounts |-> IF lock[a] = r THEN Nobody ELSE lock[a]]

\* The accounts of A whose row is not the given copy of it
Stale(A, copy) == {a \in A : accounts[a] # copy[a]}
Overwrites(A, copy) == overwritten' = overwritten \union Stale(A, copy)

\* What the code does when the statement at pc[r] returns an error.  An
\* error inside a transaction rolls it back, which drops its row locks.
OnError(r) ==
  /\ Unlock(r)
  /\ \/ pc[r] \in TransferTx /\ Answer(r, "fail", "error")
     \/ pc[r] = "fail" /\ Goto(r, "audit")
     \/ pc[r] = "audit" /\ Goto(r, "done")
     \/ pc[r] = "findUser" /\ Return(r, "refused")
     \/ pc[r] \in Statements \ (TransferTx \union {"fail", "audit", "findUser"})
        /\ Return(r, "error")

\* A committed write is acknowledged, or the connection breaks first
AckLost(r) == "ackLost" \in Faults /\ OnError(r)

-----------------------------------------------------------------------------
(* Arrival *)

\* validateTransferRequest, and the amount check of PerformTransaction
Valid(o) ==
  /\ o.kind \in {"transfer", "credit", "debit"} => o.amount > 0
  /\ o.kind = "transfer" => o.from # o.to

Start(r) ==
  /\ pc[r] = "idle"
  /\ \E o \in Operations :
       /\ op' = [op EXCEPT ![r] = o]
       /\ IF ~Valid(o) THEN Return(r, "refused")
          ELSE Goto(r, IF o.kind = "transfer" THEN "checkKey" ELSE "read")
  /\ UNCHANGED <<tables, lock, seen, src, dst, history>>

-----------------------------------------------------------------------------
(* TransferBetweenAccounts *)

\* Slip: a transfer in progress is replayed as if completed.
KeyReplyPendingIsDone ==
  [completed |-> "replayed", pending |-> "replayed", failed |-> "previouslyFailed"]

KeyReply == [completed |-> "replayed", pending |-> "stillProcessing",
             failed |-> "previouslyFailed"]

CheckExistingTransfer(r) ==
  /\ pc[r] = "checkKey"
  /\ LET t == transfers[op[r].key]
     IN IF t.status = "absent" THEN Goto(r, "readFrom")
        ELSE Return(r, KeyReply[t.status])
  /\ UNCHANGED <<tables, lock, locals, history>>

RetrieveFromAccount(r) ==
  /\ pc[r] = "readFrom"
  /\ seen' = [seen EXCEPT ![r] = accounts[op[r].from]]
  /\ Goto(r, "readTo")
  /\ UNCHANGED <<tables, lock, op, src, dst, history>>

RetrieveToAccount(r) ==
  /\ pc[r] = "readTo"
  /\ IF /\ Owner[op[r].from] = op[r].user
        /\ seen[r].status = "active"
        /\ accounts[op[r].to].status = "active"
     THEN Goto(r, "claim") ELSE Return(r, "refused")
  /\ UNCHANGED <<tables, lock, locals, history>>

\* Slip: the table has no unique index.
KeyIsFreeAlways(k) == TRUE

\* The unique index on idempotency_key
KeyIsFree(k) == transfers[k].status = "absent"

\* transferRepo.Create: the unique index lets one request own the key
CreateTransfer(r) ==
  /\ pc[r] = "claim"
  /\ LET k == op[r].key
     IN IF ~KeyIsFree(k)
        THEN Return(r, "error") /\ UNCHANGED <<transfers, lock>>
        ELSE /\ transfers' = [transfers EXCEPT
                                ![k] = [status |-> "pending", by |-> r]]
             /\ \/ Goto(r, "debitRead") /\ UNCHANGED lock
                \/ AckLost(r)
  /\ UNCHANGED <<accounts, ledger, audit, locals, history>>

\* Slip: the balance is not checked.
CoversUnchecked(row, n) == row.status = "active"

\* The checks of a row about to be debited
Covers(row, n) == row.status = "active" /\ row.balance >= n

\* ExecuteAtomicTransfer, four statements of one database transaction.  Its
\* errors are the repository's, which mapTransferErr does not know: a caller
\* without the money is told of an internal error.
SelectSource(r) ==
  /\ pc[r] = "debitRead"
  /\ LET row == accounts[op[r].from]
     IN IF Covers(row, op[r].amount)
        THEN src' = [src EXCEPT ![r] = row] /\ Goto(r, "debitWrite")
        ELSE Answer(r, "fail", "error") /\ UNCHANGED src
  /\ UNCHANGED <<tables, lock, op, seen, dst, history>>

UpdateSource(r) ==
  /\ pc[r] = "debitWrite"
  /\ CanLock(r, op[r].from)
  /\ IF BalanceIsCorrect(DebitRow(r))
     THEN Lock(r, op[r].from) /\ Goto(r, "creditRead")
     ELSE Unlock(r) /\ Answer(r, "fail", "error")
  /\ UNCHANGED <<tables, locals, history>>

SelectDestination(r) ==
  /\ pc[r] = "creditRead"
  /\ LET row == accounts[op[r].to]
     IN IF row.status = "active"
        THEN dst' = [dst EXCEPT ![r] = row] /\ Goto(r, "creditWrite") /\ UNCHANGED lock
        ELSE Unlock(r) /\ Answer(r, "fail", "error") /\ UNCHANGED dst
  /\ UNCHANGED <<tables, op, seen, src, history>>

\* The rows of both accounts as the transfer read them
TransferCopy(r) == [a \in {op[r].from, op[r].to} |->
                      IF a = op[r].from THEN src[r] ELSE dst[r]]

\* Slip: the debited row is not written.
TransferBalancesCreditOnly(r) ==
  [accounts EXCEPT ![op[r].to].balance = dst[r].balance + op[r].amount]

\* The balances of both accounts, each computed from the row read before
TransferBalances(r) ==
  [accounts EXCEPT ![op[r].from].balance = src[r].balance - op[r].amount,
                   ![op[r].to].balance = dst[r].balance + op[r].amount]

\* The last UPDATE and INSERT, and COMMIT: no statement of another request
\* can tell them apart, the row locks are held throughout.
UpdateDestinationAndCommit(r) ==
  /\ pc[r] = "creditWrite"
  /\ CanLock(r, op[r].to)
  /\ IF BalanceIsCorrect(CreditRow(r))
     THEN /\ accounts' = TransferBalances(r)
          /\ Overwrites({op[r].from, op[r].to}, TransferCopy(r))
          /\ ledger' = ledger \union {DebitRow(r), CreditRow(r)}
          /\ applied' = applied \union {r}
          /\ \/ Unlock(r) /\ Goto(r, "complete")
             \/ AckLost(r)
     ELSE /\ Unlock(r) /\ Answer(r, "fail", "error")
          /\ UNCHANGED <<accounts, ledger, history>>
  /\ UNCHANGED <<transfers, audit, locals>>

\* Slips: the row is not saved, or always saved with one status.
TransferUpdateLost(r, s) == UNCHANGED transfers
TransferUpdateCompletes(r, s) ==
  transfers' = [transfers EXCEPT ![op[r].key].status = "completed"]

\* transferRepo.Update
TransferUpdate(r, s) == transfers' = [transfers EXCEPT ![op[r].key].status = s]

\* handleTransferSuccess: transfer.Complete and transferRepo.Update
CompleteTransfer(r) ==
  /\ pc[r] = "complete"
  /\ TransferUpdate(r, "completed")
  /\ \/ Answer(r, "audit", "ok") /\ UNCHANGED lock
     \/ AckLost(r)
  /\ UNCHANGED <<accounts, ledger, audit, locals, history>>

\* handleTransferFailure: transfer.Fail and transferRepo.Update, whose
\* error is only logged
FailTransfer(r) ==
  /\ pc[r] = "fail"
  /\ TransferUpdate(r, "failed")
  /\ Goto(r, "audit")
  /\ UNCHANGED <<accounts, ledger, audit, lock, locals, history>>

-----------------------------------------------------------------------------
(* PerformTransaction, UpdateAccountStatus, CloseAccount *)

\* Slip: an account is closed whatever it holds.
MayBecomeUnchecked(row, status) == row.status # "closed"

\* Account.Activate, Deactivate and Close
MayBecome(row, status) ==
  /\ row.status # "closed"
  /\ status = "closed" => row.balance = 0

\* Slip: a status change is not checked against the row.
ContinueUnchecked(r, row) ==
  Goto(r, IF op[r].kind = "status" THEN "saveRow" ELSE "balanceRead")

\* What the service does with a row the caller may use
Continue(r, row) ==
  CASE op[r].kind = "status" /\ MayBecome(row, op[r].status) -> Goto(r, "saveRow")
    [] op[r].kind # "status" /\ row.status = "active" -> Goto(r, "balanceRead")
    [] OTHER -> Return(r, "refused")

GetAccount(r) ==
  /\ pc[r] = "read"
  /\ LET row == accounts[op[r].from]
     IN /\ seen' = [seen EXCEPT ![r] = row]
        /\ IF Owner[op[r].from] = op[r].user THEN Continue(r, row)
           ELSE Goto(r, "findUser")
  /\ UNCHANGED <<tables, lock, op, src, dst, history>>

\* GetAccountByID's second statement: who does not own the account must be
\* an administrator
FindUser(r) ==
  /\ pc[r] = "findUser"
  /\ IF op[r].user \in Admins THEN Continue(r, seen[r]) ELSE Return(r, "refused")
  /\ UNCHANGED <<tables, lock, locals, history>>

\* accountRepo.UpdateBalance: SELECT and checks.  PerformTransaction knows
\* the repository's ErrInsufficientFunds only.
SelectForBalance(r) ==
  /\ pc[r] = "balanceRead"
  /\ LET row == accounts[op[r].from]
     IN \/ /\ row.status # "active"
           /\ Return(r, "error") /\ UNCHANGED src
        \/ /\ row.status = "active" /\ op[r].kind = "debit"
           /\ ~Covers(row, op[r].amount)
           /\ Return(r, "refused") /\ UNCHANGED src
        \/ /\ row.status = "active"
           /\ op[r].kind = "debit" => Covers(row, op[r].amount)
           /\ src' = [src EXCEPT ![r] = row] /\ Goto(r, "balanceWrite")
  /\ UNCHANGED <<tables, lock, op, seen, dst, history>>

\* accountRepo.UpdateBalance: Save writes every column back, and COMMIT
SaveBalance(r) ==
  /\ pc[r] = "balanceWrite"
  /\ CanLock(r, op[r].from)
  /\ accounts' = [accounts EXCEPT ![op[r].from] =
       [src[r] EXCEPT !.balance = @ + Signed(op[r].kind, op[r].amount)]]
  /\ Overwrites({op[r].from}, [a \in {op[r].from} |-> src[r]])
  /\ applied' = applied \union {r}
  /\ \/ Unlock(r) /\ Goto(r, "record")
     \/ AckLost(r)
  /\ UNCHANGED <<transfers, ledger, audit, locals>>

\* transactionRepo.Create, with the balance read before UpdateBalance
RecordTransaction(r) ==
  /\ pc[r] = "record"
  /\ ledger' = ledger \union {PostingRow(r)}
  /\ \/ Answer(r, "audit", "ok") /\ UNCHANGED lock
     \/ AckLost(r)
  /\ UNCHANGED <<accounts, transfers, audit, locals, history>>

\* accountRepo.Update: Save writes every column of the row read earlier
SaveStatus(r) ==
  /\ pc[r] = "saveRow"
  /\ CanLock(r, op[r].from)
  /\ accounts' = [accounts EXCEPT ![op[r].from] =
       [seen[r] EXCEPT !.status = op[r].status]]
  /\ Overwrites({op[r].from}, [a \in {op[r].from} |-> seen[r]])
  /\ \/ Answer(r, "audit", "ok") /\ UNCHANGED lock
     \/ AckLost(r)
  /\ UNCHANGED <<transfers, ledger, audit, locals, applied>>

\* Slip: failures are audited as successes.
OutcomeDone(r) == "done"

\* The action and metadata of the audit row, by what happened to the call
Outcome(r) == IF reply[r] = "ok" THEN "done" ELSE "failed"

\* auditRepo.Create, the last statement of every operation that got so far
CreateAuditLog(r) ==
  /\ pc[r] = "audit"
  /\ audit' = audit \union {[req |-> r, outcome |-> Outcome(r)]}
  /\ Goto(r, "done")
  /\ UNCHANGED <<accounts, transfers, ledger, lock, locals, history>>

-----------------------------------------------------------------------------
(* Faults *)

\* A statement fails without taking effect
StatementError(r) ==
  /\ "error" \in Faults
  /\ pc[r] \in Statements
  /\ OnError(r)
  /\ UNCHANGED <<tables, locals, history>>

\* r holds the source row and waits for the destination row
Blocked(r) == pc[r] = "creditWrite" /\ ~CanLock(r, op[r].to)

\* Postgres aborts one transaction of a cycle of waiting transactions
AbortDeadlocked(r) ==
  /\ \E S \in SUBSET Requests :
       /\ r \in S
       /\ \A q \in S : Blocked(q)
       /\ {lock[op[q].to] : q \in S} = S
  /\ OnError(r)
  /\ UNCHANGED <<tables, locals, history>>

\* The server process dies: open transactions roll back, calls are lost
Crash ==
  /\ "crash" \in Faults
  /\ \E r \in Requests : pc[r] \in Statements
  /\ pc' = [r \in Requests |-> IF pc[r] \in Statements THEN "done" ELSE pc[r]]
  /\ reply' = [r \in Requests |->
                 IF pc[r] \in Statements THEN "crashed" ELSE reply[r]]
  /\ lock' = [a \in Accounts |-> Nobody]
  /\ UNCHANGED <<tables, locals, history>>

-----------------------------------------------------------------------------
(* The specification *)

NoOperation == [kind |-> "none"]
NoRow == [balance |-> 0, status |-> "active"]

Init ==
  /\ accounts = [a \in Accounts |->
                   [balance |-> OpeningBalance[a], status |-> "active"]]
  /\ transfers = [k \in Keys |-> [status |-> "absent", by |-> Nobody]]
  /\ ledger = {}
  /\ audit = {}
  /\ lock = [a \in Accounts |-> Nobody]
  /\ pc = [r \in Requests |-> "idle"]
  /\ op = [r \in Requests |-> NoOperation]
  /\ seen = [r \in Requests |-> NoRow]
  /\ src = [r \in Requests |-> NoRow]
  /\ dst = [r \in Requests |-> NoRow]
  /\ reply = [r \in Requests |-> "none"]
  /\ applied = {}
  /\ overwritten = {}

TransferStep(r) ==
  \/ CheckExistingTransfer(r) \/ RetrieveFromAccount(r) \/ RetrieveToAccount(r)
  \/ CreateTransfer(r) \/ SelectSource(r) \/ UpdateSource(r)
  \/ SelectDestination(r) \/ UpdateDestinationAndCommit(r)
  \/ CompleteTransfer(r) \/ FailTransfer(r)

AccountStep(r) ==
  \/ GetAccount(r) \/ FindUser(r) \/ SelectForBalance(r) \/ SaveBalance(r)
  \/ RecordTransaction(r) \/ SaveStatus(r) \/ CreateAuditLog(r)

Terminating == (\A r \in Requests : pc[r] = "done") /\ UNCHANGED vars

Next ==
  \/ \E r \in Requests : Start(r) \/ TransferStep(r) \/ AccountStep(r)
                         \/ StatementError(r) \/ AbortDeadlocked(r)
  \/ Crash
  \/ Terminating

Spec == Init /\ [][Next]_vars

\* A goroutine with a statement to send is scheduled, a lock that becomes
\* free is granted, and Postgres' deadlock detector runs.
FairSpec ==
  Spec /\ \A r \in Requests :
            WF_vars(TransferStep(r) \/ AccountStep(r) \/ AbortDeadlocked(r))

=============================================================================
