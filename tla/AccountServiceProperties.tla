----------------------- MODULE AccountServiceProperties -----------------------
(***************************************************************************)
(* What AccountService should satisfy.  README.md says which property      *)
(* needs which of WritesBack and Faults.                                   *)
(***************************************************************************)
EXTENDS AccountService, FiniteSetsExt

\* The rows request r has read and is about to write balances into
RowsInHand(r) ==
  CASE pc[r] \in {"findUser", "saveRow"} -> [a \in {op[r].from} |-> seen[r]]
    [] pc[r] \in {"debitWrite", "creditRead", "balanceWrite"} ->
         [a \in {op[r].from} |-> src[r]]
    [] pc[r] = "creditWrite" -> TransferCopy(r)
    [] OTHER -> [a \in {} |-> NoRow]

Unread == -1

Movement ==
  INSTANCE MoneyMovement WITH
    balance <- [a \in Accounts |-> accounts[a].balance],
    effect <- [r \in Requests |-> IF r \in applied THEN op[r] ELSE NoOperation],
    read <- [r \in Requests |-> [a \in Accounts |->
               IF a \in DOMAIN RowsInHand(r) THEN RowsInHand(r)[a].balance
               ELSE Unread]]

TransferRecord == [status : {"absent", "pending", "completed", "failed"},
                 by : Requests \union {Nobody}]
Replies == {"none", "ok", "replayed", "stillProcessing", "previouslyFailed",
            "refused", "error", "crashed"}
LedgerRecord == [req : Requests, account : Accounts, type : {"credit", "debit"},
               amount : Int, before : Int, after : Int]

CheckedRow == [balance : Nat, status : Statuses]

TablesOK ==
  /\ accounts \in [Accounts -> CheckedRow]
  /\ transfers \in [Keys -> TransferRecord]
  /\ ledger \subseteq LedgerRecord
  /\ audit \subseteq [req : Requests, outcome : {"done", "failed"}]
  /\ applied \subseteq Requests /\ overwritten \subseteq Accounts

LocalsOK ==
  /\ lock \in [Accounts -> Requests \union {Nobody}]
  /\ pc \in [Requests -> Statements \union {"idle", "done"}]
  /\ op \in [Requests -> Operations \union {NoOperation}]
  /\ seen \in [Requests -> CheckedRow]
  /\ src \in [Requests -> CheckedRow]
  /\ dst \in [Requests -> CheckedRow]
  /\ reply \in [Requests -> Replies]

\* Types of the tables and of the requests' locals.  Balances are Nat: no
\* account is ever overdrawn, although no SELECT locks (UpdateBalance and
\* ExecuteAtomicTransfer write what they checked).
TypeOK == TablesOK /\ LocalsOK

-----------------------------------------------------------------------------
(* Idempotent transfers *)

\* An idempotency key moves money at most once, whatever retries, crashes
\* and lost acknowledgements do: checkExistingTransfer alone does not give
\* this (two calls can both find no row), the unique index does.
KeyMovesOnce ==
  \A r, q \in applied :
    (/\ op[r].kind = "transfer" /\ op[q].kind = "transfer"
     /\ op[r].key = op[q].key) => r = q

\* A transfer row says completed only when the call that owns it has moved
\* the money (handleTransferSuccess runs after the commit).
CompletedMeansMoved ==
  \A k \in Keys : transfers[k].status = "completed" => transfers[k].by \in applied

\* A transfer row says failed only when its money has not moved
\* (handleTransferFailure runs after the rollback).
FailedMeansNotMoved ==
  \A k \in Keys : transfers[k].status = "failed" => transfers[k].by \notin applied

\* A transfer row that says pending belongs to a call still at work, as the
\* reply "still processing" says (errors/codes.go).
PendingMeansProcessing ==
  \A k \in Keys :
    transfers[k].status = "pending" => pc[transfers[k].by] \in Statements

\* What a caller is told is so: ok and replayed mean that the money of this
\* call, or of the call that owns the key, has moved; a refusal means that
\* this call has moved nothing.
ReplyIsTrue ==
  \A r \in Requests :
    pc[r] = "done" =>
      /\ reply[r] = "ok" /\ op[r].kind # "status" => r \in applied
      /\ reply[r] = "replayed" =>
           \E q \in applied : op[q].kind = "transfer" /\ op[q].key = op[r].key
      /\ reply[r] \in {"refused", "stillProcessing", "previouslyFailed"} =>
           r \notin applied

\* The audit trail tells no lies: a row saying done belongs to a call that
\* took effect, and for a transfer to one whose row says completed.
AuditIsTrue ==
  \A row \in audit :
    LET o == op[row.req]
    IN row.outcome = "done" =>
         /\ o.kind # "status" => row.req \in applied
         /\ o.kind = "transfer" =>
              transfers[o.key] = [status |-> "completed", by |-> row.req]

\* Once a transfer has found the source covered and active, or the
\* destination active, it goes through unless a fault or a deadlock stops it:
\* the rows it writes pass the ledger's own check (Transaction.Validate).
FailsForCause ==
  [][\A r \in Requests :
       pc[r] \in {"debitWrite", "creditWrite"} /\ pc'[r] = "fail"
         => Faults # {} \/ Blocked(r)]_vars

-----------------------------------------------------------------------------
(* Balances, ledger and account status *)

\* No lost update: when a step changes a balance, the change is that of a
\* call whose transaction commits in the step, no more and no less
\* (account_repository.go: row locking prevents concurrent modification).
EachChangeIsOneMovement ==
  \E r \in applied' \ applied :
    \A a \in Accounts :
      accounts'[a].balance = accounts[a].balance + Movement!Delta(op[r], a)
NoLostUpdate ==
  [][(\E a \in Accounts : accounts'[a].balance # accounts[a].balance)
       => EachChangeIsOneMovement]_vars

\* Postings to a whose balance has committed and whose ledger row is missing:
\* on their way to transactionRepo.Create, or cut off before it by a fault.
Recorded(r) == \E row \in ledger : row.req = r
Unrecorded(a) ==
  {r \in applied : /\ op[r].kind # "transfer" /\ op[r].from = a
                   /\ ~Recorded(r)}

\* What ledger rows, and calls, add up to
RowsTotal(rows) == MapThenSumSet(LAMBDA row : Signed(row.type, row.amount), rows)
CallsTotal(o, rs) == MapThenSumSet(LAMBDA r : Signed(o[r].kind, o[r].amount), rs)

\* The books explain every account that no call has overwritten from a stale
\* copy: it holds its opening balance, its ledger rows, and the postings that
\* committed and got no row.
BalancesExplained ==
  \A a \in Accounts \ overwritten :
    accounts[a].balance =
      OpeningBalance[a] + RowsTotal({row \in ledger : row.account = a})
                        + CallsTotal(op, Unrecorded(a))

\* A movement without its rows is a posting still at work or one whose caller
\* was told of an error: a caller told ok finds the row in the ledger.
MissingRowsAreKnown ==
  \A r \in applied :
    ~Recorded(r) => /\ op[r].kind # "transfer"
                    /\ pc[r] = "record" \/ reply[r] \in {"error", "crashed"}

\* Balances and ledger tell one story (PerformTransaction commits the balance
\* first and inserts the ledger row in a second transaction).
BooksExplained == BalancesExplained /\ MissingRowsAreKnown

\* A closed account holds no money (Account.Close requires a zero balance),
\* unless a call wrote over the row it no longer was.
ClosedIsEmpty ==
  \A a \in Accounts \ overwritten :
    accounts[a].status = "closed" => accounts[a].balance = 0

\* A step that writes account a from a copy that is no longer its row
WritesStale(a) ==
  \E r \in Requests :
    /\ a \in DOMAIN RowsInHand(r) /\ RowsInHand(r)[a] # accounts[a]
    /\ pc'[r] # pc[r]

\* The status of an account is changed by a status call that the row as it
\* stands allows (so a closed account stays closed), or by a call that writes
\* back a row read before the last change, as UpdateBalance and Update may.
StatusOnlyByCall ==
  [][\A a \in Accounts :
       accounts'[a].status # accounts[a].status =>
         \/ \E r \in Requests :
              /\ pc[r] = "saveRow" /\ pc'[r] # "saveRow" /\ op[r].from = a
              /\ accounts'[a].status = op[r].status
              /\ MayBecome(accounts[a], op[r].status)
         \/ WritesStale(a)]_vars

\* Money is transferred between accounts of the caller only, as the comment
\* on the Transfer handler says (account_handler.go).
TransfersStayInOwnAccounts ==
  \A r \in applied :
    op[r].kind = "transfer" =>
      Owner[op[r].from] = op[r].user /\ Owner[op[r].to] = op[r].user

\* The detailed specification implements the abstract one.
MovesMoney == Movement!Spec

-----------------------------------------------------------------------------
(* Liveness *)

\* Every call is answered: lock waits end, deadlocks are broken.
EveryCallAnswered ==
  \A r \in Requests : (pc[r] # "idle") ~> (pc[r] = "done")

\* Every pending transfer is resolved.
PendingIsResolved ==
  \A k \in Keys : (transfers[k].status = "pending")
                    ~> (transfers[k].status \in {"completed", "failed"})
=============================================================================
