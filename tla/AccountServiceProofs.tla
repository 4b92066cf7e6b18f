------------------------- MODULE AccountServiceProofs -------------------------
(***************************************************************************)
(* Proofs about AccountService for every value of its constants.           *)
(***************************************************************************)
EXTENDS AccountServiceProperties, TLAPS

\* Which statements each kind of call sends
CallInv ==
  \A r \in Requests :
    /\ pc[r] # "idle" => op[r] \in Operations
    /\ pc[r] \in Statements => Valid(op[r])
    /\ pc[r] \in TransferTx \union
                 {"checkKey", "readFrom", "readTo", "claim", "complete", "fail"}
         => op[r].kind = "transfer"
    /\ pc[r] \in {"balanceRead", "balanceWrite", "record"}
         => op[r].kind \in {"credit", "debit"}
    /\ pc[r] \in {"read", "findUser"} => op[r].kind # "transfer"
    /\ pc[r] = "saveRow" => op[r].kind = "status"

\* The balance a transaction is about to write has been checked
FundsInv ==
  \A r \in Requests :
    \/ pc[r] \in {"debitWrite", "creditRead", "creditWrite"}
    \/ pc[r] = "balanceWrite" /\ op[r].kind = "debit"
    => src[r].balance >= op[r].amount

TypeInv == TypeOK /\ CallInv /\ FundsInv

LEMMA OperationFacts ==
  ASSUME NEW o \in Operations
  PROVE  /\ o.kind \in Kinds /\ o.from \in Accounts /\ o.to \in Accounts
         /\ o.amount \in Int /\ o.key \in Keys \union {NoKey}
         /\ o.status \in Statuses
         /\ o.kind = "transfer" => o.key \in Keys
  BY ConstantsAssumption DEF Operation

LEMMA TypeInit == Init => TypeInv
  BY ConstantsAssumption DEF Init, TypeInv, TypeOK, TablesOK, LocalsOK, CheckedRow, CallInv, FundsInv, NoRow,
     Statements, TransferTx, Statuses, TransferRecord, Replies

LEMMA TypeStep == TypeInv /\ [Next]_vars => TypeInv'
  <1> SUFFICES ASSUME TypeInv, [Next]_vars PROVE TypeInv'
    OBVIOUS
  <1> USE DEF TypeInv, TypeOK, Goto, Answer, Return, Overwrites, Stale, tables, locals, history
  <1>0. ASSUME NEW r \in Requests, pc[r] \in Statements
        PROVE  /\ op[r] \in Operations
               /\ op[r].kind \in Kinds /\ op[r].from \in Accounts /\ op[r].to \in Accounts
               /\ op[r].amount \in Int /\ op[r].status \in Statuses
               /\ op[r].kind = "transfer" => op[r].key \in Keys
    BY <1>0, OperationFacts DEF CallInv, Statements, TransferTx
  <1>1. ASSUME NEW r \in Requests, Start(r) PROVE TypeInv'
    <2> USE <1>1, <1>0 DEF Start, Lock, Unlock, AckLost, OnError
    <2>1. TablesOK'
      BY DEF TablesOK, LocalsOK, CheckedRow, TransferRecord, Statements, TransferTx
    <2>2. LocalsOK'
      BY DEF LocalsOK, TablesOK, Statements, TransferTx, Replies
    <2>3. CallInv'
      BY DEF CallInv, LocalsOK, Statements, TransferTx
    <2>4. FundsInv'
      BY DEF FundsInv, LocalsOK, Statements, TransferTx
    <2> QED BY <2>1, <2>2, <2>3, <2>4
  <1>2. ASSUME NEW r \in Requests, CheckExistingTransfer(r) PROVE TypeInv'
    <2> USE <1>2, <1>0 DEF CheckExistingTransfer, Lock, Unlock, AckLost, OnError
    <2>1. TablesOK'
      BY DEF TablesOK, LocalsOK, CheckedRow, TransferRecord, Statements, TransferTx
    <2>2. LocalsOK'
      <3>1. transfers[op[r].key] \in TransferRecord
        BY DEF TablesOK, CallInv, Statements
      <3> QED BY <3>1 DEF LocalsOK, Statements, Replies, KeyReply, TransferRecord
    <2>3. CallInv'
      BY DEF CallInv, LocalsOK, Statements, TransferTx
    <2>4. FundsInv'
      BY DEF FundsInv, LocalsOK, Statements, TransferTx
    <2> QED BY <2>1, <2>2, <2>3, <2>4
  <1>3. ASSUME NEW r \in Requests, RetrieveFromAccount(r) PROVE TypeInv'
    <2> USE <1>3, <1>0 DEF RetrieveFromAccount, Lock, Unlock, AckLost, OnError
    <2>1. TablesOK'
      BY DEF TablesOK, LocalsOK, CheckedRow, TransferRecord, Statements, TransferTx
    <2>2. LocalsOK'
      BY DEF LocalsOK, TablesOK, Statements, TransferTx, Replies
    <2>3. CallInv'
      BY DEF CallInv, LocalsOK, Statements, TransferTx
    <2>4. FundsInv'
      BY DEF FundsInv, LocalsOK, Statements, TransferTx
    <2> QED BY <2>1, <2>2, <2>3, <2>4
  <1>4. ASSUME NEW r \in Requests, RetrieveToAccount(r) PROVE TypeInv'
    <2> USE <1>4, <1>0 DEF RetrieveToAccount, Lock, Unlock, AckLost, OnError
    <2>1. TablesOK'
      BY DEF TablesOK, LocalsOK, CheckedRow, TransferRecord, Statements, TransferTx
    <2>2. LocalsOK'
      BY DEF LocalsOK, TablesOK, Statements, TransferTx, Replies
    <2>3. CallInv'
      BY DEF CallInv, LocalsOK, Statements, TransferTx
    <2>4. FundsInv'
      BY DEF FundsInv, LocalsOK, Statements, TransferTx
    <2> QED BY <2>1, <2>2, <2>3, <2>4
  <1>5. ASSUME NEW r \in Requests, CreateTransfer(r) PROVE TypeInv'
    <2> USE <1>5, <1>0 DEF CreateTransfer, KeyIsFree, Lock, Unlock, AckLost, OnError
    <2>1. TablesOK'
      <3>1. [status |-> "pending", by |-> r] \in TransferRecord
        BY DEF TransferRecord
      <3> QED BY <3>1 DEF TablesOK, Statements, CallInv
    <2>2. LocalsOK'
      BY DEF LocalsOK, TablesOK, Statements, TransferTx, Replies
    <2>3. CallInv'
      BY DEF CallInv, LocalsOK, Statements, TransferTx
    <2>4. FundsInv'
      BY DEF FundsInv, LocalsOK, Statements, TransferTx
    <2> QED BY <2>1, <2>2, <2>3, <2>4
  <1>6. ASSUME NEW r \in Requests, SelectSource(r) PROVE TypeInv'
    <2> USE <1>6, <1>0 DEF SelectSource, Covers, Lock, Unlock, AckLost, OnError
    <2>1. TablesOK'
      BY DEF TablesOK, LocalsOK, CheckedRow, TransferRecord, Statements, TransferTx
    <2>2. LocalsOK'
      BY DEF LocalsOK, TablesOK, Statements, TransferTx, Replies
    <2>3. CallInv'
      BY DEF CallInv, LocalsOK, Statements, TransferTx
    <2>4. FundsInv'
      BY DEF FundsInv, LocalsOK, Statements, TransferTx
    <2> QED BY <2>1, <2>2, <2>3, <2>4
  <1>7. ASSUME NEW r \in Requests, UpdateSource(r) PROVE TypeInv'
    <2> USE <1>7, <1>0 DEF UpdateSource, Lock, Unlock, AckLost, OnError
    <2>1. TablesOK'
      BY DEF TablesOK, LocalsOK, CheckedRow, TransferRecord, Statements, TransferTx
    <2>2. LocalsOK'
      BY DEF LocalsOK, TablesOK, Statements, TransferTx, Replies
    <2>3. CallInv'
      BY DEF CallInv, LocalsOK, Statements, TransferTx
    <2>4. FundsInv'
      BY DEF FundsInv, LocalsOK, Statements, TransferTx
    <2> QED BY <2>1, <2>2, <2>3, <2>4
  <1>8. ASSUME NEW r \in Requests, SelectDestination(r) PROVE TypeInv'
    <2> USE <1>8, <1>0 DEF SelectDestination, Lock, Unlock, AckLost, OnError
    <2>1. TablesOK'
      BY DEF TablesOK, LocalsOK, CheckedRow, TransferRecord, Statements, TransferTx
    <2>2. LocalsOK'
      BY DEF LocalsOK, TablesOK, Statements, TransferTx, Replies
    <2>3. CallInv'
      BY DEF CallInv, LocalsOK, Statements, TransferTx
    <2>4. FundsInv'
      BY DEF FundsInv, LocalsOK, Statements, TransferTx
    <2> QED BY <2>1, <2>2, <2>3, <2>4
  <1>9. ASSUME NEW r \in Requests, UpdateDestinationAndCommit(r) PROVE TypeInv'
    <2> USE <1>9, <1>0 DEF UpdateDestinationAndCommit, TransferBalances, Lock, Unlock, AckLost, OnError
    <2>1. TablesOK'
      <3>1. op[r].amount > 0 /\ src[r].balance >= op[r].amount
        BY DEF CallInv, FundsInv, Valid, Statements, TransferTx
      <3>2. src[r] \in CheckedRow /\ dst[r] \in CheckedRow
        BY DEF LocalsOK
      <3>3. TransferBalances(r) \in [Accounts -> CheckedRow]
        BY <3>1, <3>2 DEF TablesOK, CheckedRow, Statements, TransferTx
      <3>5. UNCHANGED accounts \/ accounts' = TransferBalances(r)
        OBVIOUS
      <3>4. DebitRow(r) \in LedgerRecord /\ CreditRow(r) \in LedgerRecord
        BY <3>2 DEF DebitRow, CreditRow, TransferRow, LedgerRow, Signed,
           LedgerRecord, CheckedRow, Statements, TransferTx
      <3>6. UNCHANGED ledger \/ ledger' = ledger \union {DebitRow(r), CreditRow(r)}
        OBVIOUS
      <3>7. overwritten' \subseteq Accounts /\ applied' \subseteq Requests
        BY <1>0 DEF TablesOK, Statements, TransferTx
      <3>8. UNCHANGED <<transfers, audit>>
        OBVIOUS
      <3> QED BY ONLY TablesOK, <3>3, <3>4, <3>5, <3>6, <3>7, <3>8 DEF TablesOK
    <2>2. LocalsOK'
      BY DEF LocalsOK, TablesOK, Statements, TransferTx, Replies
    <2>3. CallInv'
      BY DEF CallInv, LocalsOK, Statements, TransferTx
    <2>4. FundsInv'
      BY DEF FundsInv, LocalsOK, Statements, TransferTx
    <2> QED BY <2>1, <2>2, <2>3, <2>4
  <1>10. ASSUME NEW r \in Requests, CompleteTransfer(r) PROVE TypeInv'
    <2> USE <1>10, <1>0 DEF CompleteTransfer, TransferUpdate, Lock, Unlock, AckLost, OnError
    <2>1. TablesOK'
      <3>1. op[r].key \in Keys
        BY DEF CallInv, Statements
      <3>2. transfers[op[r].key] \in TransferRecord
        BY <3>1 DEF TablesOK
      <3>3. transfers' \in [Keys -> TransferRecord]
        BY <3>1, <3>2 DEF TablesOK, TransferRecord
      <3> QED BY <3>3 DEF TablesOK
    <2>2. LocalsOK'
      BY DEF LocalsOK, TablesOK, Statements, TransferTx, Replies
    <2>3. CallInv'
      BY DEF CallInv, LocalsOK, Statements, TransferTx
    <2>4. FundsInv'
      BY DEF FundsInv, LocalsOK, Statements, TransferTx
    <2> QED BY <2>1, <2>2, <2>3, <2>4
  <1>11. ASSUME NEW r \in Requests, FailTransfer(r) PROVE TypeInv'
    <2> USE <1>11, <1>0 DEF FailTransfer, TransferUpdate, Lock, Unlock, AckLost, OnError
    <2>1. TablesOK'
      <3>1. op[r].key \in Keys
        BY DEF CallInv, Statements
      <3>2. transfers[op[r].key] \in TransferRecord
        BY <3>1 DEF TablesOK
      <3>3. transfers' \in [Keys -> TransferRecord]
        BY <3>1, <3>2 DEF TablesOK, TransferRecord
      <3> QED BY <3>3 DEF TablesOK
    <2>2. LocalsOK'
      BY DEF LocalsOK, TablesOK, Statements, TransferTx, Replies
    <2>3. CallInv'
      BY DEF CallInv, LocalsOK, Statements, TransferTx
    <2>4. FundsInv'
      BY DEF FundsInv, LocalsOK, Statements, TransferTx
    <2> QED BY <2>1, <2>2, <2>3, <2>4
  <1>12. ASSUME NEW r \in Requests, GetAccount(r) PROVE TypeInv'
    <2> USE <1>12, <1>0 DEF GetAccount, Continue, Lock, Unlock, AckLost, OnError
    <2>1. TablesOK'
      BY DEF TablesOK, LocalsOK, CheckedRow, TransferRecord, Statements, TransferTx
    <2>2. LocalsOK'
      BY DEF LocalsOK, TablesOK, Statements, TransferTx, Replies
    <2>3. CallInv'
      BY DEF CallInv, LocalsOK, Statements, TransferTx, Kinds
    <2>4. FundsInv'
      BY DEF FundsInv, LocalsOK, Statements, TransferTx
    <2> QED BY <2>1, <2>2, <2>3, <2>4
  <1>22. ASSUME NEW r \in Requests, FindUser(r) PROVE TypeInv'
    <2> USE <1>22, <1>0 DEF FindUser, Continue, Lock, Unlock, AckLost, OnError
    <2>1. TablesOK'
      BY DEF TablesOK, LocalsOK, CheckedRow, TransferRecord, Statements, TransferTx
    <2>2. LocalsOK'
      BY DEF LocalsOK, TablesOK, Statements, TransferTx, Replies
    <2>3. CallInv'
      BY DEF CallInv, LocalsOK, Statements, TransferTx, Kinds
    <2>4. FundsInv'
      BY DEF FundsInv, LocalsOK, Statements, TransferTx
    <2> QED BY <2>1, <2>2, <2>3, <2>4
  <1>13. ASSUME NEW r \in Requests, SelectForBalance(r) PROVE TypeInv'
    <2> USE <1>13, <1>0 DEF SelectForBalance, Covers, Lock, Unlock, AckLost, OnError
    <2>1. TablesOK'
      BY DEF TablesOK, LocalsOK, CheckedRow, TransferRecord, Statements, TransferTx
    <2>2. LocalsOK'
      BY DEF LocalsOK, TablesOK, Statements, TransferTx, Replies
    <2>3. CallInv'
      BY DEF CallInv, LocalsOK, Statements, TransferTx
    <2>4. FundsInv'
      BY DEF FundsInv, LocalsOK, Statements, TransferTx
    <2> QED BY <2>1, <2>2, <2>3, <2>4
  <1>14. ASSUME NEW r \in Requests, SaveBalance(r) PROVE TypeInv'
    <2> USE <1>14, <1>0 DEF SaveBalance, Lock, Unlock, AckLost, OnError
    <2>1. TablesOK'
      <3>1. /\ op[r].kind \in {"credit", "debit"} /\ op[r].amount > 0
            /\ op[r].kind = "debit" => src[r].balance >= op[r].amount
        BY DEF CallInv, FundsInv, Valid, Statements
      <3>2. src[r] \in CheckedRow
        BY DEF LocalsOK
      <3>3. [src[r] EXCEPT !.balance = @ + Signed(op[r].kind, op[r].amount)]
              \in CheckedRow
        BY <3>1, <3>2 DEF CheckedRow, Signed, Statements
      <3>4. overwritten' \subseteq Accounts /\ applied' \subseteq Requests
        BY <1>0 DEF TablesOK, Statements
      <3> QED BY <3>3, <3>4 DEF TablesOK
    <2>2. LocalsOK'
      BY DEF LocalsOK, TablesOK, Statements, TransferTx, Replies
    <2>3. CallInv'
      BY DEF CallInv, LocalsOK, Statements, TransferTx
    <2>4. FundsInv'
      BY DEF FundsInv, LocalsOK, Statements, TransferTx
    <2> QED BY <2>1, <2>2, <2>3, <2>4
  <1>15. ASSUME NEW r \in Requests, RecordTransaction(r) PROVE TypeInv'
    <2> USE <1>15, <1>0 DEF RecordTransaction, Lock, Unlock, AckLost, OnError
    <2>1. TablesOK'
      <3>1. op[r].kind \in {"credit", "debit"}
        BY DEF CallInv
      <3>2. seen[r] \in CheckedRow
        BY DEF LocalsOK
      <3>3. PostingRow(r) \in LedgerRecord
        BY <3>1, <3>2 DEF PostingRow, LedgerRow, LedgerRecord, Signed, CheckedRow, Statements
      <3> QED BY <3>3 DEF TablesOK
    <2>2. LocalsOK'
      BY DEF LocalsOK, TablesOK, Statements, TransferTx, Replies
    <2>3. CallInv'
      BY DEF CallInv, LocalsOK, Statements, TransferTx
    <2>4. FundsInv'
      BY DEF FundsInv, LocalsOK, Statements, TransferTx
    <2> QED BY <2>1, <2>2, <2>3, <2>4
  <1>16. ASSUME NEW r \in Requests, SaveStatus(r) PROVE TypeInv'
    <2> USE <1>16, <1>0 DEF SaveStatus, Lock, Unlock, AckLost, OnError
    <2>1. TablesOK'
      <3>1. seen[r] \in CheckedRow
        BY DEF LocalsOK
      <3>2. [seen[r] EXCEPT !.status = op[r].status] \in CheckedRow
        BY <3>1 DEF CheckedRow, Statements
      <3>3. overwritten' \subseteq Accounts
        BY <1>0 DEF TablesOK, Statements
      <3> QED BY <3>2, <3>3 DEF TablesOK
    <2>2. LocalsOK'
      BY DEF LocalsOK, TablesOK, Statements, TransferTx, Replies
    <2>3. CallInv'
      BY DEF CallInv, LocalsOK, Statements, TransferTx
    <2>4. FundsInv'
      BY DEF FundsInv, LocalsOK, Statements, TransferTx
    <2> QED BY <2>1, <2>2, <2>3, <2>4
  <1>17. ASSUME NEW r \in Requests, CreateAuditLog(r) PROVE TypeInv'
    <2> USE <1>17, <1>0 DEF CreateAuditLog, Outcome, Lock, Unlock, AckLost, OnError
    <2>1. TablesOK'
      BY DEF TablesOK, LocalsOK, CheckedRow, TransferRecord, Statements, TransferTx
    <2>2. LocalsOK'
      BY DEF LocalsOK, TablesOK, Statements, TransferTx, Replies
    <2>3. CallInv'
      BY DEF CallInv, LocalsOK, Statements, TransferTx
    <2>4. FundsInv'
      BY DEF FundsInv, LocalsOK, Statements, TransferTx
    <2> QED BY <2>1, <2>2, <2>3, <2>4
  <1>18. ASSUME NEW r \in Requests, StatementError(r) PROVE TypeInv'
    <2> USE <1>18, <1>0 DEF StatementError, Lock, Unlock, AckLost, OnError
    <2>1. TablesOK'
      BY DEF TablesOK, LocalsOK, CheckedRow, TransferRecord, Statements, TransferTx
    <2>2. LocalsOK'
      BY DEF LocalsOK, TablesOK, Statements, TransferTx, Replies
    <2>3. CallInv'
      BY DEF CallInv, LocalsOK, Statements, TransferTx
    <2>4. FundsInv'
      BY DEF FundsInv, LocalsOK, Statements, TransferTx
    <2> QED BY <2>1, <2>2, <2>3, <2>4
  <1>19. ASSUME NEW r \in Requests, AbortDeadlocked(r) PROVE TypeInv'
    <2> USE <1>19, <1>0 DEF AbortDeadlocked, Lock, Unlock, AckLost, OnError
    <2>1. TablesOK'
      BY DEF TablesOK, LocalsOK, CheckedRow, TransferRecord, Statements, TransferTx
    <2>2. LocalsOK'
      BY DEF LocalsOK, TablesOK, Statements, TransferTx, Replies
    <2>3. CallInv'
      BY DEF CallInv, LocalsOK, Statements, TransferTx
    <2>4. FundsInv'
      BY DEF FundsInv, LocalsOK, Statements, TransferTx
    <2> QED BY <2>1, <2>2, <2>3, <2>4
  <1>20. CASE Crash
    BY <1>20 DEF Crash, Replies, TablesOK, LocalsOK, CallInv, FundsInv, Statements, TransferTx
  <1>21. CASE UNCHANGED vars
    BY <1>21 DEF vars, TablesOK, LocalsOK, CallInv, FundsInv
  <1> QED
    BY <1>1, <1>2, <1>3, <1>4, <1>5, <1>6, <1>7, <1>8, <1>9, <1>10, <1>11, <1>12, <1>13, <1>14, <1>15, <1>16, <1>17, <1>18, <1>19, <1>20, <1>21, <1>22
       DEF Next, TransferStep, AccountStep, Terminating

\* Every row and every local always has its type; in particular no balance
\* is ever negative, although no SELECT locks the row it checks.
THEOREM TypeCorrect == Spec => []TypeOK
  <1>1. Spec => []TypeInv
    BY TypeInit, TypeStep, PTL DEF Spec
  <1> QED BY <1>1, PTL DEF TypeInv

-----------------------------------------------------------------------------
(* The inductive invariant behind idempotency and truthful answers *)

Unmoved == {"idle", "checkKey", "readFrom", "readTo", "claim", "read",
            "findUser", "balanceRead", "balanceWrite", "saveRow"} \union TransferTx
HoldsKey == TransferTx \union {"complete", "fail"}

PendingOf(r) == [status |-> "pending", by |-> r]
CompletedBy(r) == [status |-> "completed", by |-> r]

\* Where a call stands says whether its money has moved
PhaseOK(r) ==
  /\ pc[r] \in Unmoved => r \notin applied
  /\ pc[r] \in {"complete", "record"} => r \in applied

\* The call that works under a key owns its transfer row, and so does a call
\* that has moved money under it
OwnerOK(r) ==
  /\ pc[r] \in HoldsKey => transfers[op[r].key] = PendingOf(r)
  /\ r \in applied => pc[r] # "idle"
  /\ r \in applied /\ op[r].kind = "transfer" => transfers[op[r].key].by = r

KeyOK(k) ==
  /\ transfers[k].status = "absent" <=> transfers[k].by = Nobody
  /\ transfers[k].status = "completed" => transfers[k].by \in applied
  /\ transfers[k].by # Nobody =>
       /\ pc[transfers[k].by] # "idle"
       /\ op[transfers[k].by].kind = "transfer"
       /\ op[transfers[k].by].key = k

\* What an answer, once determined, says
ReplyOK(r) ==
  /\ reply[r] # "none" => pc[r] \in {"fail", "audit", "done"}
  /\ reply[r] = "ok" =>
       /\ pc[r] \in {"audit", "done"}
       /\ op[r].kind # "status" => r \in applied
       /\ op[r].kind = "transfer" => transfers[op[r].key] = CompletedBy(r)
  /\ reply[r] = "replayed" =>
       \E q \in applied : op[q].kind = "transfer" /\ op[q].key = op[r].key
  /\ reply[r] \in {"refused", "stillProcessing", "previouslyFailed"} =>
       r \notin applied

AuditOK(row) ==
  /\ pc[row.req] # "idle"
  /\ row.outcome = "done" =>
       /\ op[row.req].kind # "status" => row.req \in applied
       /\ op[row.req].kind = "transfer" =>
            transfers[op[row.req].key] = CompletedBy(row.req)

ServiceInv ==
  /\ \A r \in Requests : PhaseOK(r) /\ OwnerOK(r) /\ ReplyOK(r)
  /\ \A k \in Keys : KeyOK(k)
  /\ \A row \in audit : AuditOK(row)

-----------------------------------------------------------------------------
(* The kinds of step ServiceInv tells apart: r goes to p with answer a *)

Moves(r, p, a) ==
  /\ pc' = [pc EXCEPT ![r] = p]
  /\ reply' = [reply EXCEPT ![r] = a]

Begins(r) ==
  /\ pc[r] = "idle"
  /\ \E o \in Operations : op' = [op EXCEPT ![r] = o]
  /\ \/ Moves(r, "done", "refused")
     \/ \E p \in {"checkKey", "read"} : Moves(r, p, reply[r])
  /\ UNCHANGED <<transfers, applied, audit>>

\* A step that writes no table but accounts and ledger
Advances(r, p, a) ==
  /\ pc[r] \in Statements /\ p \in Statements \union {"done"}
  /\ Moves(r, p, a)
  /\ p \in Unmoved => pc[r] \in Unmoved
  /\ p \notin {"complete", "record"}
  /\ p \in HoldsKey => pc[r] \in TransferTx
  /\ \/ a = reply[r] /\ (pc[r] \in {"fail", "audit"} => p \in {"audit", "done"})
     \/ a = "error" /\ p \in {"fail", "done"}
     \/ /\ a \in {"refused", "stillProcessing", "previouslyFailed"}
        /\ p \in {"fail", "done"} /\ pc[r] \in Unmoved
     \/ /\ a = "replayed" /\ p = "done" /\ op[r].key \in Keys
        /\ transfers[op[r].key].status = "completed"
     \/ /\ a = "ok" /\ p = "audit" /\ op[r].kind # "transfer"
        /\ op[r].kind # "status" => pc[r] = "record"
  /\ UNCHANGED <<op, transfers, applied, audit>>

Claims(r) ==
  /\ pc[r] = "claim" /\ transfers[op[r].key].status = "absent"
  /\ transfers' = [transfers EXCEPT ![op[r].key] = PendingOf(r)]
  /\ Moves(r, "debitRead", reply[r]) \/ Moves(r, "done", "error")
  /\ UNCHANGED <<op, applied, audit>>

Commits(r) ==
  /\ \/ /\ pc[r] = "creditWrite"
        /\ Moves(r, "complete", reply[r]) \/ Moves(r, "fail", "error")
     \/ /\ pc[r] = "balanceWrite"
        /\ Moves(r, "record", reply[r]) \/ Moves(r, "done", "error")
  /\ applied' = applied \union {r}
  /\ UNCHANGED <<op, transfers, audit>>

Completes(r) ==
  /\ pc[r] = "complete"
  /\ transfers' = [transfers EXCEPT ![op[r].key].status = "completed"]
  /\ Moves(r, "audit", "ok") \/ Moves(r, "done", "error")
  /\ UNCHANGED <<op, applied, audit>>

Fails(r) ==
  /\ pc[r] = "fail"
  /\ transfers' = [transfers EXCEPT ![op[r].key].status = "failed"]
  /\ Moves(r, "audit", reply[r])
  /\ UNCHANGED <<op, applied, audit>>

Audits(r) ==
  /\ pc[r] = "audit"
  /\ audit' = audit \union
       {[req |-> r, outcome |-> IF reply[r] = "ok" THEN "done" ELSE "failed"]}
  /\ Moves(r, "done", reply[r])
  /\ UNCHANGED <<op, transfers, applied>>

StepKind ==
  \/ \E r \in Requests :
       \/ Begins(r) \/ Claims(r) \/ Commits(r) \/ Completes(r) \/ Fails(r)
       \/ Audits(r)
       \/ \E p \in Statements \union {"done"}, a \in Replies : Advances(r, p, a)
  \/ Crash
  \/ UNCHANGED <<pc, op, reply, transfers, applied, audit>>

LEMMA StepKinds == TypeInv /\ [Next]_vars => StepKind
  <1> SUFFICES ASSUME TypeInv, [Next]_vars PROVE StepKind
    OBVIOUS
  <1> USE DEF TypeInv, TypeOK, LocalsOK, Goto, Answer, Return, Overwrites, Stale, tables, locals, history
  <1>1. ASSUME NEW r \in Requests, Start(r) PROVE StepKind
    <2>1. Begins(r)
      BY <1>1 DEF Start, Begins, Moves
    <2> QED BY <2>1 DEF StepKind
  <1>2. ASSUME NEW r \in Requests, CheckExistingTransfer(r) PROVE StepKind
    <2>1. op[r].key \in Keys /\ transfers[op[r].key] \in TransferRecord
      BY <1>2, OperationFacts DEF CheckExistingTransfer, CallInv, TablesOK, Statements
    <2>2. CASE transfers[op[r].key].status = "absent"
      <3>1. Advances(r, "readFrom", reply[r])
        BY <1>2, <2>2 DEF CheckExistingTransfer, Advances, Moves, Statements,
           TransferTx, Unmoved, HoldsKey
      <3> QED BY <3>1 DEF StepKind, Statements
    <2>3. CASE transfers[op[r].key].status # "absent"
      <3> DEFINE a == KeyReply[transfers[op[r].key].status]
      <3>1. /\ a \in {"replayed", "stillProcessing", "previouslyFailed"}
            /\ a = "replayed" => transfers[op[r].key].status = "completed"
        BY <2>1, <2>3 DEF KeyReply, TransferRecord
      <3>2. Moves(r, "done", a) /\ UNCHANGED <<op, transfers, applied, audit>>
        BY <1>2, <2>3 DEF CheckExistingTransfer, Moves
      <3>3. Advances(r, "done", a)
        BY <1>2, <2>1, <3>1, <3>2 DEF CheckExistingTransfer, Advances, Statements,
           TransferTx, Unmoved, HoldsKey
      <3> QED BY <3>1, <3>3 DEF StepKind, Replies
    <2> QED BY <2>2, <2>3
  <1>3. ASSUME NEW r \in Requests, RetrieveFromAccount(r) PROVE StepKind
    <2>1. \E p \in Statements \union {"done"}, a \in Replies : Advances(r, p, a)
      BY <1>3
         DEF RetrieveFromAccount, Advances, Moves, Statements, TransferTx, HoldsKey, Unmoved, Replies
    <2> QED BY <2>1 DEF StepKind
  <1>4. ASSUME NEW r \in Requests, RetrieveToAccount(r) PROVE StepKind
    <2>1. \E p \in Statements \union {"done"}, a \in Replies : Advances(r, p, a)
      BY <1>4
         DEF RetrieveToAccount, Advances, Moves, Statements, TransferTx, HoldsKey, Unmoved, Replies
    <2> QED BY <2>1 DEF StepKind
  <1>5. ASSUME NEW r \in Requests, SelectSource(r) PROVE StepKind
    <2>1. \E p \in Statements \union {"done"}, a \in Replies : Advances(r, p, a)
      BY <1>5
         DEF SelectSource, Advances, Moves, Statements, TransferTx, HoldsKey, Unmoved, Replies
    <2> QED BY <2>1 DEF StepKind
  <1>6. ASSUME NEW r \in Requests, UpdateSource(r) PROVE StepKind
    <2>1. \E p \in Statements \union {"done"}, a \in Replies : Advances(r, p, a)
      BY <1>6
         DEF UpdateSource, Advances, Moves, Statements, TransferTx, HoldsKey, Unmoved, Replies, Lock
    <2> QED BY <2>1 DEF StepKind
  <1>7. ASSUME NEW r \in Requests, SelectDestination(r) PROVE StepKind
    <2>1. \E p \in Statements \union {"done"}, a \in Replies : Advances(r, p, a)
      BY <1>7
         DEF SelectDestination, Advances, Moves, Statements, TransferTx, HoldsKey, Unmoved, Replies
    <2> QED BY <2>1 DEF StepKind
  <1>8. ASSUME NEW r \in Requests, GetAccount(r) PROVE StepKind
    <2>1. \E p \in Statements \union {"done"}, a \in Replies : Advances(r, p, a)
      BY <1>8
         DEF GetAccount, Continue, Advances, Moves, Statements, TransferTx, HoldsKey, Unmoved, Replies
    <2> QED BY <2>1 DEF StepKind
  <1>21. ASSUME NEW r \in Requests, FindUser(r) PROVE StepKind
    <2>1. \E p \in Statements \union {"done"}, a \in Replies : Advances(r, p, a)
      BY <1>21
         DEF FindUser, Continue, Advances, Moves, Statements, TransferTx, HoldsKey, Unmoved, Replies
    <2> QED BY <2>1 DEF StepKind
  <1>9. ASSUME NEW r \in Requests, SelectForBalance(r) PROVE StepKind
    <2>1. \E p \in Statements \union {"done"}, a \in Replies : Advances(r, p, a)
      BY <1>9
         DEF SelectForBalance, Advances, Moves, Statements, TransferTx, HoldsKey, Unmoved, Replies
    <2> QED BY <2>1 DEF StepKind
  <1>10. ASSUME NEW r \in Requests, RecordTransaction(r) PROVE StepKind
    <2>1. \E p \in Statements \union {"done"}, a \in Replies : Advances(r, p, a)
      BY <1>10
         DEF RecordTransaction, Advances, Moves, Statements, TransferTx, HoldsKey, Unmoved, Replies, CallInv, AckLost, OnError
    <2> QED BY <2>1 DEF StepKind
  <1>11. ASSUME NEW r \in Requests, SaveStatus(r) PROVE StepKind
    <2>1. \E p \in Statements \union {"done"}, a \in Replies : Advances(r, p, a)
      BY <1>11
         DEF SaveStatus, Advances, Moves, Statements, TransferTx, HoldsKey, Unmoved, Replies, CallInv, AckLost, OnError
    <2> QED BY <2>1 DEF StepKind
  <1>12. ASSUME NEW r \in Requests, StatementError(r) PROVE StepKind
    <2>1. \E p \in Statements \union {"done"}, a \in Replies : Advances(r, p, a)
      BY <1>12
         DEF StatementError, Advances, Moves, Statements, TransferTx, HoldsKey, Unmoved, Replies, OnError
    <2> QED BY <2>1 DEF StepKind
  <1>13. ASSUME NEW r \in Requests, AbortDeadlocked(r) PROVE StepKind
    <2>1. \E p \in Statements \union {"done"}, a \in Replies : Advances(r, p, a)
      BY <1>13
         DEF AbortDeadlocked, Advances, Moves, Statements, TransferTx, HoldsKey, Unmoved, Replies, Blocked, OnError
    <2> QED BY <2>1 DEF StepKind
  <1>14. ASSUME NEW r \in Requests, CompleteTransfer(r) PROVE StepKind
    <2>1. Completes(r)
      BY <1>14 DEF CompleteTransfer, TransferUpdate, Completes, Moves, AckLost, OnError, Statements, TransferTx
    <2> QED BY <2>1 DEF StepKind
  <1>15. ASSUME NEW r \in Requests, FailTransfer(r) PROVE StepKind
    <2>1. Fails(r)
      BY <1>15 DEF FailTransfer, TransferUpdate, Fails, Moves, AckLost, OnError, Statements, TransferTx
    <2> QED BY <2>1 DEF StepKind
  <1>16. ASSUME NEW r \in Requests, SaveBalance(r) PROVE StepKind
    <2>1. Commits(r)
      BY <1>16 DEF SaveBalance, Commits, Moves, AckLost, OnError, Statements, TransferTx
    <2> QED BY <2>1 DEF StepKind
  <1>17. ASSUME NEW r \in Requests, CreateAuditLog(r) PROVE StepKind
    <2>1. Audits(r)
      BY <1>17 DEF CreateAuditLog, Outcome, Audits, Moves, AckLost, OnError, Statements, TransferTx
    <2> QED BY <2>1 DEF StepKind
  <1>18. ASSUME NEW r \in Requests, CreateTransfer(r) PROVE StepKind
    <2>1. CASE transfers[op[r].key].status # "absent"
      <3>1. Advances(r, "done", "error")
        BY <1>18, <2>1
           DEF CreateTransfer, KeyIsFree, Advances, Moves, Statements, TransferTx, Unmoved, HoldsKey
      <3> QED BY <3>1 DEF StepKind, Replies
    <2>2. CASE transfers[op[r].key].status = "absent"
      <3>1. Claims(r)
        BY <1>18, <2>2 DEF CreateTransfer, KeyIsFree, Claims, Moves, PendingOf, AckLost, OnError,
           Statements, TransferTx
      <3> QED BY <3>1 DEF StepKind
    <2> QED BY <2>1, <2>2
  <1>19. ASSUME NEW r \in Requests, UpdateDestinationAndCommit(r) PROVE StepKind
    <2>1. CASE BalanceIsCorrect(CreditRow(r))
      <3>1. Commits(r)
        BY <1>19, <2>1 DEF UpdateDestinationAndCommit, Commits, Moves, AckLost, OnError,
           Statements, TransferTx
      <3> QED BY <3>1 DEF StepKind
    <2>2. CASE ~BalanceIsCorrect(CreditRow(r))
      <3>1. Advances(r, "fail", "error")
        BY <1>19, <2>2 DEF UpdateDestinationAndCommit, Advances, Moves, Statements,
           TransferTx, Unmoved, HoldsKey
      <3> QED BY <3>1 DEF StepKind, Statements, Replies
    <2> QED BY <2>1, <2>2
  <1>20. CASE UNCHANGED vars
    BY <1>20 DEF vars, StepKind
  <1> QED
    BY <1>1, <1>2, <1>3, <1>4, <1>5, <1>6, <1>7, <1>8, <1>9, <1>10, <1>11, <1>12, <1>13, <1>14, <1>15, <1>16, <1>17, <1>18, <1>19, <1>20, <1>21
       DEF Next, TransferStep, AccountStep, Terminating, StepKind

LEMMA ServiceInit == Init => ServiceInv
  BY ConstantsAssumption
     DEF Init, ServiceInv, PhaseOK, OwnerOK, KeyOK, ReplyOK, AuditOK, Unmoved,
         HoldsKey, TransferTx

LEMMA ServiceStep == TypeInv /\ ServiceInv /\ StepKind => ServiceInv'
  <1> SUFFICES ASSUME TypeInv, ServiceInv, StepKind PROVE ServiceInv'
    OBVIOUS
  <1>a. /\ pc \in [Requests -> Statements \union {"idle", "done"}]
        /\ reply \in [Requests -> Replies]
        /\ op \in [Requests -> Operations \union {NoOperation}]
        /\ transfers \in [Keys -> TransferRecord]
        /\ applied \subseteq Requests
        /\ \A row \in audit : row.req \in Requests
    BY DEF TypeInv, TypeOK, LocalsOK, TablesOK
  <1>b. \A q \in Requests :
          pc[q] # "idle" /\ op[q].kind = "transfer" => op[q].key \in Keys
    BY OperationFacts DEF TypeInv, CallInv
  <1>c. \A q \in Requests : pc[q] \in HoldsKey \union {"claim"} =>
          pc[q] # "idle" /\ op[q].kind = "transfer" /\ op[q].key \in Keys
    BY <1>b DEF TypeInv, CallInv, HoldsKey, TransferTx, Statements
  <1>d. \A k \in Keys : transfers[k].by \in Requests \union {Nobody}
    BY <1>a DEF TransferRecord
  <1>e. Nobody \notin Requests
    BY ConstantsAssumption
  <1>f. \A q \in Requests : PhaseOK(q) /\ OwnerOK(q) /\ ReplyOK(q)
    BY DEF ServiceInv
  <1>g. \A k \in Keys : KeyOK(k)
    BY DEF ServiceInv
  <1>h. \A row \in audit : AuditOK(row)
    BY DEF ServiceInv
  <1>k. \A q \in Requests : pc[q] \in HoldsKey =>
          transfers[op[q].key].by = q /\ transfers[op[q].key].status = "pending"
    <2>1. \A q \in Requests : PendingOf(q).by = q /\ PendingOf(q).status = "pending"
      BY DEF PendingOf
    <2> QED BY <1>f, <2>1 DEF OwnerOK
  <1>m. ASSUME NEW r \in Requests, NEW p, NEW a, Moves(r, p, a)
        PROVE  /\ pc'[r] = p /\ reply'[r] = a
               /\ \A q \in Requests \ {r} : pc'[q] = pc[q] /\ reply'[q] = reply[q]
    BY <1>a, <1>m DEF Moves
  <1>1. ASSUME NEW r \in Requests, Begins(r) PROVE ServiceInv'
    <2>1. pc[r] = "idle" /\ r \notin applied /\ reply[r] = "none"
      BY <1>1, <1>f DEF Begins, PhaseOK, ReplyOK, Unmoved
    <2>2. UNCHANGED <<transfers, applied, audit>>
      BY <1>1 DEF Begins
    <2>3. /\ \A q \in Requests \ {r} :
               pc'[q] = pc[q] /\ reply'[q] = reply[q] /\ op'[q] = op[q]
          /\ \/ pc'[r] = "done" /\ reply'[r] = "refused"
             \/ pc'[r] \in {"checkKey", "read"} /\ reply'[r] = reply[r]
      BY <1>1, <1>a, <1>m DEF Begins
    <2>4. ASSUME NEW q \in Requests PROVE PhaseOK(q)' /\ OwnerOK(q)'
      <3>1. CASE q = r
        BY <3>1, <2>1, <2>2, <2>3 DEF PhaseOK, OwnerOK, HoldsKey, TransferTx
      <3>2. CASE q # r
        BY <3>2, <1>f, <2>2, <2>3 DEF PhaseOK, OwnerOK
      <3> QED BY <3>1, <3>2
    <2>5. \A q \in applied : q # r /\ op'[q] = op[q]
      BY <1>a, <2>1, <2>3
    <2>6. ASSUME NEW q \in Requests PROVE ReplyOK(q)'
      <3>1. CASE q = r
        BY <3>1, <2>1, <2>2, <2>3 DEF ReplyOK
      <3>2. CASE q # r
        BY <3>2, <1>f, <2>2, <2>3, <2>5 DEF ReplyOK, CompletedBy
      <3> QED BY <3>1, <3>2
    <2>7. ASSUME NEW k \in Keys PROVE KeyOK(k)'
      BY <1>d, <1>g, <2>1, <2>2, <2>3 DEF KeyOK
    <2>8. ASSUME NEW row \in audit' PROVE AuditOK(row)'
      BY <1>a, <1>h, <2>1, <2>2, <2>3 DEF AuditOK, CompletedBy
    <2> QED BY <2>4, <2>6, <2>7, <2>8 DEF ServiceInv
  <1>2. ASSUME NEW r \in Requests, NEW p \in Statements \union {"done"},
               NEW a \in Replies, Advances(r, p, a)
        PROVE  ServiceInv'
    <2>1. pc[r] # "idle" /\ pc[r] # "done" /\ p # "idle"
      BY <1>2 DEF Advances, Statements, TransferTx
    <2>2. UNCHANGED <<op, transfers, applied, audit>>
      BY <1>2 DEF Advances
    <2>3. /\ pc'[r] = p /\ reply'[r] = a
          /\ \A q \in Requests \ {r} : pc'[q] = pc[q] /\ reply'[q] = reply[q]
      BY <1>2, <1>m DEF Advances
    <2>4. ASSUME NEW q \in Requests PROVE PhaseOK(q)' /\ OwnerOK(q)'
      <3>1. CASE q = r
        BY <3>1, <1>2, <1>f, <2>1, <2>2, <2>3
           DEF Advances, PhaseOK, OwnerOK, PendingOf, HoldsKey
      <3>2. CASE q # r
        BY <3>2, <1>f, <2>2, <2>3 DEF PhaseOK, OwnerOK, PendingOf
      <3> QED BY <3>1, <3>2
    <2>5. ASSUME NEW q \in Requests PROVE ReplyOK(q)'
      <3>1. CASE q # r
        BY <3>1, <1>f, <2>2, <2>3 DEF ReplyOK, CompletedBy
      <3>2. CASE q = r /\ a = reply[r]
        BY <3>2, <1>2, <1>f, <2>1, <2>2, <2>3 DEF Advances, ReplyOK, CompletedBy
      <3>3. CASE q = r /\ a # reply[r] /\ a # "replayed"
        BY <3>3, <1>2, <1>f, <2>2, <2>3 DEF Advances, ReplyOK, PhaseOK
      <3>4. CASE q = r /\ a # reply[r] /\ a = "replayed"
        <4> DEFINE o == transfers[op[r].key].by
        <4>1. p = "done" /\ op[r].key \in Keys /\ transfers[op[r].key].status = "completed"
          BY <3>4, <1>2 DEF Advances
        <4>2. o \in applied /\ op[o].kind = "transfer" /\ op[o].key = op[r].key
          BY <4>1, <1>a, <1>e, <1>g DEF KeyOK
        <4> QED BY <3>4, <4>1, <4>2, <2>2, <2>3 DEF ReplyOK
      <3> QED BY <3>1, <3>2, <3>3, <3>4
    <2>6. ASSUME NEW k \in Keys PROVE KeyOK(k)'
      BY <1>d, <1>g, <2>1, <2>2, <2>3 DEF KeyOK
    <2>7. ASSUME NEW row \in audit' PROVE AuditOK(row)'
      BY <1>a, <1>h, <2>1, <2>2, <2>3 DEF AuditOK, CompletedBy
    <2> QED BY <2>4, <2>5, <2>6, <2>7 DEF ServiceInv
  <1>3. ASSUME NEW r \in Requests, Claims(r) PROVE ServiceInv'
    <2> DEFINE k0 == op[r].key
    <2>1. k0 \in Keys /\ pc[r] = "claim" /\ transfers[k0].by = Nobody
      BY <1>3, <1>c, <1>g DEF Claims, KeyOK
    <2>2. /\ transfers'[k0] = PendingOf(r)
          /\ \A k \in Keys \ {k0} : transfers'[k] = transfers[k]
      BY <1>3, <1>a, <2>1 DEF Claims
    <2>3. /\ \A q \in Requests \ {r} : pc'[q] = pc[q] /\ reply'[q] = reply[q]
          /\ \/ pc'[r] = "debitRead" /\ reply'[r] = reply[r]
             \/ pc'[r] = "done" /\ reply'[r] = "error"
      BY <1>3, <1>m DEF Claims
    <2>4. UNCHANGED <<op, applied, audit>>
      BY <1>3 DEF Claims
    <2>5. r \notin applied /\ reply[r] = "none"
      BY <1>f, <2>1 DEF PhaseOK, ReplyOK, Unmoved
    <2>6. \A q \in Requests : pc[q] \in HoldsKey => op[q].key # k0
      BY <1>e, <1>k, <2>1
    <2>7. \A q \in applied : op[q].kind = "transfer" => op[q].key # k0
      BY <1>a, <1>f, <1>e, <2>1 DEF OwnerOK
    <2>8. ASSUME NEW q \in Requests PROVE PhaseOK(q)'
      BY <1>f, <2>3, <2>4, <2>5 DEF PhaseOK, Unmoved, TransferTx
    <2>9. ASSUME NEW q \in Requests PROVE OwnerOK(q)'
      <3>1. CASE q = r
        BY <3>1, <2>2, <2>3, <2>4, <2>5 DEF OwnerOK, HoldsKey
      <3>2. CASE q # r
        BY <3>2, <1>a, <1>b, <1>c, <1>f, <2>2, <2>3, <2>4, <2>6, <2>7 DEF OwnerOK
      <3> QED BY <3>1, <3>2
    <2>10. ASSUME NEW q \in Requests PROVE ReplyOK(q)'
      <3>1. CASE q = r
        BY <3>1, <2>3, <2>4, <2>5 DEF ReplyOK
      <3>2. CASE q # r
        BY <3>2, <1>b, <1>f, <2>2, <2>3, <2>4, <2>7 DEF ReplyOK, CompletedBy
      <3> QED BY <3>1, <3>2
    <2>11. ASSUME NEW k \in Keys PROVE KeyOK(k)'
      BY <1>d, <1>e, <1>g, <1>c, <2>1, <2>2, <2>3, <2>4 DEF KeyOK, PendingOf
    <2>12. ASSUME NEW row \in audit' PROVE AuditOK(row)'
      BY <1>a, <1>b, <1>h, <2>1, <2>2, <2>3, <2>4, <2>7 DEF AuditOK
    <2> QED BY <2>8, <2>9, <2>10, <2>11, <2>12 DEF ServiceInv
  <1>4. ASSUME NEW r \in Requests, Commits(r) PROVE ServiceInv'
    <2>1. /\ pc[r] \in {"creditWrite", "balanceWrite"} /\ reply[r] = "none"
          /\ pc[r] # "idle"
          /\ op[r].kind = "transfer" => pc[r] = "creditWrite"
      BY <1>4, <1>f DEF Commits, ReplyOK, TypeInv, CallInv
    <2>2. /\ UNCHANGED <<op, transfers, audit>>
          /\ applied' = applied \union {r}
      BY <1>4 DEF Commits
    <2>3. /\ \A q \in Requests \ {r} : pc'[q] = pc[q] /\ reply'[q] = reply[q]
          /\ \/ pc'[r] = "complete" /\ reply'[r] = "none" /\ pc[r] = "creditWrite"
             \/ pc'[r] = "fail" /\ reply'[r] = "error" /\ pc[r] = "creditWrite"
             \/ pc'[r] = "record" /\ reply'[r] = "none"
             \/ pc'[r] = "done" /\ reply'[r] = "error"
      BY <1>4, <1>m, <2>1 DEF Commits
    <2>4. pc[r] = "creditWrite" =>
            transfers[op[r].key] = PendingOf(r) /\ transfers[op[r].key].by = r
      BY <1>f, <1>k DEF OwnerOK, HoldsKey, TransferTx
    <2>5. ASSUME NEW q \in Requests PROVE PhaseOK(q)' /\ OwnerOK(q)'
      <3>1. CASE q = r
        BY <3>1, <2>1, <2>2, <2>3, <2>4
           DEF PhaseOK, OwnerOK, PendingOf, HoldsKey, TransferTx, Unmoved
      <3>2. CASE q # r
        BY <3>2, <1>f, <2>2, <2>3 DEF PhaseOK, OwnerOK, PendingOf
      <3> QED BY <3>1, <3>2
    <2>6. ASSUME NEW q \in Requests PROVE ReplyOK(q)'
      <3>1. CASE q = r
        BY <3>1, <2>2, <2>3 DEF ReplyOK
      <3>2. CASE q # r
        BY <3>2, <1>f, <2>2, <2>3 DEF ReplyOK, CompletedBy
      <3> QED BY <3>1, <3>2
    <2>7. ASSUME NEW k \in Keys PROVE KeyOK(k)'
      BY <1>d, <1>g, <2>1, <2>2, <2>3 DEF KeyOK
    <2>8. ASSUME NEW row \in audit' PROVE AuditOK(row)'
      BY <1>a, <1>h, <2>1, <2>2, <2>3 DEF AuditOK, CompletedBy
    <2> QED BY <2>5, <2>6, <2>7, <2>8 DEF ServiceInv
  <1>5. ASSUME NEW r \in Requests, Completes(r) PROVE ServiceInv'
    <2> DEFINE k0 == op[r].key
    <2>1. /\ pc[r] = "complete" /\ pc[r] \in HoldsKey /\ pc[r] # "idle"
          /\ k0 \in Keys /\ op[r].kind = "transfer"
          /\ transfers[k0] = PendingOf(r) /\ transfers[k0].by = r
          /\ transfers[k0].status = "pending"
      BY <1>5, <1>c, <1>f, <1>k DEF Completes, OwnerOK, HoldsKey
    <2>2. /\ transfers'[k0] = [status |-> "completed", by |-> r]
          /\ \A k \in Keys \ {k0} : transfers'[k] = transfers[k]
      BY <1>5, <1>a, <2>1 DEF Completes, PendingOf
    <2>3. /\ \A q \in Requests \ {r} : pc'[q] = pc[q] /\ reply'[q] = reply[q]
          /\ \/ pc'[r] = "audit" /\ reply'[r] = "ok"
             \/ pc'[r] = "done" /\ reply'[r] = "error"
      BY <1>5, <1>m DEF Completes
    <2>4. UNCHANGED <<op, applied, audit>>
      BY <1>5 DEF Completes
    <2>5. \A q \in Requests \ {r} : pc[q] \in HoldsKey => op[q].key # k0
      BY <1>k, <2>1
    <2>6. ASSUME NEW q \in Requests PROVE PhaseOK(q)' /\ OwnerOK(q)'
      <3>1. CASE q = r
        BY <3>1, <1>f, <2>1, <2>2, <2>3, <2>4
           DEF PhaseOK, OwnerOK, Unmoved, HoldsKey, TransferTx
      <3>2. CASE q # r
        BY <3>2, <1>b, <1>c, <1>f, <2>1, <2>2, <2>3, <2>4, <2>5
           DEF PhaseOK, OwnerOK
      <3> QED BY <3>1, <3>2
    <2>7. \A q \in Requests : transfers[k0] # CompletedBy(q)
      BY <2>1 DEF PendingOf, CompletedBy
    <2>8. ASSUME NEW q \in Requests PROVE ReplyOK(q)'
      <3>1. CASE q = r
        BY <3>1, <1>f, <2>1, <2>2, <2>3, <2>4, <2>7
           DEF ReplyOK, PhaseOK, CompletedBy
      <3>2. CASE q # r
        <4>1. reply[q] = "ok" /\ op[q].kind = "transfer" =>
                op[q].key \in Keys /\ op[q].key # k0
          BY <1>b, <1>f, <2>7 DEF ReplyOK
        <4> QED BY <3>2, <4>1, <1>f, <2>2, <2>3, <2>4 DEF ReplyOK, CompletedBy
      <3> QED BY <3>1, <3>2
    <2>9. ASSUME NEW k \in Keys PROVE KeyOK(k)'
      BY <1>d, <1>e, <1>f, <1>g, <2>1, <2>2, <2>3, <2>4 DEF KeyOK, PhaseOK
    <2>10. ASSUME NEW row \in audit' PROVE AuditOK(row)'
      <3>1. /\ row \in audit /\ row.req \in Requests /\ AuditOK(row)
            /\ pc[row.req] # "idle"
        BY <1>a, <1>h, <2>4 DEF AuditOK
      <3>2. row.outcome = "done" /\ op[row.req].kind = "transfer" =>
              op[row.req].key \in Keys /\ op[row.req].key # k0
        BY <3>1, <1>b, <2>7 DEF AuditOK
      <3> QED BY <3>1, <3>2, <2>2, <2>3, <2>4 DEF AuditOK, CompletedBy
    <2> QED BY <2>6, <2>8, <2>9, <2>10 DEF ServiceInv
  <1>6. ASSUME NEW r \in Requests, Fails(r) PROVE ServiceInv'
    <2> DEFINE k0 == op[r].key
    <2>1. /\ pc[r] = "fail" /\ pc[r] \in HoldsKey /\ pc[r] # "idle"
          /\ k0 \in Keys /\ op[r].kind = "transfer"
          /\ transfers[k0] = PendingOf(r) /\ transfers[k0].by = r
          /\ transfers[k0].status = "pending"
      BY <1>6, <1>c, <1>f, <1>k DEF Fails, OwnerOK, HoldsKey
    <2>2. /\ transfers'[k0] = [status |-> "failed", by |-> r]
          /\ \A k \in Keys \ {k0} : transfers'[k] = transfers[k]
      BY <1>6, <1>a, <2>1 DEF Fails, PendingOf
    <2>3. /\ \A q \in Requests \ {r} : pc'[q] = pc[q] /\ reply'[q] = reply[q]
          /\ pc'[r] = "audit" /\ reply'[r] = reply[r]
      BY <1>6, <1>m DEF Fails
    <2>4. UNCHANGED <<op, applied, audit>>
      BY <1>6 DEF Fails
    <2>5. \A q \in Requests \ {r} : pc[q] \in HoldsKey => op[q].key # k0
      BY <1>k, <2>1
    <2>6. ASSUME NEW q \in Requests PROVE PhaseOK(q)' /\ OwnerOK(q)'
      <3>1. CASE q = r
        BY <3>1, <1>f, <2>1, <2>2, <2>3, <2>4
           DEF PhaseOK, OwnerOK, Unmoved, HoldsKey, TransferTx
      <3>2. CASE q # r
        BY <3>2, <1>b, <1>c, <1>f, <2>1, <2>2, <2>3, <2>4, <2>5
           DEF PhaseOK, OwnerOK
      <3> QED BY <3>1, <3>2
    <2>7. \A q \in Requests : transfers[k0] # CompletedBy(q)
      BY <2>1 DEF PendingOf, CompletedBy
    <2>8. ASSUME NEW q \in Requests PROVE ReplyOK(q)'
      <3>1. CASE q = r
        BY <3>1, <1>f, <2>1, <2>2, <2>3, <2>4, <2>7
           DEF ReplyOK, PhaseOK, CompletedBy
      <3>2. CASE q # r
        <4>1. reply[q] = "ok" /\ op[q].kind = "transfer" =>
                op[q].key \in Keys /\ op[q].key # k0
          BY <1>b, <1>f, <2>7 DEF ReplyOK
        <4> QED BY <3>2, <4>1, <1>f, <2>2, <2>3, <2>4 DEF ReplyOK, CompletedBy
      <3> QED BY <3>1, <3>2
    <2>9. ASSUME NEW k \in Keys PROVE KeyOK(k)'
      BY <1>d, <1>e, <1>f, <1>g, <2>1, <2>2, <2>3, <2>4 DEF KeyOK, PhaseOK
    <2>10. ASSUME NEW row \in audit' PROVE AuditOK(row)'
      <3>1. /\ row \in audit /\ row.req \in Requests /\ AuditOK(row)
            /\ pc[row.req] # "idle"
        BY <1>a, <1>h, <2>4 DEF AuditOK
      <3>2. row.outcome = "done" /\ op[row.req].kind = "transfer" =>
              op[row.req].key \in Keys /\ op[row.req].key # k0
        BY <3>1, <1>b, <2>7 DEF AuditOK
      <3> QED BY <3>1, <3>2, <2>2, <2>3, <2>4 DEF AuditOK, CompletedBy
    <2> QED BY <2>6, <2>8, <2>9, <2>10 DEF ServiceInv
  <1>7. ASSUME NEW r \in Requests, Audits(r) PROVE ServiceInv'
    <2> DEFINE new == [req |-> r, outcome |-> IF reply[r] = "ok" THEN "done" ELSE "failed"]
    <2>1. pc[r] = "audit" /\ audit' = audit \union {new}
      BY <1>7 DEF Audits
    <2>2. UNCHANGED <<op, transfers, applied>>
      BY <1>7 DEF Audits
    <2>3. /\ pc'[r] = "done" /\ reply'[r] = reply[r]
          /\ \A q \in Requests \ {r} : pc'[q] = pc[q] /\ reply'[q] = reply[q]
      BY <1>7, <1>m DEF Audits
    <2>4. ASSUME NEW q \in Requests PROVE PhaseOK(q)' /\ OwnerOK(q)'
      BY <1>f, <2>1, <2>2, <2>3 DEF PhaseOK, OwnerOK, PendingOf, HoldsKey, TransferTx, Unmoved
    <2>5. ASSUME NEW q \in Requests PROVE ReplyOK(q)'
      BY <1>f, <2>1, <2>2, <2>3 DEF ReplyOK, CompletedBy
    <2>6. ASSUME NEW k \in Keys PROVE KeyOK(k)'
      BY <1>d, <1>g, <2>1, <2>2, <2>3 DEF KeyOK
    <2>7. ASSUME NEW row \in audit' PROVE AuditOK(row)'
      <3>1. CASE row \in audit
        BY <3>1, <1>a, <1>h, <2>1, <2>2, <2>3 DEF AuditOK, CompletedBy
      <3>2. CASE row = new
        BY <3>2, <1>f, <2>1, <2>2, <2>3 DEF AuditOK, ReplyOK, CompletedBy
      <3> QED BY <3>1, <3>2, <2>1
    <2> QED BY <2>4, <2>5, <2>6, <2>7 DEF ServiceInv
  <1>8. CASE Crash
    <2>1. /\ UNCHANGED <<op, transfers, applied, audit>>
          /\ \A q \in Requests :
               \/ pc'[q] = "done" /\ reply'[q] = "crashed" /\ pc[q] # "idle"
               \/ pc'[q] = pc[q] /\ reply'[q] = reply[q]
      BY <1>8 DEF Crash, tables, locals, history, Statements, TransferTx
    <2>2. ASSUME NEW q \in Requests PROVE PhaseOK(q)' /\ OwnerOK(q)' /\ ReplyOK(q)'
      BY <1>f, <2>1
         DEF PhaseOK, OwnerOK, ReplyOK, PendingOf, CompletedBy, HoldsKey, TransferTx, Unmoved
    <2>3. ASSUME NEW k \in Keys PROVE KeyOK(k)'
      BY <1>d, <1>g, <2>1 DEF KeyOK
    <2>4. ASSUME NEW row \in audit' PROVE AuditOK(row)'
      BY <1>a, <1>h, <2>1 DEF AuditOK, CompletedBy
    <2> QED BY <2>2, <2>3, <2>4 DEF ServiceInv
  <1>9. CASE UNCHANGED <<pc, op, reply, transfers, applied, audit>>
    BY <1>9
       DEF ServiceInv, PhaseOK, OwnerOK, ReplyOK, KeyOK, AuditOK, PendingOf, CompletedBy
  <1> QED BY <1>1, <1>2, <1>3, <1>4, <1>5, <1>6, <1>7, <1>8, <1>9 DEF StepKind

\* The inductive invariant holds of every reachable state.
THEOREM ServiceCorrect == Spec => [](TypeInv /\ ServiceInv)
  <1>1. Init => TypeInv /\ ServiceInv
    BY TypeInit, ServiceInit
  <1>2. TypeInv /\ ServiceInv /\ [Next]_vars => (TypeInv /\ ServiceInv)'
    BY TypeStep, StepKinds, ServiceStep
  <1> QED BY <1>1, <1>2, PTL DEF Spec

\* An idempotency key never moves money twice, for any number of requests,
\* keys and accounts, although no SELECT locks, under every fault: two
\* applied transfers under one key would both own its row.
THEOREM KeysMoveOnce == Spec => []KeyMovesOnce
  <1>1. TypeInv /\ ServiceInv => KeyMovesOnce
    BY DEF TypeInv, TypeOK, TablesOK, ServiceInv, OwnerOK, KeyMovesOnce
  <1> QED BY ServiceCorrect, <1>1, PTL

\* A transfer row that says completed belongs to a call whose money moved.
THEOREM CompletedMoved == Spec => []CompletedMeansMoved
  <1>1. ServiceInv => CompletedMeansMoved
    BY DEF ServiceInv, KeyOK, CompletedMeansMoved
  <1> QED BY ServiceCorrect, <1>1, PTL

\* No caller is misled: ok and replayed are said only of money that moved,
\* refused, stillProcessing and previouslyFailed only of a call that moved
\* none.
THEOREM RepliesAreTrue == Spec => []ReplyIsTrue
  <1>1. ServiceInv => ReplyIsTrue
    BY DEF ServiceInv, ReplyOK, ReplyIsTrue
  <1> QED BY ServiceCorrect, <1>1, PTL

\* No audit row claims success for a call without effect.
THEOREM AuditsAreTrue == Spec => []AuditIsTrue
  <1>1. ServiceInv => AuditIsTrue
    BY DEF ServiceInv, AuditOK, AuditIsTrue, CompletedBy
  <1> QED BY ServiceCorrect, <1>1, PTL

-----------------------------------------------------------------------------
(* What transfer rows are worth when faults are ruled out *)

\* A call about to record a failure has moved nothing, and neither has one
\* that has recorded it and may only add its audit row.
FailInv ==
  /\ \A r \in Requests : pc[r] = "fail" => r \notin applied
  /\ \A k \in Keys : transfers[k].status = "failed" =>
       /\ transfers[k].by \notin applied
       /\ pc[transfers[k].by] \in {"audit", "done"}

\* A pending row belongs to a call that works under its key.
PendingInv ==
  \A k \in Keys :
    transfers[k].status = "pending" => pc[transfers[k].by] \in HoldsKey

\* The key of a call that holds one is its own, and it has moved no money
\* before the commit.
LEMMA HolderFacts ==
  ASSUME TypeInv, ServiceInv, NEW r \in Requests, pc[r] \in HoldsKey
  PROVE  /\ op[r].key \in Keys
         /\ transfers[op[r].key].status = "pending" /\ transfers[op[r].key].by = r
         /\ \A k \in Keys : k # op[r].key => transfers[k].by # r
  <1>1. pc[r] \in Statements /\ op[r].kind = "transfer"
    BY DEF HoldsKey, TransferTx, Statements, TypeInv, CallInv
  <1>2. op[r].key \in Keys
    BY <1>1, OperationFacts DEF TypeInv, CallInv, Statements, TransferTx
  <1>3. transfers[op[r].key] = PendingOf(r)
    BY DEF ServiceInv, OwnerOK
  <1>4. \A k \in Keys : transfers[k].by = r => op[r].key = k
    BY ConstantsAssumption DEF ServiceInv, KeyOK
  <1> QED BY <1>2, <1>3, <1>4 DEF PendingOf

\* Rows name the requests that own them.
LEMMA OwnerFacts ==
  ASSUME TypeInv, ServiceInv, NEW k \in Keys, transfers[k].status # "absent"
  PROVE  transfers[k].by \in Requests /\ pc[transfers[k].by] # "idle"
  BY DEF TypeInv, TypeOK, TablesOK, TransferRecord, ServiceInv, KeyOK

LEMMA FailStep ==
  ASSUME "ackLost" \notin Faults, TypeInv, ServiceInv, FailInv, [Next]_vars
  PROVE  FailInv'
  <1> USE HolderFacts, OwnerFacts DEF FailInv, TypeInv, TypeOK, LocalsOK,
     TablesOK, Goto, Answer, Return, AckLost, OnError, Overwrites, tables, locals, history, Statements,
     TransferTx, HoldsKey, Unmoved, ServiceInv, PhaseOK
  <1>1. ASSUME NEW r \in Requests, Start(r) PROVE FailInv'
    BY <1>1 DEF Start
  <1>2. ASSUME NEW r \in Requests, CheckExistingTransfer(r) PROVE FailInv'
    BY <1>2 DEF CheckExistingTransfer
  <1>3. ASSUME NEW r \in Requests, RetrieveFromAccount(r) PROVE FailInv'
    BY <1>3 DEF RetrieveFromAccount
  <1>4. ASSUME NEW r \in Requests, RetrieveToAccount(r) PROVE FailInv'
    BY <1>4 DEF RetrieveToAccount
  <1>5. ASSUME NEW r \in Requests, CreateTransfer(r) PROVE FailInv'
    BY <1>5 DEF CreateTransfer, KeyIsFree
  <1>6. ASSUME NEW r \in Requests, SelectSource(r) PROVE FailInv'
    BY <1>6 DEF SelectSource
  <1>7. ASSUME NEW r \in Requests, UpdateSource(r) PROVE FailInv'
    BY <1>7 DEF UpdateSource
  <1>8. ASSUME NEW r \in Requests, SelectDestination(r) PROVE FailInv'
    BY <1>8 DEF SelectDestination
  <1>9. ASSUME NEW r \in Requests, UpdateDestinationAndCommit(r) PROVE FailInv'
    BY <1>9 DEF UpdateDestinationAndCommit
  <1>10. ASSUME NEW r \in Requests, CompleteTransfer(r) PROVE FailInv'
    BY <1>10 DEF CompleteTransfer, TransferUpdate
  <1>11. ASSUME NEW r \in Requests, FailTransfer(r) PROVE FailInv'
    BY <1>11 DEF FailTransfer, TransferUpdate
  <1>12. ASSUME NEW r \in Requests, GetAccount(r) PROVE FailInv'
    BY <1>12 DEF GetAccount, Continue
  <1>22. ASSUME NEW r \in Requests, FindUser(r) PROVE FailInv'
    BY <1>22 DEF FindUser, Continue
  <1>13. ASSUME NEW r \in Requests, SelectForBalance(r) PROVE FailInv'
    BY <1>13 DEF SelectForBalance
  <1>14. ASSUME NEW r \in Requests, SaveBalance(r) PROVE FailInv'
    BY <1>14 DEF SaveBalance
  <1>15. ASSUME NEW r \in Requests, RecordTransaction(r) PROVE FailInv'
    BY <1>15 DEF RecordTransaction
  <1>16. ASSUME NEW r \in Requests, SaveStatus(r) PROVE FailInv'
    BY <1>16 DEF SaveStatus
  <1>17. ASSUME NEW r \in Requests, CreateAuditLog(r) PROVE FailInv'
    BY <1>17 DEF CreateAuditLog
  <1>18. ASSUME NEW r \in Requests, StatementError(r) PROVE FailInv'
    BY <1>18 DEF StatementError
  <1>19. ASSUME NEW r \in Requests, AbortDeadlocked(r) PROVE FailInv'
    BY <1>19 DEF AbortDeadlocked, Blocked
  <1>20. CASE Crash
    BY <1>20 DEF Crash
  <1>21. CASE UNCHANGED vars
    BY <1>21 DEF vars
  <1> QED
    BY ONLY [Next]_vars, <1>1, <1>2, <1>3, <1>4, <1>5, <1>6, <1>7, <1>8, <1>9,
       <1>10, <1>11, <1>12, <1>13, <1>14, <1>15, <1>16, <1>17, <1>18, <1>19, <1>20,
       <1>21, <1>22
       DEF Next, TransferStep, AccountStep, Terminating

LEMMA PendingStep ==
  ASSUME Faults = {}, TypeInv, ServiceInv, PendingInv, [Next]_vars
  PROVE  PendingInv'
  <1> USE HolderFacts, OwnerFacts DEF PendingInv, TypeInv, TypeOK, LocalsOK,
     TablesOK, Goto, Answer, Return, AckLost, OnError, Overwrites, tables, locals, history, Statements,
     TransferTx, HoldsKey, Unmoved, ServiceInv, PhaseOK
  <1>1. ASSUME NEW r \in Requests, Start(r) PROVE PendingInv'
    BY <1>1 DEF Start
  <1>2. ASSUME NEW r \in Requests, CheckExistingTransfer(r) PROVE PendingInv'
    BY <1>2 DEF CheckExistingTransfer
  <1>3. ASSUME NEW r \in Requests, RetrieveFromAccount(r) PROVE PendingInv'
    BY <1>3 DEF RetrieveFromAccount
  <1>4. ASSUME NEW r \in Requests, RetrieveToAccount(r) PROVE PendingInv'
    BY <1>4 DEF RetrieveToAccount
  <1>5. ASSUME NEW r \in Requests, CreateTransfer(r) PROVE PendingInv'
    BY <1>5 DEF CreateTransfer, KeyIsFree
  <1>6. ASSUME NEW r \in Requests, SelectSource(r) PROVE PendingInv'
    BY <1>6 DEF SelectSource
  <1>7. ASSUME NEW r \in Requests, UpdateSource(r) PROVE PendingInv'
    BY <1>7 DEF UpdateSource
  <1>8. ASSUME NEW r \in Requests, SelectDestination(r) PROVE PendingInv'
    BY <1>8 DEF SelectDestination
  <1>9. ASSUME NEW r \in Requests, UpdateDestinationAndCommit(r) PROVE PendingInv'
    BY <1>9 DEF UpdateDestinationAndCommit
  <1>10. ASSUME NEW r \in Requests, CompleteTransfer(r) PROVE PendingInv'
    BY <1>10 DEF CompleteTransfer, TransferUpdate
  <1>11. ASSUME NEW r \in Requests, FailTransfer(r) PROVE PendingInv'
    BY <1>11 DEF FailTransfer, TransferUpdate
  <1>12. ASSUME NEW r \in Requests, GetAccount(r) PROVE PendingInv'
    BY <1>12 DEF GetAccount, Continue
  <1>22. ASSUME NEW r \in Requests, FindUser(r) PROVE PendingInv'
    BY <1>22 DEF FindUser, Continue
  <1>13. ASSUME NEW r \in Requests, SelectForBalance(r) PROVE PendingInv'
    BY <1>13 DEF SelectForBalance
  <1>14. ASSUME NEW r \in Requests, SaveBalance(r) PROVE PendingInv'
    BY <1>14 DEF SaveBalance
  <1>15. ASSUME NEW r \in Requests, RecordTransaction(r) PROVE PendingInv'
    BY <1>15 DEF RecordTransaction
  <1>16. ASSUME NEW r \in Requests, SaveStatus(r) PROVE PendingInv'
    BY <1>16 DEF SaveStatus
  <1>17. ASSUME NEW r \in Requests, CreateAuditLog(r) PROVE PendingInv'
    BY <1>17 DEF CreateAuditLog
  <1>18. ASSUME NEW r \in Requests, StatementError(r) PROVE PendingInv'
    BY <1>18 DEF StatementError
  <1>19. ASSUME NEW r \in Requests, AbortDeadlocked(r) PROVE PendingInv'
    BY <1>19 DEF AbortDeadlocked, Blocked
  <1>20. CASE Crash
    BY <1>20 DEF Crash
  <1>21. CASE UNCHANGED vars
    BY <1>21 DEF vars
  <1> QED
    BY ONLY [Next]_vars, <1>1, <1>2, <1>3, <1>4, <1>5, <1>6, <1>7, <1>8, <1>9,
       <1>10, <1>11, <1>12, <1>13, <1>14, <1>15, <1>16, <1>17, <1>18, <1>19, <1>20,
       <1>21, <1>22
       DEF Next, TransferStep, AccountStep, Terminating

\* Where acknowledgements of commits are never lost, a row that says failed
\* belongs to a call whose money has not moved, whatever crashes and errors
\* do.
THEOREM FailedNeverMoved ==
  ASSUME "ackLost" \notin Faults
  PROVE  Spec => []FailedMeansNotMoved
  <1>1. Init => FailInv
    BY DEF Init, FailInv
  <1>2. TypeInv /\ ServiceInv /\ FailInv /\ [Next]_vars => FailInv'
    BY FailStep
  <1>3. FailInv => FailedMeansNotMoved
    BY DEF FailInv, FailedMeansNotMoved
  <1> QED BY ServiceCorrect, <1>1, <1>2, <1>3, PTL DEF Spec

\* Without faults a row that says pending belongs to a call still at work:
\* neither a deadlock abort nor a failed check leaves one behind.
THEOREM PendingIsAtWork ==
  ASSUME Faults = {}
  PROVE  Spec => []PendingMeansProcessing
  <1>1. Init => PendingInv
    BY DEF Init, PendingInv
  <1>2. TypeInv /\ ServiceInv /\ PendingInv /\ [Next]_vars => PendingInv'
    BY PendingStep
  <1>3. PendingInv => PendingMeansProcessing
    BY DEF PendingInv, PendingMeansProcessing, HoldsKey, Statements
  <1> QED BY ServiceCorrect, <1>1, <1>2, <1>3, PTL DEF Spec

=============================================================================
