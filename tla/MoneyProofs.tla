----------------------------- MODULE MoneyProofs -----------------------------
(***************************************************************************)
(* What is true of balances, ledger rows and statuses although no SELECT   *)
(* locks: for every number of accounts, keys and requests, every call,     *)
(* every fault and both values of WritesBack, AccountService implements    *)
(* MoneyMovement, a status changes by a status call or by a stale write,   *)
(* closed accounts are empty and the ledger explains the balance of every  *)
(* account that no stale write has hit.                                    *)
(***************************************************************************)
EXTENDS AccountServiceProofs, FiniteSums

\* A call past its arrival has its accounts among the existing ones.
LEMMA CallFacts ==
  ASSUME TypeInv, NEW r \in Requests, pc[r] \in Statements
  PROVE  /\ op[r] \in Operations /\ Valid(op[r])
         /\ op[r].from \in Accounts /\ op[r].to \in Accounts
         /\ op[r].amount \in Int
         /\ op[r].kind = "transfer" => op[r].key \in Keys
  BY OperationFacts DEF TypeInv, CallInv, Statements, TransferTx

-----------------------------------------------------------------------------
(* The rows a request has in hand, by where it stands *)

HandOf(p, o, s, sr, d) ==
  [a \in Accounts |->
     CASE p \in {"findUser", "saveRow"} /\ a = o.from -> s.balance
       [] p \in {"debitWrite", "creditRead", "creditWrite", "balanceWrite"}
            /\ a = o.from -> sr.balance
       [] p = "creditWrite" /\ a = o.to /\ a # o.from -> d.balance
       [] OTHER -> Unread]

Hand(r) == HandOf(pc[r], op[r], seen[r], src[r], dst[r])

-----------------------------------------------------------------------------
(* The kinds of step that money tells apart *)

Kept(q) ==
  /\ pc'[q] = pc[q] /\ op'[q] = op[q] /\ reply'[q] = reply[q]
  /\ seen'[q] = seen[q] /\ src'[q] = src[q] /\ dst'[q] = dst[q]
OthersKept(r) == \A q \in Requests \ {r} : Kept(q)

\* r writes neither a balance, nor a status, nor a ledger row; it may read one
\* balance or forget what it read
Walks(r) ==
  /\ UNCHANGED <<accounts, ledger, applied, overwritten>>
  /\ OthersKept(r)
  /\ pc[r] # "done" /\ pc'[r] # "record"
  /\ pc[r] # "idle" => op'[r] = op[r]
  /\ pc[r] = "record" => pc'[r] = "done" /\ reply'[r] = "error"
  /\ \/ Hand(r)' = Hand(r) \/ Hand(r)' = Movement!Nothing
     \/ \E a \in Accounts : Hand(r)' = [Hand(r) EXCEPT ![a] = accounts[a].balance]

\* Both legs of a transfer and their rows
TransferBooked(r) ==
  /\ pc[r] = "creditWrite" /\ pc'[r] \in {"complete", "fail"}
  /\ OthersKept(r) /\ UNCHANGED op
  /\ accounts' = TransferBalances(r)
  /\ Overwrites({op[r].from, op[r].to}, TransferCopy(r))
  /\ ledger' = ledger \union {DebitRow(r), CreditRow(r)}
  /\ applied' = applied \union {r}

\* The balance of a posting, its row, and the row of a status call
PostingSaved(r) ==
  /\ pc[r] = "balanceWrite"
  /\ pc'[r] = "record" \/ (pc'[r] = "done" /\ reply'[r] = "error")
  /\ OthersKept(r) /\ UNCHANGED <<op, ledger>>
  /\ accounts' = [accounts EXCEPT ![op[r].from] =
                    [src[r] EXCEPT !.balance = @ + Signed(op[r].kind, op[r].amount)]]
  /\ Overwrites({op[r].from}, [a \in {op[r].from} |-> src[r]])
  /\ applied' = applied \union {r}
PostingBooked(r) ==
  /\ pc[r] = "record" /\ pc'[r] \in {"audit", "done"}
  /\ OthersKept(r) /\ UNCHANGED <<op, accounts, applied, overwritten>>
  /\ ledger' = ledger \union {PostingRow(r)}
StatusSaved(r) ==
  /\ pc[r] = "saveRow" /\ pc'[r] \in {"audit", "done"}
  /\ OthersKept(r) /\ UNCHANGED <<op, ledger, applied>>
  /\ accounts' = [accounts EXCEPT ![op[r].from] =
                    [seen[r] EXCEPT !.status = op[r].status]]
  /\ Overwrites({op[r].from}, [a \in {op[r].from} |-> seen[r]])

MoneyStep ==
  \/ \E r \in Requests : \/ Walks(r) \/ TransferBooked(r) \/ PostingSaved(r)
                         \/ PostingBooked(r) \/ StatusSaved(r)
  \/ Crash
  \/ UNCHANGED vars

LEMMA MoneySteps == TypeInv /\ [Next]_vars => MoneyStep
  <1> SUFFICES ASSUME TypeInv, [Next]_vars PROVE MoneyStep
    OBVIOUS
  <1>t. /\ pc \in [Requests -> Statements \union {"idle", "done"}]
        /\ reply \in [Requests -> Replies]
        /\ op \in [Requests -> Operations \union {NoOperation}]
        /\ seen \in [Requests -> CheckedRow] /\ src \in [Requests -> CheckedRow]
        /\ dst \in [Requests -> CheckedRow]
    BY DEF TypeInv, TypeOK, LocalsOK
  <1> USE <1>t DEF Goto, Answer, Return, AckLost, OnError, tables, locals, history,
     Statements, TransferTx, OthersKept, Kept, Hand, HandOf, Movement!Nothing
  <1>1. ASSUME NEW r \in Requests, Start(r) PROVE MoneyStep
    <2>1. /\ pc[r] = "idle" /\ pc'[r] \in {"done", "checkKey", "read"}
          /\ UNCHANGED <<accounts, ledger, applied, overwritten>> /\ OthersKept(r)
      BY <1>1 DEF Start
    <2>2. Hand(r)' = Hand(r)
      BY <2>1
    <2> HIDE DEF Hand, OthersKept
    <2>3. Walks(r)
      BY <2>1, <2>2 DEF Walks
    <2> QED BY <2>3 DEF MoneyStep
  <1>2. ASSUME NEW r \in Requests, CheckExistingTransfer(r) PROVE MoneyStep
    <2>1. Walks(r)
      BY <1>2, CallFacts DEF CheckExistingTransfer, Walks
    <2> QED BY <2>1 DEF MoneyStep
  <1>3. ASSUME NEW r \in Requests, RetrieveFromAccount(r) PROVE MoneyStep
    <2>1. Walks(r)
      BY <1>3, CallFacts DEF RetrieveFromAccount, Walks
    <2> QED BY <2>1 DEF MoneyStep
  <1>4. ASSUME NEW r \in Requests, RetrieveToAccount(r) PROVE MoneyStep
    <2>1. Walks(r)
      BY <1>4, CallFacts DEF RetrieveToAccount, Walks
    <2> QED BY <2>1 DEF MoneyStep
  <1>5. ASSUME NEW r \in Requests, CreateTransfer(r) PROVE MoneyStep
    <2>1. Walks(r)
      BY <1>5, CallFacts DEF CreateTransfer, Walks
    <2> QED BY <2>1 DEF MoneyStep
  <1>6. ASSUME NEW r \in Requests, SelectSource(r) PROVE MoneyStep
    <2>1. CASE Covers(accounts[op[r].from], op[r].amount)
      <3>1. /\ pc[r] = "debitRead" /\ pc'[r] = "debitWrite" /\ UNCHANGED op
            /\ src'[r] = accounts[op[r].from] /\ op[r].from \in Accounts
            /\ UNCHANGED <<accounts, ledger, applied, overwritten>> /\ OthersKept(r)
        BY <1>6, <2>1, CallFacts DEF SelectSource
      <3>2. Hand(r)' = [Hand(r) EXCEPT ![op[r].from] = accounts[op[r].from].balance]
        BY <3>1
      <3> HIDE DEF Hand, OthersKept
      <3>3. Walks(r)
        BY <3>1, <3>2 DEF Walks
      <3> QED BY <3>3 DEF MoneyStep
    <2>2. CASE ~Covers(accounts[op[r].from], op[r].amount)
      <3>1. Walks(r)
        BY <1>6, <2>2 DEF SelectSource, Walks
      <3> QED BY <3>1 DEF MoneyStep
    <2> QED BY <2>1, <2>2
  <1>7. ASSUME NEW r \in Requests, UpdateSource(r) PROVE MoneyStep
    <2>1. Walks(r)
      BY <1>7, CallFacts DEF UpdateSource, Walks
    <2> QED BY <2>1 DEF MoneyStep
  <1>8. ASSUME NEW r \in Requests, SelectDestination(r) PROVE MoneyStep
    <2>1. CASE accounts[op[r].to].status = "active"
      <3>1. /\ pc[r] = "creditRead" /\ pc'[r] = "creditWrite" /\ UNCHANGED <<op, src>>
            /\ dst'[r] = accounts[op[r].to] /\ op[r].to \in Accounts
            /\ op[r].from # op[r].to
            /\ UNCHANGED <<accounts, ledger, applied, overwritten>> /\ OthersKept(r)
        BY <1>8, <2>1, CallFacts DEF SelectDestination, Valid, TypeInv, CallInv
      <3>2. Hand(r)' = [Hand(r) EXCEPT ![op[r].to] = accounts[op[r].to].balance]
        BY <3>1
      <3> HIDE DEF Hand, OthersKept
      <3>3. Walks(r)
        BY <3>1, <3>2 DEF Walks
      <3> QED BY <3>3 DEF MoneyStep
    <2>2. CASE accounts[op[r].to].status # "active"
      <3>1. Walks(r)
        BY <1>8, <2>2 DEF SelectDestination, Walks
      <3> QED BY <3>1 DEF MoneyStep
    <2> QED BY <2>1, <2>2
  <1>9. ASSUME NEW r \in Requests, CompleteTransfer(r) PROVE MoneyStep
    <2>1. Walks(r)
      BY <1>9, CallFacts DEF CompleteTransfer, Walks
    <2> QED BY <2>1 DEF MoneyStep
  <1>10. ASSUME NEW r \in Requests, FailTransfer(r) PROVE MoneyStep
    <2>1. Walks(r)
      BY <1>10, CallFacts DEF FailTransfer, Walks
    <2> QED BY <2>1 DEF MoneyStep
  <1>11. ASSUME NEW r \in Requests, GetAccount(r) PROVE MoneyStep
    <2>1. /\ pc[r] = "read" /\ UNCHANGED op /\ seen'[r] = accounts[op[r].from]
          /\ pc'[r] \in {"findUser", "saveRow", "balanceRead", "done"}
          /\ op[r].from \in Accounts
          /\ UNCHANGED <<accounts, ledger, applied, overwritten>> /\ OthersKept(r)
      BY <1>11, CallFacts DEF GetAccount, Continue
    <2>2. CASE pc'[r] \in {"findUser", "saveRow"}
      <3>1. Hand(r)' = [Hand(r) EXCEPT ![op[r].from] = accounts[op[r].from].balance]
        BY <2>1, <2>2
      <3> HIDE DEF Hand, OthersKept
      <3>2. Walks(r)
        BY <2>1, <2>2, <3>1 DEF Walks
      <3> QED BY <3>2 DEF MoneyStep
    <2>3. CASE pc'[r] \in {"balanceRead", "done"}
      <3>1. Hand(r)' = Hand(r)
        BY <2>1, <2>3
      <3> HIDE DEF Hand, OthersKept
      <3>2. Walks(r)
        BY <2>1, <2>3, <3>1 DEF Walks
      <3> QED BY <3>2 DEF MoneyStep
    <2> QED BY <2>1, <2>2, <2>3
  <1>12. ASSUME NEW r \in Requests, FindUser(r) PROVE MoneyStep
    <2>1. Walks(r)
      BY <1>12, CallFacts DEF FindUser, Continue, Walks
    <2> QED BY <2>1 DEF MoneyStep
  <1>13. ASSUME NEW r \in Requests, SelectForBalance(r) PROVE MoneyStep
    <2>1. /\ pc[r] = "balanceRead" /\ UNCHANGED op /\ pc'[r] \in {"balanceWrite", "done"}
          /\ pc'[r] = "balanceWrite" => src'[r] = accounts[op[r].from]
          /\ op[r].from \in Accounts
          /\ UNCHANGED <<accounts, ledger, applied, overwritten>> /\ OthersKept(r)
      BY <1>13, CallFacts DEF SelectForBalance
    <2>2. CASE pc'[r] = "balanceWrite"
      <3>1. Hand(r)' = [Hand(r) EXCEPT ![op[r].from] = accounts[op[r].from].balance]
        BY <2>1, <2>2
      <3> HIDE DEF Hand, OthersKept
      <3>2. Walks(r)
        BY <2>1, <2>2, <3>1 DEF Walks
      <3> QED BY <3>2 DEF MoneyStep
    <2>3. CASE pc'[r] = "done"
      <3>1. Hand(r)' = Hand(r)
        BY <2>1, <2>3
      <3> HIDE DEF Hand, OthersKept
      <3>2. Walks(r)
        BY <2>1, <2>3, <3>1 DEF Walks
      <3> QED BY <3>2 DEF MoneyStep
    <2> QED BY <2>1, <2>2, <2>3
  <1>14. ASSUME NEW r \in Requests, CreateAuditLog(r) PROVE MoneyStep
    <2>1. Walks(r)
      BY <1>14, CallFacts DEF CreateAuditLog, Walks
    <2> QED BY <2>1 DEF MoneyStep
  <1>15. ASSUME NEW r \in Requests, StatementError(r) PROVE MoneyStep
    <2>1. Walks(r)
      BY <1>15, CallFacts DEF StatementError, Walks
    <2> QED BY <2>1 DEF MoneyStep
  <1>16. ASSUME NEW r \in Requests, AbortDeadlocked(r) PROVE MoneyStep
    <2>1. Walks(r)
      BY <1>16, CallFacts DEF AbortDeadlocked, Blocked, Walks
    <2> QED BY <2>1 DEF MoneyStep
  <1>17. ASSUME NEW r \in Requests, UpdateDestinationAndCommit(r) PROVE MoneyStep
    <2>1. CASE BalanceIsCorrect(CreditRow(r))
      <3>1. TransferBooked(r)
        BY <1>17, <2>1 DEF UpdateDestinationAndCommit, TransferBooked
      <3> QED BY <3>1 DEF MoneyStep
    <2>2. CASE ~BalanceIsCorrect(CreditRow(r))
      <3>1. Walks(r)
        BY <1>17, <2>2 DEF UpdateDestinationAndCommit, Walks
      <3> QED BY <3>1 DEF MoneyStep
    <2> QED BY <2>1, <2>2
  <1>18. ASSUME NEW r \in Requests, SaveBalance(r) PROVE MoneyStep
    <2>1. PostingSaved(r)
      BY <1>18 DEF SaveBalance, PostingSaved
    <2> QED BY <2>1 DEF MoneyStep
  <1>19. ASSUME NEW r \in Requests, RecordTransaction(r) PROVE MoneyStep
    <2>1. PostingBooked(r)
      BY <1>19 DEF RecordTransaction, PostingBooked
    <2> QED BY <2>1 DEF MoneyStep
  <1>20. ASSUME NEW r \in Requests, SaveStatus(r) PROVE MoneyStep
    <2>1. StatusSaved(r)
      BY <1>20 DEF SaveStatus, StatusSaved
    <2> QED BY <2>1 DEF MoneyStep
  <1> QED
    BY ONLY [Next]_vars, <1>1, <1>2, <1>3, <1>4, <1>5, <1>6, <1>7, <1>8, <1>9, <1>10, <1>11, <1>12, <1>13, <1>14, <1>15, <1>16, <1>17, <1>18, <1>19, <1>20
       DEF Next, TransferStep, AccountStep, Terminating, MoneyStep

-----------------------------------------------------------------------------
(* Statuses *)

\* Rows about to get a balance were active when they were read; a row about
\* to be saved with a status allowed that status when it was read.
CheckedOK(r) ==
  /\ pc[r] \in {"debitWrite", "creditRead", "creditWrite", "balanceWrite"} =>
       src[r].status = "active"
  /\ pc[r] = "creditWrite" => dst[r].status = "active"
  /\ pc[r] = "saveRow" => MayBecome(seen[r], op[r].status)

CheckedInv == \A r \in Requests : CheckedOK(r)

LEMMA CheckedStep == TypeInv /\ CheckedInv /\ [Next]_vars => CheckedInv'
  <1> SUFFICES ASSUME TypeInv, CheckedInv, [Next]_vars PROVE CheckedInv'
    OBVIOUS
  <1> USE DEF CheckedInv, CheckedOK, TypeInv, TypeOK, LocalsOK, Goto, Answer,
     Return, AckLost, OnError,
     tables, locals, history, Statements, TransferTx
  <1>1. ASSUME NEW r \in Requests, Start(r) PROVE CheckedInv'
    BY <1>1 DEF Start
  <1>2. ASSUME NEW r \in Requests, CheckExistingTransfer(r) PROVE CheckedInv'
    BY <1>2 DEF CheckExistingTransfer
  <1>3. ASSUME NEW r \in Requests, RetrieveFromAccount(r) PROVE CheckedInv'
    BY <1>3 DEF RetrieveFromAccount
  <1>4. ASSUME NEW r \in Requests, RetrieveToAccount(r) PROVE CheckedInv'
    BY <1>4 DEF RetrieveToAccount
  <1>5. ASSUME NEW r \in Requests, CreateTransfer(r) PROVE CheckedInv'
    BY <1>5 DEF CreateTransfer
  <1>6. ASSUME NEW r \in Requests, SelectSource(r) PROVE CheckedInv'
    BY <1>6 DEF SelectSource, Covers
  <1>7. ASSUME NEW r \in Requests, UpdateSource(r) PROVE CheckedInv'
    BY <1>7 DEF UpdateSource
  <1>8. ASSUME NEW r \in Requests, SelectDestination(r) PROVE CheckedInv'
    BY <1>8 DEF SelectDestination
  <1>9. ASSUME NEW r \in Requests, UpdateDestinationAndCommit(r) PROVE CheckedInv'
    BY <1>9 DEF UpdateDestinationAndCommit
  <1>10. ASSUME NEW r \in Requests, CompleteTransfer(r) PROVE CheckedInv'
    BY <1>10 DEF CompleteTransfer
  <1>11. ASSUME NEW r \in Requests, FailTransfer(r) PROVE CheckedInv'
    BY <1>11 DEF FailTransfer
  <1>12. ASSUME NEW r \in Requests, GetAccount(r) PROVE CheckedInv'
    BY <1>12 DEF GetAccount, Continue
  <1>22. ASSUME NEW r \in Requests, FindUser(r) PROVE CheckedInv'
    BY <1>22 DEF FindUser, Continue
  <1>13. ASSUME NEW r \in Requests, SelectForBalance(r) PROVE CheckedInv'
    BY <1>13 DEF SelectForBalance, Covers
  <1>14. ASSUME NEW r \in Requests, SaveBalance(r) PROVE CheckedInv'
    BY <1>14 DEF SaveBalance
  <1>15. ASSUME NEW r \in Requests, RecordTransaction(r) PROVE CheckedInv'
    BY <1>15 DEF RecordTransaction
  <1>16. ASSUME NEW r \in Requests, SaveStatus(r) PROVE CheckedInv'
    BY <1>16 DEF SaveStatus
  <1>17. ASSUME NEW r \in Requests, CreateAuditLog(r) PROVE CheckedInv'
    BY <1>17 DEF CreateAuditLog
  <1>18. ASSUME NEW r \in Requests, StatementError(r) PROVE CheckedInv'
    BY <1>18 DEF StatementError
  <1>19. ASSUME NEW r \in Requests, AbortDeadlocked(r) PROVE CheckedInv'
    BY <1>19 DEF AbortDeadlocked, Blocked
  <1>20. CASE Crash
    BY <1>20 DEF Crash
  <1>21. CASE UNCHANGED vars
    BY <1>21 DEF vars
  <1> QED
    BY ONLY [Next]_vars, <1>1, <1>2, <1>3, <1>4, <1>5, <1>6, <1>7, <1>8, <1>9,
       <1>10, <1>11, <1>12, <1>13, <1>14, <1>15, <1>16, <1>17, <1>18, <1>19, <1>20,
       <1>21, <1>22
       DEF Next, TransferStep, AccountStep, Terminating

\* What a step does to the row of account a: nothing, a balance over a row
\* whose copy was active, or a status over a row whose copy allowed it.
BalanceOver(row, a) ==
  row.status = "active" /\ accounts'[a].status \in {"active", accounts[a].status}
StatusOver(row, r, a) ==
  /\ pc[r] = "saveRow" /\ pc'[r] # "saveRow" /\ op[r].from = a
  /\ accounts'[a].status = op[r].status /\ accounts'[a].balance = row.balance
  /\ MayBecome(row, op[r].status)
WrittenOver(r, a) ==
  /\ pc'[r] # pc[r] /\ a \in DOMAIN RowsInHand(r)
  /\ BalanceOver(RowsInHand(r)[a], a) \/ StatusOver(RowsInHand(r)[a], r, a)
  /\ RowsInHand(r)[a] # accounts[a] => a \in overwritten'
RowChange(a) ==
  accounts'[a] = accounts[a] \/ \E r \in Requests : WrittenOver(r, a)

LEMMA RowStep ==
  ASSUME TypeInv, CheckedInv, [Next]_vars, NEW a \in Accounts
  PROVE  RowChange(a)
  <1>t. /\ accounts \in [Accounts -> CheckedRow]
        /\ \A r \in Requests :
             src[r] \in CheckedRow /\ dst[r] \in CheckedRow /\ seen[r] \in CheckedRow
    BY DEF TypeInv, TypeOK, TablesOK, LocalsOK
  <1>1. ASSUME NEW r \in Requests, TransferBooked(r) PROVE RowChange(a)
    <2>1. RowsInHand(r) = TransferCopy(r) /\ pc'[r] # pc[r]
      BY <1>1 DEF TransferBooked, RowsInHand
    <2>2. /\ op[r].from \in Accounts /\ op[r].to \in Accounts
          /\ src[r].status = "active" /\ dst[r].status = "active"
      BY <1>1, CallFacts DEF TransferBooked, CheckedInv, CheckedOK, Statements, TransferTx
    <2>3. CASE a \in {op[r].from, op[r].to}
      <3>1. /\ a \in DOMAIN TransferCopy(r) /\ TransferCopy(r)[a].status = "active"
        BY <2>2, <2>3 DEF TransferCopy
      <3>2. accounts'[a].status = accounts[a].status
        BY <1>1, <1>t, <2>2 DEF TransferBooked, TransferBalances, CheckedRow
      <3>3. TransferCopy(r)[a] # accounts[a] => a \in overwritten'
        BY <1>1, <2>3 DEF TransferBooked, Overwrites, Stale
      <3> QED BY <2>1, <3>1, <3>2, <3>3 DEF RowChange, WrittenOver, BalanceOver
    <2>4. CASE a \notin {op[r].from, op[r].to}
      BY <1>1, <1>t, <2>2, <2>4 DEF TransferBooked, TransferBalances, RowChange
    <2> QED BY <2>3, <2>4
  <1>2. ASSUME NEW r \in Requests, PostingSaved(r) PROVE RowChange(a)
    <2>1. RowsInHand(r) = [b \in {op[r].from} |-> src[r]] /\ pc'[r] # pc[r]
      BY <1>2 DEF PostingSaved, RowsInHand
    <2>2. op[r].from \in Accounts /\ src[r].status = "active"
      BY <1>2, CallFacts DEF PostingSaved, CheckedInv, CheckedOK, Statements
    <2>3. CASE a = op[r].from
      <3>1. accounts'[a].status = "active"
        BY <1>2, <1>t, <2>2, <2>3 DEF PostingSaved, CheckedRow
      <3>2. src[r] # accounts[a] => a \in overwritten'
        BY <1>2, <2>3 DEF PostingSaved, Overwrites, Stale
      <3> QED BY <2>1, <2>2, <2>3, <3>1, <3>2 DEF RowChange, WrittenOver, BalanceOver
    <2>4. CASE a # op[r].from
      BY <1>2, <1>t, <2>4 DEF PostingSaved, RowChange
    <2> QED BY <2>3, <2>4
  <1>3. ASSUME NEW r \in Requests, StatusSaved(r) PROVE RowChange(a)
    <2>1. RowsInHand(r) = [b \in {op[r].from} |-> seen[r]]
      BY <1>3 DEF StatusSaved, RowsInHand
    <2>2. op[r].from \in Accounts /\ MayBecome(seen[r], op[r].status)
      BY <1>3, CallFacts DEF StatusSaved, CheckedInv, CheckedOK, Statements
    <2>3. CASE a = op[r].from
      <3>1. accounts'[a].status = op[r].status /\ accounts'[a].balance = seen[r].balance
        BY <1>3, <1>t, <2>2, <2>3 DEF StatusSaved, CheckedRow
      <3>2. seen[r] # accounts[a] => a \in overwritten'
        BY <1>3, <2>3 DEF StatusSaved, Overwrites, Stale
      <3>3. pc[r] = "saveRow" /\ pc'[r] # "saveRow"
        BY <1>3 DEF StatusSaved
      <3> QED BY <2>1, <2>2, <2>3, <3>1, <3>2, <3>3 DEF RowChange, WrittenOver, StatusOver
    <2>4. CASE a # op[r].from
      BY <1>3, <1>t, <2>4 DEF StatusSaved, RowChange
    <2> QED BY <2>3, <2>4
  <1>4. CASE accounts' = accounts
    BY <1>4 DEF RowChange
  <1> QED BY <1>1, <1>2, <1>3, <1>4, MoneySteps
          DEF MoneyStep, Walks, PostingBooked, Crash, tables, vars

\* Whatever races, a status changes only to what a status call asked for and
\* the row allowed, or because the row was written back from an old copy.
THEOREM StatusesChangeByCall == Spec => StatusOnlyByCall
  <1>1. Init => CheckedInv
    BY DEF Init, CheckedInv, CheckedOK
  <1>2. TypeInv /\ CheckedInv /\ [Next]_vars =>
          [\A a \in Accounts :
             accounts'[a].status # accounts[a].status =>
               \/ \E r \in Requests :
                    /\ pc[r] = "saveRow" /\ pc'[r] # "saveRow" /\ op[r].from = a
                    /\ accounts'[a].status = op[r].status
                    /\ MayBecome(accounts[a], op[r].status)
               \/ WritesStale(a)]_vars
    <2> SUFFICES ASSUME TypeInv, CheckedInv, [Next]_vars, NEW a \in Accounts,
                        accounts'[a].status # accounts[a].status, ~WritesStale(a)
                 PROVE  \E r \in Requests :
                          /\ pc[r] = "saveRow" /\ pc'[r] # "saveRow" /\ op[r].from = a
                          /\ accounts'[a].status = op[r].status
                          /\ MayBecome(accounts[a], op[r].status)
      OBVIOUS
    <2> QED BY RowStep DEF RowChange, WrittenOver, BalanceOver, StatusOver, WritesStale
  <1>3. TypeInv /\ CheckedInv /\ [Next]_vars => CheckedInv'
    BY CheckedStep
  <1> QED BY ServiceCorrect, <1>1, <1>2, <1>3, PTL DEF Spec, StatusOnlyByCall

\* No closed account holds money that no stale write has put there: a closure
\* saves the empty row it read, and money goes to rows that were active.
THEOREM ClosedAccountsAreEmpty == Spec => []ClosedIsEmpty
  <1>1. Init => CheckedInv /\ ClosedIsEmpty
    BY DEF Init, CheckedInv, CheckedOK, ClosedIsEmpty
  <1>2. TypeInv /\ CheckedInv /\ ClosedIsEmpty /\ [Next]_vars => ClosedIsEmpty'
    <2> SUFFICES ASSUME TypeInv, CheckedInv, ClosedIsEmpty, [Next]_vars,
                        NEW a \in Accounts, a \notin overwritten',
                        accounts'[a].status = "closed"
                 PROVE  accounts'[a].balance = 0
      BY DEF ClosedIsEmpty
    <2>1. a \notin overwritten
      BY MoneySteps DEF MoneyStep, Walks, TransferBooked, PostingSaved, PostingBooked,
         StatusSaved, Overwrites, Crash, history, vars
    <2>2. CASE accounts'[a] = accounts[a]
      BY <2>1, <2>2 DEF ClosedIsEmpty
    <2>3. CASE accounts'[a] # accounts[a]
      BY <2>3, RowStep
         DEF RowChange, WrittenOver, BalanceOver, StatusOver, MayBecome, Statuses
    <2> QED BY <2>2, <2>3
  <1>3. TypeInv /\ CheckedInv /\ [Next]_vars => CheckedInv'
    BY CheckedStep
  <1> QED BY ServiceCorrect, <1>1, <1>2, <1>3, PTL DEF Spec

-----------------------------------------------------------------------------
(* The refinement *)

Balances == [a \in Accounts |-> accounts[a].balance]
Effects == [r \in Requests |-> IF r \in applied THEN op[r] ELSE NoOperation]
Hands == [r \in Requests |-> Hand(r)]

\* What a call that moved money asked for does not change.
LEMMA AppliedKeepTheirCall ==
  ASSUME TypeInv, ServiceInv, [Next]_vars, NEW q \in applied
  PROVE  op'[q] = op[q]
  <1>1. q \in Requests /\ pc[q] # "idle"
    BY DEF ServiceInv, OwnerOK, TypeInv, TypeOK, TablesOK
  <1>2. StepKind
    BY StepKinds
  <1> QED BY <1>1, <1>2 DEF StepKind, Begins, Advances, Claims, Commits, Completes, Fails,
             Audits, Crash, locals, TypeInv, TypeOK, LocalsOK

\* Hand is what the refinement mapping gives MoneyMovement's variable read.
LEMMA HandsAreRead ==
  Hands = [r \in Requests |-> [a \in Accounts |->
             IF a \in DOMAIN RowsInHand(r) THEN RowsInHand(r)[a].balance ELSE Unread]]
  <1> SUFFICES ASSUME NEW r \in Requests
               PROVE  Hand(r) = [a \in Accounts |->
                        IF a \in DOMAIN RowsInHand(r) THEN RowsInHand(r)[a].balance
                        ELSE Unread]
    BY DEF Hands
  <1>1. CASE pc[r] \in {"findUser", "saveRow"}
    <2>1. RowsInHand(r) = [a \in {op[r].from} |-> seen[r]]
      BY <1>1 DEF RowsInHand
    <2> QED BY <1>1, <2>1 DEF Hand, HandOf
  <1>2. CASE pc[r] \in {"debitWrite", "creditRead", "balanceWrite"}
    <2>1. RowsInHand(r) = [a \in {op[r].from} |-> src[r]]
      BY <1>2 DEF RowsInHand
    <2> QED BY <1>2, <2>1 DEF Hand, HandOf
  <1>3. CASE pc[r] = "creditWrite"
    <2>1. RowsInHand(r) = [a \in {op[r].from, op[r].to} |->
                            IF a = op[r].from THEN src[r] ELSE dst[r]]
      BY <1>3 DEF RowsInHand, TransferCopy
    <2> QED BY <1>3, <2>1 DEF Hand, HandOf
  <1>4. CASE pc[r] \notin {"findUser", "saveRow", "debitWrite", "creditRead",
                          "balanceWrite", "creditWrite"}
    <2>1. RowsInHand(r) = [a \in {} |-> NoRow]
      BY <1>4 DEF RowsInHand
    <2> QED BY <1>4, <2>1 DEF Hand, HandOf
  <1> QED BY <1>1, <1>2, <1>3, <1>4

LEMMA RefinesInit == Init => Movement!Init
  <1> SUFFICES ASSUME Init PROVE Movement!Init
    OBVIOUS
  <1>1. Balances = OpeningBalance
    BY ConstantsAssumption DEF Init, Balances
  <1>2. Effects = [r \in Requests |-> NoOperation]
    BY DEF Init, Effects
  <1>3. Hands = [r \in Requests |-> Movement!Nothing]
    BY DEF Init, Hands, Hand, HandOf, Movement!Nothing
  <1> QED BY <1>1, <1>2, <1>3, HandsAreRead DEF Movement!Init, Balances, Effects

\* What the abstract specification does, on the mapped variables
AbstractRead(r, a) ==
  /\ Hands' = [Hands EXCEPT ![r][a] = Balances[a]]
  /\ UNCHANGED <<Balances, Effects>>
AbstractForget(R) ==
  /\ Hands' = [r \in Requests |-> IF r \in R THEN Movement!Nothing ELSE Hands[r]]
  /\ UNCHANGED <<Balances, Effects>>
AbstractWrite(r) ==
  LET o == op[r] IN
  /\ \A a \in Movement!Touched(o) :
       Hands[r][a] # Unread /\ Hands[r][a] + Movement!Delta(o, a) >= 0
  /\ Balances' = [a \in Accounts |->
                    IF a \in Movement!Touched(o) THEN Hands[r][a] + Movement!Delta(o, a)
                    ELSE Balances[a]]
  /\ Hands' = [Hands EXCEPT ![r] = Movement!Nothing]
AbstractStep ==
  \/ \E r \in Requests, a \in Accounts : AbstractRead(r, a)
  \/ \E R \in SUBSET Requests : AbstractForget(R)
  \/ \E r \in Requests :
       /\ op[r] \in Operations /\ r \notin applied /\ AbstractWrite(r)
       /\ \/ /\ op[r].kind # "status"
             /\ op[r].kind = "transfer" =>
                  \A q \in Requests : ~Movement!SpendsKey(Effects[q], op[r].key)
             /\ Effects' = [Effects EXCEPT ![r] = op[r]]
          \/ op[r].kind = "status" /\ UNCHANGED Effects
  \/ UNCHANGED <<Balances, Effects, Hands>>

LEMMA AbstractIsMovement ==
  AbstractStep => [Movement!Next]_<<
    [a \in Accounts |-> accounts[a].balance],
    [r \in Requests |-> IF r \in applied THEN op[r] ELSE NoOperation],
    [r \in Requests |-> [a \in Accounts |->
       IF a \in DOMAIN RowsInHand(r) THEN RowsInHand(r)[a].balance ELSE Unread]]>>
  <1>1. Hands = [r \in Requests |-> [a \in Accounts |->
          IF a \in DOMAIN RowsInHand(r) THEN RowsInHand(r)[a].balance ELSE Unread]]
    BY HandsAreRead
  <1>2. (Hands = [r \in Requests |-> [a \in Accounts |->
          IF a \in DOMAIN RowsInHand(r) THEN RowsInHand(r)[a].balance ELSE Unread]])'
    BY HandsAreRead, PTL
  <1> USE <1>1, <1>2
  <1>3. ASSUME NEW r \in Requests, NEW a \in Accounts, AbstractRead(r, a)
        PROVE  Movement!Read(r, a)
    BY <1>3 DEF AbstractRead, Movement!Read, Balances, Effects
  <1>4. ASSUME NEW R \in SUBSET Requests, AbstractForget(R)
        PROVE  Movement!Forget(R)
    BY <1>4 DEF AbstractForget, Movement!Forget, Balances, Effects
  <1>5. ASSUME NEW r \in Requests, NEW o \in Operations, o = op[r], AbstractWrite(r)
        PROVE  Movement!Write(r, Movement!Touched(o), o)
    BY <1>5 DEF AbstractWrite, Movement!Write, Balances
  <1>6. ASSUME NEW r \in Requests, NEW o \in Operations, o = op[r], r \notin applied,
               AbstractWrite(r), o.kind # "status",
               o.kind = "transfer" =>
                 \A q \in Requests : ~Movement!SpendsKey(Effects[q], o.key),
               Effects' = [Effects EXCEPT ![r] = o]
        PROVE  Movement!Next
    <2>1. Movement!Move(r, o)
      BY <1>5, <1>6 DEF Movement!Move, Effects
    <2> QED BY ONLY <1>6, <2>1 DEF Movement!Next
  <1>7. ASSUME NEW r \in Requests, NEW o \in Operations, o = op[r], r \notin applied,
               AbstractWrite(r), o.kind = "status", UNCHANGED Effects
        PROVE  Movement!Next
    <2>1. Movement!Restore(r, o)
      BY <1>5, <1>7 DEF Movement!Restore, Effects
    <2> QED BY ONLY <1>7, <2>1 DEF Movement!Next
  <1>8. AbstractStep => Movement!Next \/ UNCHANGED <<Balances, Effects, Hands>>
    <2> SUFFICES ASSUME AbstractStep
                 PROVE  Movement!Next \/ UNCHANGED <<Balances, Effects, Hands>>
      OBVIOUS
    <2>1. CASE \E r \in Requests, a \in Accounts : AbstractRead(r, a)
      BY ONLY <2>1, <1>3 DEF Movement!Next
    <2>2. CASE \E R \in SUBSET Requests : AbstractForget(R)
      BY ONLY <2>2, <1>4 DEF Movement!Next
    <2> QED BY ONLY AbstractStep, <2>1, <2>2, <1>6, <1>7 DEF AbstractStep
  <1> QED BY <1>8 DEF Balances, Effects

\* An account in hand is one of the call's, with its balance as it was read.
LEMMA RefinesStep ==
  ASSUME TypeInv, TypeInv', ServiceInv, [Next]_vars
  PROVE  AbstractStep
  <1>t. /\ accounts \in [Accounts -> CheckedRow]
        /\ pc \in [Requests -> Statements \union {"idle", "done"}]
        /\ applied \subseteq Requests
        /\ \A r \in Requests :
             src[r] \in CheckedRow /\ dst[r] \in CheckedRow /\ seen[r] \in CheckedRow
    BY DEF TypeInv, TypeOK, TablesOK, LocalsOK
  <1>e. \A r \in applied : op'[r] = op[r]
    BY AppliedKeepTheirCall
  <1>h. ASSUME NEW r \in Requests, OthersKept(r)
        PROVE  \A q \in Requests \ {r} : Hand(q)' = Hand(q)
    BY <1>h DEF OthersKept, Kept, Hand
  <1>1. ASSUME NEW r \in Requests, Walks(r) PROVE AbstractStep
    <2>1. UNCHANGED <<Balances, Effects>>
      BY <1>1, <1>e DEF Walks, Balances, Effects
    <2>2. \A q \in Requests \ {r} : Hand(q)' = Hand(q)
      BY <1>1, <1>h DEF Walks
    <2>3. CASE Hand(r)' = Hand(r)
      <3>1. Hands' = Hands
        BY <2>2, <2>3 DEF Hands
      <3> QED BY <2>1, <3>1 DEF AbstractStep
    <2>4. CASE Hand(r)' = Movement!Nothing
      <3>1. AbstractForget({r})
        BY <2>1, <2>2, <2>4 DEF Hands, AbstractForget
      <3> QED BY <3>1 DEF AbstractStep
    <2>5. ASSUME NEW a \in Accounts, Hand(r)' = [Hand(r) EXCEPT ![a] = accounts[a].balance]
          PROVE  AbstractStep
      <3>1. AbstractRead(r, a)
        BY <2>1, <2>2, <2>5 DEF Hands, AbstractRead, Balances
      <3> QED BY <3>1 DEF AbstractStep
    <2> QED BY <1>1, <2>3, <2>4, <2>5 DEF Walks
  <1>2. ASSUME NEW r \in Requests, TransferBooked(r) PROVE AbstractStep
    <2>1. /\ op[r] \in Operations /\ op[r].kind = "transfer"
          /\ op[r].from \in Accounts /\ op[r].to \in Accounts /\ op[r].from # op[r].to
          /\ op[r].amount \in Int
      BY <1>2, CallFacts DEF TransferBooked, TypeInv, CallInv, Valid, Statements, TransferTx
    <2>2. /\ pc[r] = "creditWrite" /\ r \notin applied /\ op' = op
          /\ applied' = applied \union {r}
      BY <1>2 DEF TransferBooked, ServiceInv, PhaseOK, Unmoved, TransferTx
    <2>3. /\ Hands[r][op[r].from] = src[r].balance
          /\ Hands[r][op[r].to] = dst[r].balance
      BY <2>1, <2>2 DEF Hands, Hand, HandOf
    <2>4. /\ Movement!Touched(op[r]) = {op[r].from, op[r].to}
          /\ Movement!Delta(op[r], op[r].from) = -op[r].amount
          /\ Movement!Delta(op[r], op[r].to) = op[r].amount
      BY <2>1 DEF Movement!Touched, Movement!Delta
    <2>5. /\ accounts'[op[r].from].balance = src[r].balance - op[r].amount
          /\ accounts'[op[r].to].balance = dst[r].balance + op[r].amount
          /\ \A a \in Accounts \ {op[r].from, op[r].to} : accounts'[a] = accounts[a]
      BY <1>2, <1>t, <2>1 DEF TransferBooked, TransferBalances, CheckedRow
    <2>6. /\ accounts'[op[r].from].balance >= 0 /\ accounts'[op[r].to].balance >= 0
          /\ src[r].balance \in Nat /\ dst[r].balance \in Nat
      BY <1>t, <2>1 DEF TypeInv, TypeOK, TablesOK, CheckedRow
    <2>7. Hands' = [Hands EXCEPT ![r] = Movement!Nothing]
      <3>1. Hand(r)' = Movement!Nothing
        BY <1>2 DEF TransferBooked, Hand, HandOf, Movement!Nothing
      <3> QED BY <1>2, <1>h, <3>1 DEF TransferBooked, Hands
    <2>8. Balances' = [a \in Accounts |->
                        IF a \in Movement!Touched(op[r])
                        THEN Hands[r][a] + Movement!Delta(op[r], a) ELSE Balances[a]]
      BY <2>1, <2>3, <2>4, <2>5, <2>6 DEF Balances
    <2>9. AbstractWrite(r)
      BY <2>1, <2>3, <2>4, <2>5, <2>6, <2>7, <2>8 DEF AbstractWrite, Unread
    <2>10. \A q \in Requests : ~Movement!SpendsKey(Effects[q], op[r].key)
      <3>1. transfers[op[r].key].by = r
        <4>1. transfers[op[r].key] = PendingOf(r)
          BY <2>2 DEF ServiceInv, OwnerOK, HoldsKey, TransferTx
        <4> QED BY <4>1 DEF PendingOf
      <3> QED BY <2>1, <2>2, <3>1
              DEF Movement!SpendsKey, ServiceInv, OwnerOK, Effects, NoOperation
    <2>11. Effects' = [Effects EXCEPT ![r] = op[r]]
      BY <2>2 DEF Effects
    <2> QED BY <2>1, <2>2, <2>9, <2>10, <2>11 DEF AbstractStep
  <1>3. ASSUME NEW r \in Requests, PostingSaved(r) PROVE AbstractStep
    <2>1. /\ op[r] \in Operations /\ op[r].kind \in {"credit", "debit"}
          /\ op[r].from \in Accounts /\ op[r].amount \in Int
      BY <1>3, CallFacts DEF PostingSaved, TypeInv, CallInv, Statements
    <2>2. /\ pc[r] = "balanceWrite" /\ r \notin applied /\ op' = op
          /\ applied' = applied \union {r}
      BY <1>3 DEF PostingSaved, ServiceInv, PhaseOK, Unmoved
    <2>3. Hands[r][op[r].from] = src[r].balance
      BY <2>1, <2>2 DEF Hands, Hand, HandOf
    <2>4. /\ Movement!Touched(op[r]) = {op[r].from}
          /\ Movement!Delta(op[r], op[r].from) = Signed(op[r].kind, op[r].amount)
      BY <2>1 DEF Movement!Touched, Movement!Delta, Signed
    <2>5. /\ accounts'[op[r].from].balance =
               src[r].balance + Signed(op[r].kind, op[r].amount)
          /\ \A a \in Accounts \ {op[r].from} : accounts'[a] = accounts[a]
      BY <1>3, <1>t, <2>1 DEF PostingSaved, CheckedRow
    <2>6. accounts'[op[r].from].balance >= 0 /\ src[r].balance \in Nat
      BY <1>t, <2>1 DEF TypeInv, TypeOK, TablesOK, CheckedRow
    <2>7. Hands' = [Hands EXCEPT ![r] = Movement!Nothing]
      <3>1. Hand(r)' = Movement!Nothing
        BY <1>3 DEF PostingSaved, Hand, HandOf, Movement!Nothing
      <3> QED BY <1>3, <1>h, <3>1 DEF PostingSaved, Hands
    <2>8. Balances' = [a \in Accounts |->
                        IF a \in Movement!Touched(op[r])
                        THEN Hands[r][a] + Movement!Delta(op[r], a) ELSE Balances[a]]
      BY <2>1, <2>3, <2>4, <2>5, <2>6 DEF Balances
    <2>9. AbstractWrite(r)
      BY <2>1, <2>3, <2>4, <2>5, <2>6, <2>7, <2>8 DEF AbstractWrite, Unread
    <2>10. Effects' = [Effects EXCEPT ![r] = op[r]]
      BY <2>2 DEF Effects
    <2> QED BY <2>1, <2>2, <2>9, <2>10 DEF AbstractStep
  <1>4. ASSUME NEW r \in Requests, StatusSaved(r) PROVE AbstractStep
    <2>1. op[r] \in Operations /\ op[r].kind = "status" /\ op[r].from \in Accounts
      BY <1>4, CallFacts DEF StatusSaved, TypeInv, CallInv, Statements
    <2>2. pc[r] = "saveRow" /\ r \notin applied /\ op' = op /\ applied' = applied
      BY <1>4 DEF StatusSaved, ServiceInv, PhaseOK, Unmoved
    <2>3. Hands[r][op[r].from] = seen[r].balance
      BY <2>1, <2>2 DEF Hands, Hand, HandOf
    <2>4. /\ Movement!Touched(op[r]) = {op[r].from}
          /\ Movement!Delta(op[r], op[r].from) = 0
      BY <2>1 DEF Movement!Touched, Movement!Delta
    <2>5. /\ accounts'[op[r].from].balance = seen[r].balance
          /\ \A a \in Accounts \ {op[r].from} : accounts'[a] = accounts[a]
      BY <1>4, <1>t, <2>1 DEF StatusSaved, CheckedRow
    <2>6. seen[r].balance \in Nat
      BY <1>t DEF CheckedRow
    <2>7. Hands' = [Hands EXCEPT ![r] = Movement!Nothing]
      <3>1. Hand(r)' = Movement!Nothing
        BY <1>4 DEF StatusSaved, Hand, HandOf, Movement!Nothing
      <3> QED BY <1>4, <1>h, <3>1 DEF StatusSaved, Hands
    <2>8. Balances' = [a \in Accounts |->
                        IF a \in Movement!Touched(op[r])
                        THEN Hands[r][a] + Movement!Delta(op[r], a) ELSE Balances[a]]
      BY <2>1, <2>3, <2>4, <2>5, <2>6 DEF Balances
    <2>9. AbstractWrite(r)
      BY <2>1, <2>3, <2>4, <2>5, <2>6, <2>7, <2>8 DEF AbstractWrite, Unread
    <2>10. UNCHANGED Effects
      BY <2>2 DEF Effects
    <2> QED BY <2>1, <2>2, <2>9, <2>10 DEF AbstractStep
  <1>5. ASSUME NEW r \in Requests, PostingBooked(r) PROVE AbstractStep
    <2>1. UNCHANGED <<Balances, Effects>>
      BY <1>5 DEF PostingBooked, Balances, Effects
    <2>2. Hand(r)' = Hand(r)
      BY <1>5 DEF PostingBooked, Hand, HandOf
    <2>3. Hands' = Hands
      BY <1>5, <1>h, <2>2 DEF PostingBooked, Hands
    <2> QED BY <2>1, <2>3 DEF AbstractStep
  <1>6. CASE Crash
    <2>1. UNCHANGED <<Balances, Effects>>
      BY <1>6 DEF Crash, Balances, Effects, tables, locals, history
    <2>2. AbstractForget(Requests)
      <3>1. ASSUME NEW r \in Requests PROVE Hand(r)' = Movement!Nothing
        BY <1>6, <1>t DEF Crash, Hand, HandOf, Movement!Nothing, Statements, TransferTx
      <3> QED BY <2>1, <3>1 DEF AbstractForget, Hands
    <2> QED BY <2>2 DEF AbstractStep
  <1>7. CASE UNCHANGED vars
    BY <1>7 DEF vars, AbstractStep, Balances, Effects, Hands, Hand
  <1> QED BY <1>1, <1>2, <1>3, <1>4, <1>5, <1>6, <1>7, MoneySteps DEF MoneyStep

\* The account service keeps the promise of MoneyMovement: each call takes
\* effect at one instant and at most once, on the balances it read itself,
\* both sides of a transfer together, a key once, and overdraws nothing.
THEOREM ImplementsMoneyMovement == Spec => MovesMoney
  <1>1. TypeInv /\ TypeInv' /\ ServiceInv /\ [Next]_vars
          => [Movement!Next]_<<[a \in Accounts |-> accounts[a].balance],
                 [r \in Requests |-> IF r \in applied THEN op[r] ELSE NoOperation],
                 [r \in Requests |-> [a \in Accounts |->
                    IF a \in DOMAIN RowsInHand(r) THEN RowsInHand(r)[a].balance
                    ELSE Unread]]>>
    BY RefinesStep, AbstractIsMovement
  <1> QED BY ServiceCorrect, RefinesInit, <1>1, PTL DEF Spec, MovesMoney, Movement!Spec

-----------------------------------------------------------------------------
(* The books: the ledger explains the balances *)

\* RowsTotal and CallsTotal are sums in the sense of FiniteSums.
LEMMA RowsTotalIs ==
  ASSUME NEW S, IsFiniteSet(S)
  PROVE  RowsTotal(S) = Total([row \in S |-> Signed(row.type, row.amount)])
  <1> DEFINE e == [row \in S |-> Signed(row.type, row.amount)]
             P(g) == g = [s \in SUBSET S |->
                            IF s = {} THEN 0
                            ELSE Signed((CHOOSE x \in s : TRUE).type, (CHOOSE x \in s : TRUE).amount)
                                 + g[s \ {CHOOSE x \in s : TRUE}]]
             iter == CHOOSE g : P(g)
  <1>1. RowsTotal(S) = iter[S]
    BY DEF RowsTotal, MapThenSumSet, MapThenFoldSet
  <1>2. ASSUME NEW g PROVE P(g) <=> IsSum(g, e, S)
    <2>1. ASSUME NEW s \in SUBSET S, s # {}
          PROVE  e[Pick(s)] = Signed((CHOOSE x \in s : TRUE).type, (CHOOSE x \in s : TRUE).amount)
      <3>1. Pick(s) \in S
        BY <2>1, PickIn
      <3> QED BY <3>1 DEF Pick
    <2> QED BY <2>1 DEF IsSum, Pick
  <1>3. P(iter)
    <2> HIDE DEF e, P
    <2>1. \E g : P(g)
      BY <1>2, SumExists
    <2> QED BY <2>1 DEF iter
  <1>4. IsSum(iter, e, S)
    BY <1>2, <1>3
  <1> HIDE DEF iter, P
  <1>5. Total(e) = iter[S]
    BY <1>4, TotalIs
  <1> QED BY <1>1, <1>5

\* So is the sum of what calls have committed and not recorded.
LEMMA CallsTotalIs ==
  ASSUME NEW o, NEW S, IsFiniteSet(S)
  PROVE  CallsTotal(o, S) = Total([r \in S |-> Signed(o[r].kind, o[r].amount)])
  <1> DEFINE e == [r \in S |-> Signed(o[r].kind, o[r].amount)]
             P(g) == g = [s \in SUBSET S |->
                            IF s = {} THEN 0
                            ELSE Signed(o[CHOOSE x \in s : TRUE].kind, o[CHOOSE x \in s : TRUE].amount)
                                 + g[s \ {CHOOSE x \in s : TRUE}]]
             iter == CHOOSE g : P(g)
  <1>1. CallsTotal(o, S) = iter[S]
    BY DEF CallsTotal, MapThenSumSet, MapThenFoldSet
  <1>2. ASSUME NEW g PROVE P(g) <=> IsSum(g, e, S)
    <2>1. ASSUME NEW s \in SUBSET S, s # {}
          PROVE  e[Pick(s)] = Signed(o[CHOOSE x \in s : TRUE].kind, o[CHOOSE x \in s : TRUE].amount)
      <3>1. Pick(s) \in S
        BY <2>1, PickIn
      <3> QED BY <3>1 DEF Pick
    <2> QED BY <2>1 DEF IsSum, Pick
  <1>3. P(iter)
    <2> HIDE DEF e, P
    <2>1. \E g : P(g)
      BY <1>2, SumExists
    <2> QED BY <2>1 DEF iter
  <1>4. IsSum(iter, e, S)
    BY <1>2, <1>3
  <1> HIDE DEF iter, P
  <1>5. Total(e) = iter[S]
    BY <1>4, TotalIs
  <1> QED BY <1>1, <1>5

\* The totals are integers, nothing for nothing, and grow by what is added.
LEMMA RowsTotalFacts ==
  ASSUME NEW S, IsFiniteSet(S), \A row \in S : Signed(row.type, row.amount) \in Int
  PROVE  /\ RowsTotal(S) \in Int
         /\ S = {} => RowsTotal(S) = 0
         /\ \A row : row \notin S /\ Signed(row.type, row.amount) \in Int =>
              RowsTotal(S \union {row}) = RowsTotal(S) + Signed(row.type, row.amount)
  <1> DEFINE e == [row \in S |-> Signed(row.type, row.amount)]
  <1>1. RowsTotal(S) = Total(e)
    BY RowsTotalIs
  <1>2. Total(e) \in Int
    BY TotalType
  <1>3. S = {} => Total(e) = 0
    BY TotalEmpty
  <1>4. ASSUME NEW x, x \notin S, Signed(x.type, x.amount) \in Int
        PROVE  RowsTotal(S \union {x}) = RowsTotal(S) + Signed(x.type, x.amount)
    <2> DEFINE f == [row \in S \union {x} |-> Signed(row.type, row.amount)]
    <2>1. RowsTotal(S \union {x}) = Total(f)
      BY FS_AddElement, RowsTotalIs
    <2>2. /\ DOMAIN e = S /\ DOMAIN f = S \union {x}
          /\ \A y \in S : f[y] = e[y]
          /\ \A y \in S : f[y] \in Int
          /\ f[x] \in Int /\ f[x] = Signed(x.type, x.amount)
      BY <1>4
    <2> HIDE DEF e, f
    <2>3. Total(f) = f[x] + Total(e)
      BY <1>4, <2>2, TotalAdded
    <2> QED BY <1>1, <1>2, <2>1, <2>2, <2>3
  <1> HIDE DEF e
  <1> QED BY <1>1, <1>2, <1>3, <1>4

\* The same of calls; it depends only on the calls it is about.
LEMMA CallsTotalFacts ==
  ASSUME NEW o, NEW S, IsFiniteSet(S), \A r \in S : Signed(o[r].kind, o[r].amount) \in Int
  PROVE  /\ CallsTotal(o, S) \in Int
         /\ S = {} => CallsTotal(o, S) = 0
         /\ \A r : r \notin S /\ Signed(o[r].kind, o[r].amount) \in Int =>
              CallsTotal(o, S \union {r}) = CallsTotal(o, S) + Signed(o[r].kind, o[r].amount)
         /\ \A p : (\A r \in S : p[r] = o[r]) => CallsTotal(p, S) = CallsTotal(o, S)
  <1> DEFINE e == [r \in S |-> Signed(o[r].kind, o[r].amount)]
  <1>1. CallsTotal(o, S) = Total(e)
    BY CallsTotalIs
  <1>2. Total(e) \in Int
    BY TotalType
  <1>3. S = {} => Total(e) = 0
    BY TotalEmpty
  <1>4. ASSUME NEW x, x \notin S, Signed(o[x].kind, o[x].amount) \in Int
        PROVE  CallsTotal(o, S \union {x}) = CallsTotal(o, S) + Signed(o[x].kind, o[x].amount)
    <2>0. PICK f : f = [r \in S \union {x} |-> Signed(o[r].kind, o[r].amount)]
      OBVIOUS
    <2>1. CallsTotal(o, S \union {x}) = Total(f)
      BY <2>0, FS_AddElement, CallsTotalIs
    <2>2. /\ DOMAIN e = S /\ DOMAIN f = S \union {x}
          /\ \A y \in S : f[y] = e[y]
          /\ \A y \in S : f[y] \in Int
          /\ f[x] \in Int /\ f[x] = Signed(o[x].kind, o[x].amount)
      BY <1>4, <2>0
    <2> HIDE DEF e
    <2>3. Total(f) = f[x] + Total(e)
      <3>1. x \notin S /\ IsFiniteSet(S)
        BY <1>4
      <3>2. f[x] \in Int
        BY ONLY <2>2
      <3> QED BY ONLY <2>2, <3>1, <3>2, TotalAdded
    <2> QED BY <1>1, <1>2, <2>1, <2>2, <2>3
  <1>5. ASSUME NEW p, \A r \in S : p[r] = o[r]
        PROVE  CallsTotal(p, S) = CallsTotal(o, S)
    <2>1. CallsTotal(p, S) = Total([r \in S |-> Signed(p[r].kind, p[r].amount)])
      BY CallsTotalIs
    <2>2. [r \in S |-> Signed(p[r].kind, p[r].amount)] = e
      BY <1>5
    <2> QED BY <1>1, <2>1, <2>2
  <1> HIDE DEF e
  <1> QED BY <1>1, <1>2, <1>3, <1>4, <1>5

Booked == {"complete", "fail", "audit", "done"}
Arrived == {r \in Requests : pc[r] # "idle"}

\* Ledger rows belong to calls that have moved money and add no row any more.
RowsInv ==
  /\ IsFiniteSet(ledger) /\ IsFiniteSet(Arrived)
  /\ \A row \in ledger : row.req \in applied /\ pc[row.req] \in Booked

\* A movement without a row is a posting about to add it or cut off before.
MissingInv ==
  \A r \in applied :
    ~Recorded(r) =>
      /\ op[r].kind \in {"credit", "debit"}
      /\ pc[r] = "record" \/ (pc[r] = "done" /\ reply[r] \in {"error", "crashed"})

BooksInv == RowsInv /\ MissingInv /\ BalancesExplained

\* No call comes back from where its rows are booked.
LEMMA BookedStays ==
  ASSUME TypeInv, ServiceInv, [Next]_vars
  PROVE  /\ \A r \in Requests : pc[r] \in Booked => pc'[r] \in Booked
         /\ \E r : Arrived' \subseteq Arrived \union {r}
  <1>1. StepKind
    BY StepKinds
  <1>2. pc \in [Requests -> Statements \union {"idle", "done"}]
    BY DEF TypeInv, TypeOK, LocalsOK
  <1>3. \A r \in Requests : pc[r] \in Booked => pc'[r] \in Booked
    <2>1. ASSUME NEW r \in Requests, NEW p \in Statements \union {"done"}, NEW a,
                 Advances(r, p, a)
          PROVE  pc[r] \in Booked => p \in Booked
      BY <2>1 DEF Advances, Booked, Statements, TransferTx, Unmoved, HoldsKey
    <2>2. ASSUME NEW r \in Requests, NEW p \in Statements \union {"done"}, NEW a,
                 Advances(r, p, a)
          PROVE  \A q \in Requests : pc[q] \in Booked => pc'[q] \in Booked
      BY <1>2, <2>1, <2>2 DEF Advances, Moves
    <2>3. ASSUME NEW r \in Requests,
                 Begins(r) \/ Claims(r) \/ Commits(r) \/ Completes(r) \/ Fails(r) \/ Audits(r)
          PROVE  \A q \in Requests : pc[q] \in Booked => pc'[q] \in Booked
      BY <1>2, <2>3
         DEF Begins, Claims, Commits, Completes, Fails, Audits, Moves, Booked
    <2>4. CASE Crash
      BY <2>4 DEF Crash, Booked
    <2> QED BY <1>1, <2>2, <2>3, <2>4 DEF StepKind
  <1>4. \E r : Arrived' \subseteq Arrived \union {r}
    <2>1. CASE \E r \in Requests : \E p : pc' = [pc EXCEPT ![r] = p]
      BY <2>1, <1>2 DEF Arrived
    <2>2. CASE Crash
      BY <2>2 DEF Crash, Arrived, Statements, TransferTx
    <2>3. CASE UNCHANGED pc
      BY <2>3 DEF Arrived
    <2>4. ASSUME NEW r \in Requests,
                 Begins(r) \/ Claims(r) \/ Commits(r) \/ Completes(r) \/ Fails(r) \/ Audits(r)
          PROVE  \E p : pc' = [pc EXCEPT ![r] = p]
      BY <2>4 DEF Begins, Claims, Commits, Completes, Fails, Audits, Moves
    <2>5. ASSUME NEW r \in Requests, NEW p, NEW a, Advances(r, p, a)
          PROVE  \E s : pc' = [pc EXCEPT ![r] = s]
      BY <2>5 DEF Advances, Moves
    <2>6. \/ \E r \in Requests : \E p : pc' = [pc EXCEPT ![r] = p]
          \/ Crash
          \/ UNCHANGED pc
      BY <1>1, <2>4, <2>5 DEF StepKind
    <2> QED BY <2>1, <2>2, <2>3, <2>6
  <1> QED BY <1>3, <1>4

\* The ledger stays finite and its rows name calls that have committed.
LEMMA RowsStep ==
  ASSUME TypeInv, ServiceInv, RowsInv, [Next]_vars
  PROVE  RowsInv'
  <1> USE DEF RowsInv
  <1>0. applied \subseteq applied' /\ applied \subseteq Requests
    BY MoneySteps DEF MoneyStep, Walks, TransferBooked, PostingSaved, PostingBooked,
       StatusSaved, Crash, history, vars, TypeInv, TypeOK, TablesOK
  <1>1. IsFiniteSet(Arrived')
    <2>1. PICK r : Arrived' \subseteq Arrived \union {r}
      BY BookedStays
    <2>2. IsFiniteSet(Arrived \union {r})
      BY FS_AddElement
    <2> QED BY <2>1, <2>2, FS_Subset
  <1>2. \A row \in ledger : row.req \in applied' /\ pc'[row.req] \in Booked
    BY <1>0, BookedStays
  <1>3. CASE UNCHANGED ledger
    BY <1>1, <1>2, <1>3
  <1>4. ASSUME NEW r \in Requests, TransferBooked(r) PROVE RowsInv'
    <2>1. IsFiniteSet((ledger \union {DebitRow(r)}) \union {CreditRow(r)})
      <3>1. IsFiniteSet(ledger \union {DebitRow(r)})
        BY FS_AddElement
      <3> QED BY <3>1, FS_AddElement
    <2>2. ledger' = (ledger \union {DebitRow(r)}) \union {CreditRow(r)}
      BY <1>4 DEF TransferBooked
    <2>3. /\ DebitRow(r).req = r /\ CreditRow(r).req = r
          /\ pc'[r] \in Booked /\ r \in applied'
      BY <1>4 DEF DebitRow, CreditRow, TransferRow, LedgerRow, TransferBooked, Booked
    <2> QED BY ONLY <1>1, <1>2, <2>1, <2>2, <2>3 DEF RowsInv
  <1>5. ASSUME NEW r \in Requests, PostingBooked(r) PROVE RowsInv'
    <2>1. IsFiniteSet(ledger \union {PostingRow(r)})
      BY FS_AddElement
    <2>2. /\ PostingRow(r).req = r /\ pc'[r] \in Booked /\ r \in applied'
          /\ ledger' = ledger \union {PostingRow(r)}
      BY <1>5 DEF PostingRow, LedgerRow, PostingBooked, Booked, ServiceInv, PhaseOK
    <2> QED BY ONLY <1>1, <1>2, <2>1, <2>2 DEF RowsInv
  <1> QED BY <1>3, <1>4, <1>5, MoneySteps
          DEF MoneyStep, Walks, PostingSaved, StatusSaved, Crash, tables, vars

\* What lacks its row is still on its way to it or was answered an error.
LEMMA MissingStep ==
  ASSUME TypeInv, ServiceInv, RowsInv, MissingInv, [Next]_vars
  PROVE  MissingInv'
  <1>t. /\ applied \subseteq Requests
        /\ \A r \in applied : op'[r] = op[r] /\ pc[r] # "idle"
    BY AppliedKeepTheirCall DEF TypeInv, TypeOK, TablesOK, ServiceInv, OwnerOK
  <1>1. ASSUME NEW r \in Requests, Walks(r) PROVE MissingInv'
    BY <1>1, <1>t DEF Walks, MissingInv, Recorded, OthersKept, Kept
  <1>2. ASSUME NEW r \in Requests, TransferBooked(r) PROVE MissingInv'
    <2>1. Recorded(r)'
      <3>1. DebitRow(r) \in ledger' /\ DebitRow(r).req = r
        BY <1>2 DEF TransferBooked, DebitRow, TransferRow, LedgerRow
      <3> QED BY <3>1 DEF Recorded
    <2> QED BY <1>2, <1>t, <2>1 DEF TransferBooked, MissingInv, Recorded, OthersKept, Kept
  <1>3. ASSUME NEW r \in Requests, PostingSaved(r) PROVE MissingInv'
    <2>1. op[r].kind \in {"credit", "debit"}
      BY <1>3 DEF PostingSaved, TypeInv, CallInv
    <2> QED BY <1>3, <1>t, <2>1 DEF PostingSaved, MissingInv, Recorded, OthersKept, Kept
  <1>4. ASSUME NEW r \in Requests, PostingBooked(r) PROVE MissingInv'
    <2>1. Recorded(r)'
      <3>1. PostingRow(r) \in ledger' /\ PostingRow(r).req = r
        BY <1>4 DEF PostingBooked, PostingRow, LedgerRow
      <3> QED BY <3>1 DEF Recorded
    <2> QED BY <1>4, <1>t, <2>1 DEF PostingBooked, MissingInv, Recorded, OthersKept, Kept
  <1>5. ASSUME NEW r \in Requests, StatusSaved(r) PROVE MissingInv'
    <2>1. r \notin applied
      BY <1>5 DEF StatusSaved, ServiceInv, PhaseOK, Unmoved
    <2> QED BY <1>5, <1>t, <2>1 DEF StatusSaved, MissingInv, Recorded, OthersKept, Kept
  <1>6. CASE Crash
    BY <1>6, <1>t DEF Crash, MissingInv, Recorded, tables, locals, history, Statements,
       TransferTx
  <1>7. CASE UNCHANGED vars
    BY <1>7 DEF vars, MissingInv, Recorded
  <1> QED BY <1>1, <1>2, <1>3, <1>4, <1>5, <1>6, <1>7, MoneySteps DEF MoneyStep

\* What is added up is finite and made of integers.
LEMMA SumsAreFinite ==
  ASSUME TypeInv, ServiceInv, RowsInv, NEW a \in Accounts
  PROVE  /\ IsFiniteSet({row \in ledger : row.account = a})
         /\ \A row \in ledger : Signed(row.type, row.amount) \in Int
         /\ IsFiniteSet(Unrecorded(a))
         /\ \A r \in Requests : pc[r] # "idle" => Signed(op[r].kind, op[r].amount) \in Int
  <1>1. IsFiniteSet({row \in ledger : row.account = a})
    BY FS_Subset DEF RowsInv
  <1>2. Unrecorded(a) \in SUBSET Arrived
    BY DEF Unrecorded, Arrived, ServiceInv, OwnerOK, TypeInv, TypeOK, TablesOK
  <1>3. IsFiniteSet(Unrecorded(a))
    BY <1>2, FS_Subset DEF RowsInv
  <1>4. \A row \in ledger : Signed(row.type, row.amount) \in Int
    BY DEF TypeInv, TypeOK, TablesOK, LedgerRecord, Signed
  <1>5. \A r \in Requests : pc[r] # "idle" => Signed(op[r].kind, op[r].amount) \in Int
    BY OperationFacts DEF Signed, TypeInv, CallInv
  <1> QED BY <1>1, <1>3, <1>4, <1>5

\* Every step keeps the balance of a explained, unless it overwrites a.
LEMMA BooksStep ==
  ASSUME TypeInv, ServiceInv, BooksInv, [Next]_vars
  PROVE  BalancesExplained'
  <1> DEFINE L(a) == {row \in ledger : row.account = a}
             W(a) == Unrecorded(a)
  <1> SUFFICES ASSUME NEW a \in Accounts, a \notin overwritten'
               PROVE  accounts'[a].balance =
                        OpeningBalance[a] + RowsTotal(L(a)') + CallsTotal(op', W(a)')
    BY DEF BalancesExplained
  <1>t. /\ accounts \in [Accounts -> CheckedRow] /\ applied \subseteq Requests
        /\ \A r \in Requests :
             src[r] \in CheckedRow /\ dst[r] \in CheckedRow /\ seen[r] \in CheckedRow
        /\ \A r \in applied : pc[r] # "idle" /\ op'[r] = op[r]
    BY AppliedKeepTheirCall DEF TypeInv, TypeOK, TablesOK, LocalsOK, ServiceInv, OwnerOK
  <1>0. a \notin overwritten
    BY MoneySteps DEF MoneyStep, Walks, TransferBooked, PostingSaved, PostingBooked,
       StatusSaved, Overwrites, Crash, history, vars
  <1>1. accounts[a].balance = OpeningBalance[a] + RowsTotal(L(a)) + CallsTotal(op, W(a))
    BY <1>0 DEF BooksInv, BalancesExplained
  <1>2. RowsInv
    BY DEF BooksInv
  <1>3. /\ IsFiniteSet(L(a)) /\ IsFiniteSet(W(a))
        /\ \A row \in L(a) : Signed(row.type, row.amount) \in Int
        /\ \A r \in W(a) : Signed(op[r].kind, op[r].amount) \in Int
        /\ \A r \in Requests : pc[r] # "idle" => Signed(op[r].kind, op[r].amount) \in Int
    BY <1>2, <1>t, SumsAreFinite DEF Unrecorded
  <1>4. /\ RowsTotal(L(a)) \in Int /\ CallsTotal(op, W(a)) \in Int /\ OpeningBalance[a] \in Int
        /\ accounts[a].balance \in Int
    BY <1>1, <1>3, RowsTotalFacts, CallsTotalFacts, ConstantsAssumption
  <1>5. ASSUME accounts'[a].balance = accounts[a].balance, UNCHANGED <<ledger, applied>>
        PROVE  accounts'[a].balance = OpeningBalance[a] + RowsTotal(L(a)') + CallsTotal(op', W(a)')
    <2>1. L(a)' = L(a)
      BY <1>5
    <2>2. W(a)' = W(a) /\ \A r \in W(a) : op'[r] = op[r]
      BY <1>5, <1>t DEF Unrecorded, Recorded
    <2>3. CallsTotal(op', W(a)) = CallsTotal(op, W(a))
      BY <1>3, <2>2, CallsTotalFacts
    <2> QED BY <1>1, <1>5, <2>1, <2>2, <2>3
  <1>6. ASSUME NEW r \in Requests, TransferBooked(r)
        PROVE  accounts'[a].balance = OpeningBalance[a] + RowsTotal(L(a)') + CallsTotal(op', W(a)')
    <2>2. /\ op[r].from \in Accounts /\ op[r].to \in Accounts /\ op[r].from # op[r].to
          /\ op[r].amount \in Int /\ op[r].kind = "transfer"
      BY <1>6, CallFacts DEF TransferBooked, Valid, TypeInv, CallInv, Statements, TransferTx
    <2>3. /\ DebitRow(r).req = r /\ CreditRow(r).req = r
          /\ DebitRow(r).account = op[r].from /\ CreditRow(r).account = op[r].to
          /\ Signed(DebitRow(r).type, DebitRow(r).amount) = -op[r].amount
          /\ Signed(CreditRow(r).type, CreditRow(r).amount) = op[r].amount
      BY <2>2 DEF DebitRow, CreditRow, TransferRow, LedgerRow, Signed
    <2>4. DebitRow(r) \notin L(a) /\ CreditRow(r) \notin L(a)
      BY <1>2, <1>6, <2>3 DEF RowsInv, TransferBooked, Booked
    <2>5. ledger' = ledger \union {DebitRow(r), CreditRow(r)} /\ op' = op
      BY <1>6 DEF TransferBooked
    <2>1. W(a)' = W(a)
      BY <1>6, <2>2, <2>3, <2>5 DEF TransferBooked, Unrecorded, Recorded
    <2>6. a \in {op[r].from, op[r].to} => TransferCopy(r)[a] = accounts[a]
      BY <1>6 DEF TransferBooked, Overwrites, Stale
    <2>7. CASE a = op[r].from
      <3>1. L(a)' = L(a) \union {DebitRow(r)}
        BY <2>2, <2>3, <2>5, <2>7
      <3>2. RowsTotal(L(a)') = RowsTotal(L(a)) - op[r].amount
        BY <1>3, <1>4, <2>2, <2>3, <2>4, <3>1, RowsTotalFacts
      <3>3. accounts'[a].balance = accounts[a].balance - op[r].amount
        BY <1>6, <1>t, <2>2, <2>6, <2>7
           DEF TransferBooked, TransferBalances, TransferCopy, CheckedRow
      <3> QED BY <1>1, <1>4, <2>1, <2>2, <2>5, <3>2, <3>3
    <2>8. CASE a = op[r].to
      <3>1. L(a)' = L(a) \union {CreditRow(r)}
        BY <2>2, <2>3, <2>5, <2>8
      <3>2. RowsTotal(L(a)') = RowsTotal(L(a)) + op[r].amount
        BY <1>3, <1>4, <2>2, <2>3, <2>4, <3>1, RowsTotalFacts
      <3>3. accounts'[a].balance = accounts[a].balance + op[r].amount
        BY <1>6, <1>t, <2>2, <2>6, <2>8
           DEF TransferBooked, TransferBalances, TransferCopy, CheckedRow
      <3> QED BY <1>1, <1>4, <2>1, <2>2, <2>5, <3>2, <3>3
    <2>9. CASE a # op[r].from /\ a # op[r].to
      <3>1. L(a)' = L(a)
        BY <2>3, <2>5, <2>9
      <3>2. accounts'[a] = accounts[a]
        BY <1>6, <1>t, <2>2, <2>9 DEF TransferBooked, TransferBalances
      <3> HIDE DEF L, W
      <3> QED BY ONLY <1>1, <1>4, <2>1, <2>5, <3>1, <3>2
    <2> QED BY <2>7, <2>8, <2>9
  <1>7. ASSUME NEW r \in Requests, PostingSaved(r)
        PROVE  accounts'[a].balance = OpeningBalance[a] + RowsTotal(L(a)') + CallsTotal(op', W(a)')
    <2>1. op' = op /\ ledger' = ledger /\ pc[r] = "balanceWrite" /\ applied' = applied \union {r}
      BY <1>7 DEF PostingSaved
    <2>2. op[r].amount \in Int /\ op[r].kind \in {"credit", "debit"} /\ op[r].from \in Accounts
      BY <1>7, <2>1, CallFacts DEF PostingSaved, TypeInv, CallInv, Statements
    <2>3. ~Recorded(r) /\ r \notin applied
      BY <1>2, <2>1 DEF RowsInv, Recorded, Booked, ServiceInv, PhaseOK, Unmoved
    <2>4. CASE a = op[r].from
      <3>1. W(a)' = W(a) \union {r} /\ r \notin W(a)
        BY <2>1, <2>2, <2>3, <2>4 DEF Unrecorded, Recorded
      <3>2. CallsTotal(op, W(a) \union {r}) = CallsTotal(op, W(a)) + Signed(op[r].kind, op[r].amount)
        BY <1>3, <2>1, <3>1, CallsTotalFacts
      <3>3. src[r] = accounts[a]
        BY <1>7, <2>4 DEF PostingSaved, Overwrites, Stale
      <3>4. accounts'[a].balance = accounts[a].balance + Signed(op[r].kind, op[r].amount)
        BY <1>7, <1>t, <2>2, <2>4, <3>3 DEF PostingSaved, CheckedRow
      <3>5. Signed(op[r].kind, op[r].amount) \in Int
        BY <2>2 DEF Signed
      <3>6. L(a)' = L(a)
        BY <2>1
      <3> HIDE DEF L, W
      <3> QED BY ONLY <1>1, <1>4, <2>1, <3>1, <3>2, <3>4, <3>5, <3>6
    <2>5. CASE a # op[r].from
      <3>1. W(a)' = W(a) /\ L(a)' = L(a)
        BY <2>1, <2>5 DEF Unrecorded, Recorded
      <3>2. accounts'[a] = accounts[a]
        BY <1>7, <1>t, <2>5 DEF PostingSaved
      <3> HIDE DEF L, W
      <3> QED BY ONLY <1>1, <1>4, <2>1, <3>1, <3>2
    <2> QED BY <2>4, <2>5
  <1>8. ASSUME NEW r \in Requests, PostingBooked(r)
        PROVE  accounts'[a].balance = OpeningBalance[a] + RowsTotal(L(a)') + CallsTotal(op', W(a)')
    <2>1. /\ UNCHANGED <<op, accounts, applied>> /\ pc[r] = "record"
          /\ ledger' = ledger \union {PostingRow(r)}
      BY <1>8 DEF PostingBooked
    <2>2. op[r].amount \in Int /\ op[r].kind \in {"credit", "debit"}
      BY <1>8, <2>1, CallFacts DEF TypeInv, CallInv, Statements
    <2>3. /\ PostingRow(r).req = r /\ PostingRow(r).account = op[r].from
          /\ Signed(PostingRow(r).type, PostingRow(r).amount) = Signed(op[r].kind, op[r].amount)
          /\ Signed(op[r].kind, op[r].amount) \in Int
      BY <2>2 DEF PostingRow, LedgerRow, Signed
    <2>0. ~Recorded(r) /\ Recorded(r)' /\ r \in applied
      <3>1. PostingRow(r) \in ledger'
        BY <2>1
      <3> QED BY <1>2, <2>1, <2>3, <3>1
              DEF RowsInv, Recorded, Booked, ServiceInv, PhaseOK
    <2>9. \A q \in Requests \ {r} : Recorded(q)' = Recorded(q)
      BY <2>1, <2>3 DEF Recorded
    <2>4. CASE a = op[r].from
      <3>1. W(a) = W(a)' \union {r} /\ r \notin W(a)' /\ W(a)' \subseteq W(a)
        BY <1>t, <2>0, <2>1, <2>2, <2>4, <2>9 DEF Unrecorded
      <3>2. PostingRow(r) \notin L(a) /\ L(a)' = L(a) \union {PostingRow(r)}
        BY <1>2, <2>1, <2>3, <2>4 DEF RowsInv, Booked
      <3>3. RowsTotal(L(a)') = RowsTotal(L(a)) + Signed(op[r].kind, op[r].amount)
        BY <1>3, <2>3, <3>2, RowsTotalFacts
      <3>4. /\ CallsTotal(op, W(a)) = CallsTotal(op, W(a)') + Signed(op[r].kind, op[r].amount)
            /\ CallsTotal(op, W(a)') \in Int
        <4>1. IsFiniteSet(W(a)')
          BY <1>3, <3>1, FS_Subset
        <4>2. \A q \in W(a)' : Signed(op[q].kind, op[q].amount) \in Int
          BY <1>3, <3>1
        <4> HIDE DEF W
        <4> QED BY <2>3, <3>1, <4>1, <4>2, CallsTotalFacts
      <3> HIDE DEF L, W
      <3> QED BY ONLY <1>1, <1>4, <2>1, <2>3, <3>3, <3>4
    <2>5. CASE a # op[r].from
      <3>1. W(a)' = W(a) /\ L(a)' = L(a)
        BY <1>t, <2>1, <2>3, <2>5, <2>9 DEF Unrecorded
      <3> HIDE DEF L, W
      <3> QED BY ONLY <1>1, <2>1, <3>1
    <2> QED BY <2>4, <2>5
  <1>9. ASSUME NEW r \in Requests, StatusSaved(r)
        PROVE  accounts'[a].balance = accounts[a].balance /\ UNCHANGED <<ledger, applied>>
    <2>1. CASE a = op[r].from
      <3>1. seen[r] = accounts[a]
        BY <1>9, <2>1 DEF StatusSaved, Overwrites, Stale
      <3> QED BY <1>9, <1>t, <2>1, <3>1 DEF StatusSaved, CheckedRow
    <2>2. CASE a # op[r].from
      BY <1>9, <1>t, <2>2 DEF StatusSaved
    <2> QED BY <2>1, <2>2
  <1> HIDE DEF L, W
  <1>10. CASE UNCHANGED <<accounts, ledger, applied>>
    BY <1>5, <1>10
  <1> QED BY <1>5, <1>6, <1>7, <1>8, <1>9, <1>10, MoneySteps
          DEF MoneyStep, Walks, Crash, tables, history, vars

\* No rows, and the opening balances.
LEMMA BooksInit == Init => BooksInv
  <1> SUFFICES ASSUME Init PROVE BooksInv
    OBVIOUS
  <1>1. ledger = {} /\ Arrived = {} /\ \A a \in Accounts : Unrecorded(a) = {}
    BY DEF Init, Arrived, Unrecorded
  <1>2. RowsTotal({}) = 0 /\ CallsTotal(op, {}) = 0
    BY FS_EmptySet, RowsTotalFacts, CallsTotalFacts
  <1>3. \A a \in Accounts : accounts[a].balance = OpeningBalance[a] /\ OpeningBalance[a] \in Int
    BY ConstantsAssumption DEF Init
  <1>4. \A a \in Accounts : {row \in ledger : row.account = a} = {}
    BY <1>1
  <1>5. BalancesExplained
    BY <1>1, <1>2, <1>3, <1>4 DEF BalancesExplained
  <1>6. MissingInv
    BY DEF Init, MissingInv
  <1> QED BY <1>1, <1>5, <1>6, FS_EmptySet DEF BooksInv, RowsInv

\* The ledger explains every balance that no stale write has hit, for any
\* number of accounts, calls and amounts and under every fault; and what it
\* lacks is a posting at work, or one whose caller was told of an error.
THEOREM LedgerExplainsBalances == Spec => []BooksExplained
  <1>1. TypeInv /\ ServiceInv /\ BooksInv /\ [Next]_vars => BooksInv'
    BY RowsStep, MissingStep, BooksStep DEF BooksInv
  <1>2. BooksInv => BooksExplained
    BY DEF BooksInv, BooksExplained, MissingInv, MissingRowsAreKnown
  <1> QED BY ServiceCorrect, BooksInit, <1>1, <1>2, PTL DEF Spec

=============================================================================
