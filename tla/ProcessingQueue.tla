--------------------------- MODULE ProcessingQueue ---------------------------
(***************************************************************************)
(* services/transaction_processing_service.go over the tables              *)
(* transaction_processing_queue and transactions: a poller starts one      *)
(* goroutine per pending item it fetches, the goroutines share a semaphore *)
(* and a circuit breaker.  One action is one SQL statement or one call of  *)
(* the breaker, with the Go code up to the next one; UpdateBalance is one  *)
(* action (AccountService opens it up).                                    *)
(***************************************************************************)
EXTENDS CircuitBreaker, Integers, FiniteSets

CONSTANTS
  Items,            \* ids of queue items
  Work,             \* Work[i]: the transaction, operation and priority of i
  Txns,             \* ids of transactions
  TxnRow,           \* TxnRow[t]: the columns of t that never change
  FirstStatus,      \* FirstStatus[t]: the status t was created with
  Accounts,
  OpeningBalance,
  Goroutines,       \* bounds the goroutines alive at once
  MaxWorkers,       \* capacity of workerSemaphore
  MaxRetries,
  MaxFaults,        \* bounds the faults of a behaviour
  Faults,           \* which of "error" and "crash" may happen
  HookSeesValues    \* does BeforeUpdate see the values being saved?

Queueable == [txn : Txns, operation : {"process", "reverse", "validate"},
              priority : Nat]
Columns == [account : Accounts, type : {"credit", "debit"}, before : Int,
            after : Int, firstWithReference : Txns]
TxnStatuses == {"pending", "completed", "failed", "reversed"}

ASSUME QueueAssumption ==
  /\ Work \in [Items -> Queueable]
  /\ TxnRow \in [Txns -> Columns]
  /\ FirstStatus \in [Txns -> TxnStatuses]
  /\ OpeningBalance \in [Accounts -> Nat]
  /\ MaxWorkers \in Nat \ {0}
  /\ MaxRetries \in Nat
  /\ MaxFaults \in Nat
  /\ Faults \subseteq {"error", "crash"}
  /\ HookSeesValues \in BOOLEAN

VARIABLES
  queue,    \* queue[i]: status, retry_count, and whether scheduled_at is past
  txns,     \* txns[t]: status and version
  balance,  \* balance[a]
  service,  \* StartProcessing: running, stopping or stopped
  pc,       \* pc[g]: what goroutine g is about to do
  job,      \* job[g]: the item g fetched and its retry_count then
  copy,     \* copy[g]: the transaction g read
  stored,   \* stored[g]: the retry_count IncrementRetry read
  faults,   \* faults so far
  moves,    \* history: moves[t][o], how often operation o of t moved money
  unsaved,  \* history: how often it did and its new status was not saved
  attempts  \* history: how many attempts at an item failed, up to MaxRetries

tables == <<queue, txns, balance>>
locals == <<job, copy, stored>>
history == <<moves, unsaved, attempts>>
vars == <<breaker, queue, txns, balance, service, pc, job, copy, stored, faults,
          moves, unsaved, attempts>>

\* An operator that a comment calls a slip is a mistake the code does not
\* make: the specification does not use it, the properties must notice it.

Txn(g) == Work[job[g].item].txn
Op(g) == Work[job[g].item].operation
At(g, p) == pc' = [pc EXCEPT ![g] = p]

NoJob == [item |-> "none", tries |-> 0]
NoCopy == [status |-> "pending", version |-> 1]

\* A goroutine that ends takes its locals with it.
Goto(g, p) ==
  /\ At(g, p)
  /\ IF p = "idle"
     THEN /\ job' = [job EXCEPT ![g] = NoJob]
          /\ copy' = [copy EXCEPT ![g] = NoCopy]
          /\ stored' = [stored EXCEPT ![g] = 0]
     ELSE UNCHANGED locals
SetStatus(i, s) == queue' = [queue EXCEPT ![i].status = s]

Running == {g \in Goroutines : pc[g] \notin {"idle", "spawned"}}

-----------------------------------------------------------------------------
(* The queue *)

\* EnqueueTransaction: scheduled_at is the zero time
Enqueue(i) ==
  /\ queue[i].status = "absent"
  /\ queue' = [queue EXCEPT ![i] = [status |-> "pending", retries |-> 0,
                                    due |-> TRUE]]
  /\ UNCHANGED <<breaker, txns, balance, service, pc, locals, faults, history>>

\* The backoff of CalculateNextScheduledTime is over
BecomeDue(i) ==
  /\ queue[i].status = "pending" /\ ~queue[i].due
  /\ queue' = [queue EXCEPT ![i].due = TRUE]
  /\ UNCHANGED <<breaker, txns, balance, service, pc, locals, faults, history>>

CleanupCompleted(i) ==
  /\ queue[i].status = "completed"
  /\ SetStatus(i, "deleted")
  /\ UNCHANGED <<breaker, txns, balance, service, pc, locals, faults, history>>

Ready == {i \in Items : queue[i].status = "pending" /\ queue[i].due}

\* What FetchPending(maxWorkers * 2) may return
FetchPending ==
  {B \in SUBSET Ready :
     /\ B = Ready \/ Cardinality(B) = 2 * MaxWorkers
     /\ Cardinality(B) <= 2 * MaxWorkers
     /\ \A i \in B, j \in Ready \ B : Work[i].priority >= Work[j].priority}

\* The ticker fires: a goroutine for every item fetched.  Nothing marks the
\* items as taken.
Poll ==
  /\ service = "running"
  /\ \E B \in FetchPending \ {{}}, G \in SUBSET {g \in Goroutines : pc[g] = "idle"} :
       \E fetched \in [G -> B] :
         /\ Cardinality(G) = Cardinality(B) /\ B = {fetched[g] : g \in G}
         /\ pc' = [g \in Goroutines |-> IF g \in G THEN "spawned" ELSE pc[g]]
         /\ job' = [g \in Goroutines |->
                      IF g \in G THEN [item |-> fetched[g],
                                       tries |-> queue[fetched[g]].retries]
                      ELSE job[g]]
  /\ UNCHANGED <<breaker, tables, service, copy, stored, faults, history>>

\* Slip: nobody gets the semaphore after a cancellation.
FreeSlotUntilCancelled ==
  service = "running" /\ Cardinality(Running) < MaxWorkers

FreeSlot == Cardinality(Running) < MaxWorkers

\* processQueueItemAsync: s.workerSemaphore <- struct{}{}
Acquire(g) ==
  /\ pc[g] = "spawned"
  /\ FreeSlot
  /\ Goto(g, "admit")
  /\ UNCHANGED <<breaker, tables, service, faults, history>>

-----------------------------------------------------------------------------
(* ProcessQueueItem *)

\* Slip: the last attempt is not made.
UsedUpTooSoon(tries) == tries + 1 >= MaxRetries

UsedUp(tries) == tries >= MaxRetries

\* validateProcessingPreconditions
Validate(g) ==
  /\ pc[g] = "admit"
  /\ \/ Reject /\ Goto(g, "idle")
     \/ Admit /\ Goto(g, IF UsedUp(job[g].tries) THEN "giveUp" ELSE "fetch")
  /\ UNCHANGED <<tables, service, faults, history>>

\* fetchAndValidateTransaction: GetByID
FetchTransaction(g) ==
  /\ pc[g] = "fetch"
  /\ copy' = [copy EXCEPT ![g] = txns[Txn(g)]]
  /\ At(g, "reference")
  /\ UNCHANGED <<breaker, tables, service, job, stored, faults, history>>

MayPerform(operation, status) ==
  \/ operation = "process" /\ status = "pending"
  \/ operation = "reverse" /\ status = "completed"

\* checkDuplicateReference, then the guards of performOperation
CheckReference(g) ==
  /\ pc[g] = "reference"
  /\ Goto(g, IF TxnRow[Txn(g)].firstWithReference # Txn(g) THEN "reject"
             ELSE IF MayPerform(Op(g), copy[g].status) THEN "balance"
             ELSE "failure")
  /\ UNCHANGED <<breaker, tables, service, faults, history>>

\* updateAccountBalance and reverseAccountBalance: what they pass as the
\* amount to UpdateBalance
AmountPassed(t, operation) ==
  IF operation = "process" THEN TxnRow[t].after ELSE TxnRow[t].before

Change(t, operation) ==
  IF TxnRow[t].type = "debit" THEN - AmountPassed(t, operation)
  ELSE AmountPassed(t, operation)

\* Slip: a debit is not compared with the balance.
CoveredAlways(b, change) == TRUE

Covered(b, change) == b + change >= 0

Move(t, operation) ==
  LET a == TxnRow[t].account IN
  /\ Covered(balance[a], Change(t, operation))
  /\ balance' = [balance EXCEPT ![a] = @ + Change(t, operation)]
  /\ moves' = [moves EXCEPT ![t][operation] = @ + 1]

\* The account may be inactive: AccountService changes that at any time.
UpdateBalance(g) ==
  /\ pc[g] = "balance"
  /\ \/ Move(Txn(g), Op(g)) /\ Goto(g, "save")
     \/ Goto(g, "failure") /\ UNCHANGED <<balance, moves>>
  /\ UNCHANGED <<breaker, queue, txns, service, faults, unsaved, attempts>>

\* Slip: the version is not compared.
VersionMatchesAlways(t, expected) == TRUE

VersionMatches(t, expected) == txns[t].version = expected

\* Slip: the whole row is saved, past the hook and whatever its version.
SavesAnyway(t, expected) == TRUE

\* UpdateWithOptimisticLock affects a row
Saves(t, expected) == HookSeesValues /\ VersionMatches(t, expected)

SaveAs(t, status) ==
  txns' = [txns EXCEPT ![t] = [status |-> status, version |-> @.version + 1]]

NewStatus(operation) == IF operation = "process" THEN "completed" ELSE "reversed"

\* The money of g has moved and the row does not say so.
LeftUnsaved(g) == unsaved' = [unsaved EXCEPT ![Txn(g)][Op(g)] = @ + 1]

SaveTransaction(g) ==
  /\ pc[g] = "save"
  /\ IF Saves(Txn(g), copy[g].version)
     THEN SaveAs(Txn(g), NewStatus(Op(g))) /\ Goto(g, "markCompleted")
          /\ UNCHANGED unsaved
     ELSE Goto(g, "failure") /\ LeftUnsaved(g) /\ UNCHANGED txns
  /\ UNCHANGED <<breaker, queue, balance, service, faults, moves, attempts>>

\* completeProcessing
MarkCompleted(g) ==
  /\ pc[g] = "markCompleted"
  /\ IF queue[job[g].item].status = "deleted"
     THEN Goto(g, "idle") /\ UNCHANGED queue
     ELSE SetStatus(job[g].item, "completed") /\ Goto(g, "success")
  /\ UNCHANGED <<breaker, txns, balance, service, faults, history>>

Succeed(g) ==
  /\ pc[g] = "success"
  /\ RecordSuccess
  /\ Goto(g, "idle")
  /\ UNCHANGED <<tables, service, faults, history>>

\* attempts is not counted further: it would grow for ever.
CountAttempt(i) ==
  attempts' = [attempts EXCEPT ![i] = IF @ < MaxRetries THEN @ + 1 ELSE @]

\* RecordFailure, then handleProcessingError
Fail(g) ==
  /\ pc[g] = "failure"
  /\ RecordFailure
  /\ CountAttempt(job[g].item)
  /\ Goto(g, IF UsedUp(job[g].tries) THEN "giveUp" ELSE "retry")
  /\ UNCHANGED <<tables, service, faults, moves, unsaved>>

\* IncrementRetry: First
ReadRetry(g) ==
  /\ pc[g] = "retry"
  /\ IF queue[job[g].item].status = "deleted" THEN Goto(g, "idle")
     ELSE /\ At(g, "saveRetry")
          /\ stored' = [stored EXCEPT ![g] = queue[job[g].item].retries]
          /\ UNCHANGED <<job, copy>>
  /\ UNCHANGED <<breaker, tables, service, faults, history>>

\* Slip: the retry is not counted.
RetryUncounted(n) == [status |-> "pending", retries |-> n - 1, due |-> FALSE]

Retry(n) == [status |-> "pending", retries |-> n, due |-> FALSE]

\* IncrementRetry: Save writes the whole row, and inserts it if it is gone
SaveRetry(g) ==
  /\ pc[g] = "saveRetry"
  /\ queue' = [queue EXCEPT ![job[g].item] = Retry(stored[g] + 1)]
  /\ Goto(g, "idle")
  /\ UNCHANGED <<breaker, txns, balance, service, faults, history>>

\* handleMaxRetriesExceeded: GetByID
GiveUp(g) ==
  /\ pc[g] = "giveUp"
  /\ copy' = [copy EXCEPT ![g] = txns[Txn(g)]]
  /\ At(g, "giveUpSave")
  /\ UNCHANGED <<breaker, tables, service, job, stored, faults, history>>

\* The version handleMaxRetriesExceeded and handleDuplicateReference expect;
\* the result of the update is ignored.
Expected(g) == copy[g].version - (IF pc[g] = "giveUpSave" THEN 1 ELSE 0)

SaveFailed(g) ==
  /\ pc[g] \in {"giveUpSave", "reject"}
  /\ IF Saves(Txn(g), Expected(g)) THEN SaveAs(Txn(g), "failed")
     ELSE UNCHANGED txns
  /\ Goto(g, "markFailed")
  /\ UNCHANGED <<breaker, queue, balance, service, faults, history>>

MarkFailed(g) ==
  /\ pc[g] = "markFailed"
  /\ IF queue[job[g].item].status = "deleted" THEN UNCHANGED queue
     ELSE SetStatus(job[g].item, "failed")
  /\ Goto(g, "idle")
  /\ UNCHANGED <<breaker, txns, balance, service, faults, history>>

-----------------------------------------------------------------------------
(* Faults, time, shutdown *)

\* A statement fails without effect: where the error leads
AfterError ==
  [fetch |-> "failure", reference |-> "failure", balance |-> "failure",
   save |-> "failure", markCompleted |-> "idle", retry |-> "idle",
   saveRetry |-> "idle", giveUp |-> "markFailed", giveUpSave |-> "markFailed",
   reject |-> "markFailed", markFailed |-> "idle"]

StatementError(g) ==
  /\ "error" \in Faults /\ faults < MaxFaults
  /\ pc[g] \in DOMAIN AfterError
  /\ Goto(g, AfterError[pc[g]])
  /\ faults' = faults + 1
  /\ IF pc[g] = "save" THEN LeftUnsaved(g) ELSE UNCHANGED unsaved
  /\ UNCHANGED <<breaker, tables, service, moves, attempts>>

\* The workers that have moved the money and are about to save the status
Saving(t, operation) ==
  {g \in Goroutines : pc[g] = "save" /\ Txn(g) = t /\ Op(g) = operation}

\* The process dies and a new one starts: the breaker is new, the tables stay
Crash ==
  /\ "crash" \in Faults /\ faults < MaxFaults
  /\ pc' = [g \in Goroutines |-> "idle"]
  /\ job' = [g \in Goroutines |-> NoJob]
  /\ copy' = [g \in Goroutines |-> NoCopy]
  /\ stored' = [g \in Goroutines |-> 0]
  /\ state' = "closed" /\ failures' = 0 /\ halfOpenSuccesses' = 0
  /\ sinceFailure' = ResetTimeout + 1
  /\ service' = "running"
  /\ faults' = faults + 1
  /\ unsaved' = [t \in Txns |->
       [process |-> unsaved[t].process + Cardinality(Saving(t, "process")),
        reverse |-> unsaved[t].reverse + Cardinality(Saving(t, "reverse"))]]
  /\ UNCHANGED <<tables, moves, attempts>>

PassTime == Tick /\ UNCHANGED <<tables, service, pc, locals, faults, history>>

\* ctx.Done, and wg.Wait
Cancel ==
  /\ service = "running"
  /\ service' = "stopping"
  /\ UNCHANGED <<breaker, tables, pc, locals, faults, history>>

Stop ==
  /\ service = "stopping"
  /\ \A g \in Goroutines : pc[g] = "idle"
  /\ service' = "stopped"
  /\ UNCHANGED <<breaker, tables, pc, locals, faults, history>>

-----------------------------------------------------------------------------
(* The specification *)

Init ==
  /\ NewCircuitBreaker
  /\ queue = [i \in Items |-> [status |-> "absent", retries |-> 0, due |-> FALSE]]
  /\ txns = [t \in Txns |-> [status |-> FirstStatus[t], version |-> 1]]
  /\ balance = OpeningBalance
  /\ service = "running"
  /\ pc = [g \in Goroutines |-> "idle"]
  /\ job = [g \in Goroutines |-> NoJob]
  /\ copy = [g \in Goroutines |-> NoCopy]
  /\ stored = [g \in Goroutines |-> 0]
  /\ faults = 0
  /\ moves = [t \in Txns |-> [process |-> 0, reverse |-> 0]]
  /\ unsaved = [t \in Txns |-> [process |-> 0, reverse |-> 0]]
  /\ attempts = [i \in Items |-> 0]

Proceed(g) ==
  \/ Validate(g) \/ FetchTransaction(g) \/ CheckReference(g)
  \/ UpdateBalance(g) \/ SaveTransaction(g) \/ MarkCompleted(g)
  \/ Succeed(g) \/ Fail(g) \/ ReadRetry(g) \/ SaveRetry(g)
  \/ GiveUp(g) \/ SaveFailed(g) \/ MarkFailed(g)

Next ==
  \/ \E i \in Items : Enqueue(i) \/ BecomeDue(i) \/ CleanupCompleted(i)
  \/ Poll
  \/ \E g \in Goroutines : Acquire(g) \/ Proceed(g) \/ StatementError(g)
  \/ Crash \/ PassTime \/ Cancel \/ Stop

Spec == Init /\ [][Next]_vars

\* Time passes, the ticker fires, goroutines run, and those that wait for the
\* semaphore get it in turn (a channel serves its senders first come, first
\* served).  Poll is strongly fair because Goroutines bounds what is really
\* unbounded.
FairSpec ==
  /\ Spec
  /\ WF_vars(PassTime) /\ SF_vars(Poll) /\ WF_vars(Stop)
  /\ \A i \in Items : WF_vars(BecomeDue(i))
  /\ \A g \in Goroutines : SF_vars(Acquire(g)) /\ WF_vars(Proceed(g))
=============================================================================
