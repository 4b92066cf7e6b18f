------------------------ MODULE ProcessingQueueProofs ------------------------
(***************************************************************************)
(* Proofs about ProcessingQueue: any number of items, transactions and     *)
(* workers, any limits, whether or not an update passes its hook, whatever *)
(* statement fails and whenever the process dies.                          *)
(***************************************************************************)
EXTENDS ProcessingQueueProperties, FiniteSetTheorems, TLAPS

Duplicate(t) == TxnRow[t].firstWithReference # t

\* The effect of item i is there, and no duplicate of it will be rejected.
Done(i) ==
  /\ ~Duplicate(Work[i].txn)
  /\ txns[Work[i].txn].status \in
       IF Work[i].operation = "process" THEN {"completed", "reversed"}
       ELSE {"reversed"}

-----------------------------------------------------------------------------
(* The invariant *)

\* The counters stay below the limits at which they are cleared.
BreakerInv ==
  /\ BreakerTypeOK
  /\ state = "closed" => failures < MaxFailures
  /\ state = "halfOpen" => halfOpenSuccesses < HalfOpenMaxSucc

WorkersInv ==
  /\ pc \in [Goroutines -> Steps]
  /\ job \in [Goroutines -> [item : Items \union {"none"}, tries : Nat]]
  /\ copy \in [Goroutines -> TxnRecord]
  /\ stored \in [Goroutines -> Nat]
  /\ \A g \in Goroutines : pc[g] # "idle" => job[g].item \in Items

TablesInv ==
  /\ queue \in [Items -> ItemRow]
  /\ txns \in [Txns -> TxnRecord]
  /\ balance \in [Accounts -> Nat]
  /\ moves \in [Txns -> [process : Nat, reverse : Nat]]
  /\ unsaved \in [Txns -> [process : Nat, reverse : Nat]]
  /\ attempts \in [Items -> Nat]
  /\ service \in {"running", "stopping", "stopped"}
  /\ faults \in 0 .. MaxFaults

TypeInv == BreakerInv /\ WorkersInv /\ TablesInv /\ IsFiniteSet(Running)

\* The copy of a transaction that a worker still compares
Compares == {"reference", "balance", "save", "reject", "giveUpSave"}

\* A copy is as old as its version says; a worker moves money only for an
\* operation its copy allows and only under a reference that is its own.
Holds(g) ==
  /\ pc[g] \in Compares =>
       /\ copy[g].version <= txns[Txn(g)].version
       /\ copy[g].version = txns[Txn(g)].version =>
            copy[g].status = txns[Txn(g)].status
  /\ pc[g] \in {"balance", "save"} =>
       MayPerform(Op(g), copy[g].status) /\ ~Duplicate(Txn(g))
  /\ pc[g] = "reject" => Duplicate(Txn(g))
  /\ pc[g] = "markCompleted" => Done(job[g].item)

WorkInv ==
  /\ \A g \in Goroutines : Holds(g)
  /\ \A t \in Txns : Duplicate(t) => txns[t].status \in {FirstStatus[t], "failed"}
  /\ \A i \in Items : queue[i].status = "completed" => Done(i)

-----------------------------------------------------------------------------
(* The breaker *)

LEMMA BreakerInit == NewCircuitBreaker => BreakerInv
BY ConfigAssumption DEF NewCircuitBreaker, BreakerInv, BreakerTypeOK

LEMMA BreakerMethods ==
  ASSUME BreakerInv,
         \/ Admit \/ Reject \/ RecordSuccess \/ RecordFailure \/ Tick
         \/ UNCHANGED breaker
  PROVE  BreakerInv'
<1> USE ConfigAssumption DEF BreakerInv, BreakerTypeOK
<1>1. CASE Admit
  BY <1>1 DEF Admit, WantsProbe, breaker
<1>2. CASE Reject \/ UNCHANGED breaker
  BY <1>2 DEF Reject, breaker
<1>3. CASE RecordSuccess
  BY <1>3 DEF RecordSuccess, ProbeSucceeded, Close, CountAfterSuccess
<1>4. CASE RecordFailure
  BY <1>4 DEF RecordFailure, Open, CountOnReopening, TooMany, SinceThisFailure
<1>5. CASE Tick
  BY <1>5 DEF Tick, Cap
<1> QED  BY <1>1, <1>2, <1>3, <1>4, <1>5

-----------------------------------------------------------------------------
(* Workers *)

\* An active worker has an item, and the item its transaction.
LEMMA ActiveJob ==
  ASSUME WorkersInv, NEW g \in Goroutines, pc[g] # "idle"
  PROVE  /\ job[g].item \in Items /\ job[g].tries \in Nat
         /\ Work[job[g].item] \in Queueable
         /\ Txn(g) \in Txns
         /\ Op(g) \in {"process", "reverse", "validate"}
         /\ TxnRow[Txn(g)] \in Columns
         /\ TxnRow[Txn(g)].account \in Accounts
BY QueueAssumption DEF WorkersInv, Txn, Op, Queueable, Columns

StepNames == {"idle", "spawned", "admit", "success", "failure", "fetch", "reference",
              "balance", "save", "markCompleted", "retry", "saveRetry", "giveUp",
              "giveUpSave", "reject", "markFailed"}

LEMMA StepsAre == Steps = StepNames
BY DEF Steps, StepNames, AfterError

\* A worker moves on, or ends and forgets what it knew.
LEMMA GotoMoves ==
  ASSUME WorkersInv, NEW g \in Goroutines, NEW p \in Steps,
         pc[g] # "idle", Goto(g, p)
  PROVE  /\ WorkersInv'
         /\ pc'[g] = p
         /\ p # "idle" => UNCHANGED locals
         /\ \A h \in Goroutines \ {g} :
              /\ pc'[h] = pc[h] /\ job'[h] = job[h]
              /\ copy'[h] = copy[h] /\ stored'[h] = stored[h]
<1> USE DEF WorkersInv, Goto, At, locals
<1>1. CASE p # "idle"
  BY <1>1
<1>2. CASE p = "idle"
  <2>1. NoJob \in [item : Items \union {"none"}, tries : Nat] /\ NoCopy \in TxnRecord
    BY DEF NoJob, NoCopy, TxnRecord, TxnStatuses
  <2> QED  BY <1>2, <2>1
<1> QED  BY <1>1, <1>2

\* Where a step of a worker may lead.
LEMMA Ways ==
  ASSUME WorkersInv, NEW g \in Goroutines,
         \/ Acquire(g) \/ Validate(g) \/ CheckReference(g) \/ UpdateBalance(g)
         \/ SaveTransaction(g) \/ MarkCompleted(g) \/ Succeed(g) \/ Fail(g)
         \/ SaveRetry(g) \/ SaveFailed(g) \/ MarkFailed(g) \/ StatementError(g)
  PROVE  pc[g] # "idle" /\ \E p \in Steps : Goto(g, p)
<1> USE StepsAre DEF StepNames
<1>1. CASE StatementError(g)
  <2>1. pc[g] \in DOMAIN AfterError /\ Goto(g, AfterError[pc[g]])
    BY <1>1 DEF StatementError
  <2>2. pc[g] # "idle" /\ AfterError[pc[g]] \in {"failure", "idle", "markFailed"}
    BY <2>1 DEF AfterError
  <2> QED  BY <2>1, <2>2
<1>2. CASE ~StatementError(g)
  BY <1>2 DEF Acquire, Validate, CheckReference, UpdateBalance, SaveTransaction,
     MarkCompleted, Succeed, Fail, SaveRetry, SaveFailed, MarkFailed
<1> QED  BY <1>1, <1>2

\* The others read something into a local.
LEMMA ReadsKeepWorkers ==
  ASSUME WorkersInv, TablesInv, NEW g \in Goroutines,
         FetchTransaction(g) \/ GiveUp(g) \/ ReadRetry(g)
  PROVE  /\ WorkersInv'
         /\ \A h \in Goroutines \ {g} :
              /\ pc'[h] = pc[h] /\ job'[h] = job[h]
              /\ copy'[h] = copy[h] /\ stored'[h] = stored[h]
<1>0. pc[g] # "idle" /\ job[g].item \in Items /\ Txn(g) \in Txns
  <2>1. pc[g] # "idle"
    BY DEF FetchTransaction, GiveUp, ReadRetry
  <2> QED  BY <2>1, ActiveJob
<1>1. CASE FetchTransaction(g) \/ GiveUp(g)
  BY <1>0, <1>1, StepsAre DEF FetchTransaction, GiveUp, At, WorkersInv, TablesInv, StepNames
<1>2. CASE ReadRetry(g)
  <2>1. CASE queue[job[g].item].status = "deleted"
    BY <1>0, <1>2, <2>1, StepsAre, GotoMoves DEF ReadRetry, StepNames
  <2>2. CASE queue[job[g].item].status # "deleted"
    BY <1>0, <1>2, <2>2, StepsAre
       DEF ReadRetry, At, WorkersInv, TablesInv, ItemRow, StepNames
  <2> QED  BY <2>1, <2>2
<1> QED  BY <1>1, <1>2

LEMMA CrashKeepsWorkers == Crash => WorkersInv' /\ BreakerInv'
<1>1. NoJob \in [item : Items \union {"none"}, tries : Nat] /\ NoCopy \in TxnRecord
  BY DEF NoJob, NoCopy, TxnRecord, TxnStatuses
<1> QED  BY <1>1, StepsAre, ConfigAssumption
         DEF Crash, WorkersInv, BreakerInv, BreakerTypeOK, StepNames

\* Poll hands each item it fetches to one idle goroutine.
LEMMA PollDeals ==
  ASSUME WorkersInv, TablesInv, Poll
  PROVE  /\ WorkersInv' /\ UNCHANGED <<breaker, tables, service, copy, stored, faults, history>>
         /\ \A g \in Goroutines :
              \/ pc'[g] = pc[g] /\ job'[g] = job[g]
              \/ /\ pc[g] = "idle" /\ pc'[g] = "spawned"
                 /\ job'[g].item \in Ready /\ job'[g].item \in Items
                 /\ job'[g].tries = queue[job'[g].item].retries
<1>1. PICK B \in FetchPending \ {{}}, G \in SUBSET {g \in Goroutines : pc[g] = "idle"} :
       \E fetched \in [G -> B] :
         /\ Cardinality(G) = Cardinality(B) /\ B = {fetched[g] : g \in G}
         /\ pc' = [g \in Goroutines |-> IF g \in G THEN "spawned" ELSE pc[g]]
         /\ job' = [g \in Goroutines |->
                      IF g \in G THEN [item |-> fetched[g],
                                       tries |-> queue[fetched[g]].retries]
                      ELSE job[g]]
  BY Zenon DEF Poll
<1>2. B \subseteq Items /\ B \subseteq Ready
  BY DEF FetchPending, Ready
<1>3. PICK fetched \in [G -> B] :
         /\ pc' = [g \in Goroutines |-> IF g \in G THEN "spawned" ELSE pc[g]]
         /\ job' = [g \in Goroutines |->
                      IF g \in G THEN [item |-> fetched[g],
                                       tries |-> queue[fetched[g]].retries]
                      ELSE job[g]]
  BY <1>1
<1>4. \A g \in G : /\ fetched[g] \in Items /\ fetched[g] \in Ready
                  /\ queue[fetched[g]].retries \in Nat
  BY <1>2 DEF TablesInv, ItemRow
<1>5. UNCHANGED <<breaker, tables, service, copy, stored, faults, history>>
  BY DEF Poll
<1> QED  BY <1>3, <1>4, <1>5, StepsAre DEF WorkersInv, StepNames

-----------------------------------------------------------------------------
(* The tables *)

LEMMA RowOfItem ==
  ASSUME TablesInv, NEW i \in Items, NEW row \in ItemRow,
         queue' = [queue EXCEPT ![i] = row]
  PROVE  queue' \in [Items -> ItemRow]
BY DEF TablesInv

LEMMA StatusOfItem ==
  ASSUME TablesInv, NEW i \in Items,
         NEW s \in {"absent", "pending", "completed", "failed", "deleted"},
         SetStatus(i, s)
  PROVE  queue' \in [Items -> ItemRow]
BY DEF TablesInv, SetStatus, ItemRow

LEMMA TxnSaved ==
  ASSUME TablesInv, NEW t \in Txns, NEW s \in TxnStatuses, SaveAs(t, s)
  PROVE  txns' \in [Txns -> TxnRecord]
BY DEF TablesInv, SaveAs, TxnRecord

LEMMA MoneyMoved ==
  ASSUME TablesInv, NEW t \in Txns, TxnRow[t] \in Columns,
         NEW operation \in {"process", "reverse"}, Move(t, operation)
  PROVE  /\ balance' \in [Accounts -> Nat]
         /\ moves' \in [Txns -> [process : Nat, reverse : Nat]]
<1> DEFINE a == TxnRow[t].account
<1>1. a \in Accounts /\ Change(t, operation) \in Int
  BY DEF Columns, Change, AmountPassed
<1>2. balance[a] + Change(t, operation) \in Nat
  BY <1>1 DEF Move, Covered, TablesInv
<1>3. balance' \in [Accounts -> Nat]
  BY <1>1, <1>2 DEF Move, TablesInv
<1>4. moves' \in [Txns -> [process : Nat, reverse : Nat]]
  BY DEF Move, TablesInv
<1> QED  BY <1>3, <1>4

LEMMA SavingCounted ==
  ASSUME TablesInv, NEW g \in Goroutines, Txn(g) \in Txns, LeftUnsaved(g)
  PROVE  unsaved' \in [Txns -> [process : Nat, reverse : Nat]]
BY DEF TablesInv, LeftUnsaved

LEMMA WorkerKeepsTables ==
  ASSUME TypeInv, NEW g \in Goroutines, Acquire(g) \/ Proceed(g) \/ StatementError(g),
         \A h \in Goroutines : Holds(h)
  PROVE  TablesInv'
<1> USE DEF TypeInv
<1>0. /\ pc[g] # "idle" /\ job[g].item \in Items /\ Txn(g) \in Txns
      /\ TxnRow[Txn(g)] \in Columns /\ stored[g] \in Nat
  <2>1. pc[g] # "idle"
    BY DEF Acquire, Proceed, StatementError, AfterError, Validate, FetchTransaction,
       CheckReference, UpdateBalance, SaveTransaction, MarkCompleted, Succeed, Fail,
       ReadRetry, SaveRetry, GiveUp, SaveFailed, MarkFailed
  <2> QED  BY <2>1, ActiveJob DEF WorkersInv
<1>1. CASE UpdateBalance(g)
  <2>1. Op(g) \in {"process", "reverse"}
    BY <1>1 DEF UpdateBalance, Holds, MayPerform
  <2> QED  BY <1>0, <1>1, <2>1, MoneyMoved DEF UpdateBalance, TablesInv
<1>2. CASE SaveTransaction(g)
  <2>1. NewStatus(Op(g)) \in TxnStatuses
    BY DEF NewStatus, TxnStatuses
  <2>2. unsaved' \in [Txns -> [process : Nat, reverse : Nat]]
    BY <1>0, <1>2, SavingCounted DEF SaveTransaction, TablesInv
  <2> QED  BY <1>0, <1>2, <2>1, <2>2, TxnSaved DEF SaveTransaction, TablesInv
<1>3. CASE SaveFailed(g)
  <2>1. "failed" \in TxnStatuses
    BY DEF TxnStatuses
  <2> QED  BY <1>0, <1>3, <2>1, TxnSaved DEF SaveFailed, TablesInv, history
<1>4. CASE MarkCompleted(g)
  BY <1>0, <1>4, StatusOfItem DEF MarkCompleted, TablesInv, history
<1>5. CASE MarkFailed(g)
  BY <1>0, <1>5, StatusOfItem DEF MarkFailed, TablesInv, history
<1>6. CASE SaveRetry(g)
  <2>1. Retry(stored[g] + 1) \in ItemRow
    BY <1>0 DEF Retry, ItemRow
  <2> QED  BY <1>0, <1>6, <2>1, RowOfItem DEF SaveRetry, TablesInv, history
<1>7. CASE StatementError(g)
  <2>1. unsaved' \in [Txns -> [process : Nat, reverse : Nat]]
    BY <1>0, <1>7, SavingCounted DEF StatementError, TablesInv
  <2> QED  BY <1>7, <2>1, QueueAssumption DEF StatementError, TablesInv, tables
<1>8. CASE Fail(g)
  <2>1. attempts' \in [Items -> Nat]
    BY <1>0, <1>8 DEF Fail, CountAttempt, TablesInv
  <2> QED  BY <1>8, <2>1 DEF Fail, TablesInv, tables
<1>9. CASE ~ \/ UpdateBalance(g) \/ SaveTransaction(g) \/ SaveFailed(g)
             \/ MarkCompleted(g) \/ MarkFailed(g) \/ SaveRetry(g) \/ StatementError(g)
             \/ Fail(g)
  BY <1>9 DEF Acquire, Proceed, Validate, FetchTransaction, CheckReference, Succeed,
     ReadRetry, GiveUp, TablesInv, tables, history
<1> QED  BY <1>1, <1>2, <1>3, <1>4, <1>5, <1>6, <1>7, <1>8, <1>9

LEMMA WorkerKeepsTypes ==
  ASSUME TypeInv, NEW g \in Goroutines, Acquire(g) \/ Proceed(g) \/ StatementError(g)
  PROVE  /\ BreakerInv' /\ WorkersInv'
         /\ \A h \in Goroutines \ {g} :
              /\ pc'[h] = pc[h] /\ job'[h] = job[h]
              /\ copy'[h] = copy[h] /\ stored'[h] = stored[h]
<1>1. BreakerInv'
  BY BreakerMethods
     DEF TypeInv, Acquire, Proceed, StatementError, Validate, FetchTransaction,
     CheckReference, UpdateBalance, SaveTransaction, MarkCompleted, Succeed, Fail,
     ReadRetry, SaveRetry, GiveUp, SaveFailed, MarkFailed
<1>2. CASE FetchTransaction(g) \/ GiveUp(g) \/ ReadRetry(g)
  BY <1>1, <1>2, ReadsKeepWorkers DEF TypeInv
<1>3. CASE ~(FetchTransaction(g) \/ GiveUp(g) \/ ReadRetry(g))
  BY <1>1, <1>3, Ways, GotoMoves DEF TypeInv, Proceed
<1> QED  BY <1>2, <1>3

\* The steps in which no worker has a part
Aside == (\E i \in Items : Enqueue(i) \/ BecomeDue(i) \/ CleanupCompleted(i))
         \/ PassTime \/ Cancel \/ Stop \/ UNCHANGED vars

LEMMA AsideKeepTypes ==
  ASSUME TypeInv, Aside
  PROVE  TypeInv' /\ UNCHANGED <<txns, pc, job, copy>>
<1>1. UNCHANGED <<txns, pc, job, copy, stored, balance, faults, history>>
  BY DEF Aside, Enqueue, BecomeDue, CleanupCompleted, PassTime, Cancel, Stop, vars,
         tables, locals, history
<1>2. BreakerInv'
  BY BreakerMethods DEF TypeInv, Aside, Enqueue, BecomeDue, CleanupCompleted, PassTime,
         Cancel, Stop, vars, breaker
<1>3. queue' \in [Items -> ItemRow]
  <2>1. ASSUME NEW i \in Items, Enqueue(i) \/ BecomeDue(i)
        PROVE  queue' \in [Items -> ItemRow]
    <3>1. [status |-> "pending", retries |-> 0, due |-> TRUE] \in ItemRow
      BY DEF ItemRow
    <3>2. CASE Enqueue(i)
      BY <3>1, <3>2, RowOfItem DEF Enqueue, TypeInv
    <3>3. CASE BecomeDue(i)
      BY <3>3 DEF BecomeDue, TypeInv, TablesInv, ItemRow
    <3> QED  BY <2>1, <3>2, <3>3
  <2>2. ASSUME NEW i \in Items, CleanupCompleted(i) PROVE queue' \in [Items -> ItemRow]
    BY <2>2, StatusOfItem DEF CleanupCompleted, TypeInv
  <2>3. CASE UNCHANGED queue
    BY <2>3 DEF TypeInv, TablesInv
  <2> QED  BY <2>1, <2>2, <2>3 DEF Aside, PassTime, Cancel, Stop, vars, tables
<1>4. service' \in {"running", "stopping", "stopped"}
  BY DEF Aside, Enqueue, BecomeDue, CleanupCompleted, PassTime, Cancel, Stop, vars,
         TypeInv, TablesInv
<1> QED  BY <1>1, <1>2, <1>3, <1>4
         DEF TypeInv, WorkersInv, TablesInv, history, Running

LEMMA SavingFinite ==
  ASSUME TypeInv, NEW t \in Txns, NEW o \in {"process", "reverse"}
  PROVE  IsFiniteSet(Saving(t, o))
<1>1. Saving(t, o) \in SUBSET Running
  BY DEF Saving, Running
<1> QED  BY <1>1, FS_Subset DEF TypeInv

LEMMA TypeInvariant ==
  TypeInv /\ (\A g \in Goroutines : Holds(g)) /\ [Next]_vars => TypeInv'
<1> SUFFICES ASSUME TypeInv, \A g \in Goroutines : Holds(g), [Next]_vars PROVE TypeInv'
  OBVIOUS
<1>1. ASSUME NEW g \in Goroutines, Acquire(g) \/ Proceed(g) \/ StatementError(g)
      PROVE  TypeInv'
  <2>1. BreakerInv' /\ WorkersInv' /\ TablesInv'
    BY <1>1, WorkerKeepsTypes, WorkerKeepsTables
  <2>2. Running' \in SUBSET (Running \union {g})
    BY <1>1, WorkerKeepsTypes DEF Running
  <2>3. IsFiniteSet(Running)'
    BY <2>2, FS_AddElement, FS_Subset DEF TypeInv
  <2> QED  BY <2>1, <2>3 DEF TypeInv
<1>2. CASE Poll
  BY <1>2, PollDeals DEF Running, TypeInv, BreakerInv, BreakerTypeOK, TablesInv, breaker, tables,
     history
<1>3. CASE Crash
  <2>1. ASSUME NEW t \in Txns, NEW o \in {"process", "reverse"}
        PROVE  Cardinality(Saving(t, o)) \in Nat
    BY SavingFinite, FS_CardinalityType
  <2>2. unsaved' \in [Txns -> [process : Nat, reverse : Nat]]
    BY <1>3, <2>1 DEF Crash, TypeInv, TablesInv
  <2>3. Running' = {}
    BY <1>3 DEF Crash, Running
  <2> QED  BY <1>3, <2>2, <2>3, FS_EmptySet, CrashKeepsWorkers, QueueAssumption
           DEF Crash, TypeInv, TablesInv, tables
<1>4. CASE Aside
  BY <1>4, AsideKeepTypes
<1> QED  BY <1>1, <1>2, <1>3, <1>4 DEF Next, Aside

-----------------------------------------------------------------------------
(* Transactions: what the version stands in the way of *)

\* A transaction stays, or has a new version and the status the table allows;
\* only a duplicate is failed.
Evolves(t) ==
  \/ txns'[t] = txns[t]
  \/ /\ txns'[t].version = txns[t].version + 1
     /\ IF Duplicate(t) THEN txns'[t].status = "failed"
        ELSE <<txns[t].status, txns'[t].status>> \in
               {<<"pending", "completed">>, <<"completed", "reversed">>}

LEMMA WorkerEvolves ==
  ASSUME TypeInv, WorkInv, NEW g \in Goroutines,
         Acquire(g) \/ Proceed(g) \/ StatementError(g), NEW t \in Txns
  PROVE  /\ Evolves(t)
         /\ pc[g] = "save" /\ pc'[g] = "markCompleted" => Done(job[g].item)'
<1>0. /\ Holds(g) /\ txns \in [Txns -> TxnRecord] /\ copy[g].version \in Nat
      /\ DOMAIN pc = Goroutines
  BY DEF WorkInv, TypeInv, TablesInv, WorkersInv, TxnRecord
<1>1. CASE SaveTransaction(g) /\ Saves(Txn(g), copy[g].version)
  <2>1. Txn(g) \in Txns /\ pc[g] = "save"
    BY <1>1, ActiveJob DEF SaveTransaction, TypeInv
  <2>2. /\ copy[g].status = txns[Txn(g)].status
        /\ MayPerform(Op(g), txns[Txn(g)].status) /\ ~Duplicate(Txn(g))
    BY <1>0, <1>1, <2>1 DEF Holds, Compares, Saves, VersionMatches
  <2>3. SaveAs(Txn(g), NewStatus(Op(g)))
    BY <1>1 DEF SaveTransaction
  <2>4. Evolves(t)
    BY <1>0, <2>1, <2>2, <2>3 DEF SaveAs, NewStatus, MayPerform, Evolves
  <2>5. UNCHANGED job
    BY <1>1, <2>1 DEF SaveTransaction, Goto, locals
  <2>6. Done(job[g].item)'
    BY <1>0, <2>1, <2>2, <2>3, <2>5 DEF SaveAs, NewStatus, MayPerform, Done, Txn, Op
  <2> QED  BY <2>4, <2>6
<1>2. CASE SaveFailed(g) /\ Saves(Txn(g), Expected(g))
  <2>1. Txn(g) \in Txns /\ pc[g] \in {"giveUpSave", "reject"}
    BY <1>2, ActiveJob DEF SaveFailed, TypeInv
  <2>2. pc[g] = "reject" /\ Duplicate(Txn(g))
    BY <1>0, <1>2, <2>1 DEF Holds, Compares, Saves, VersionMatches, Expected, TxnRecord
  <2>3. SaveAs(Txn(g), "failed")
    BY <1>2 DEF SaveFailed
  <2> QED  BY <1>0, <2>1, <2>2, <2>3 DEF SaveAs, Evolves
<1>3. CASE /\ ~(SaveTransaction(g) /\ Saves(Txn(g), copy[g].version))
           /\ ~(SaveFailed(g) /\ Saves(Txn(g), Expected(g)))
  <2>1. UNCHANGED txns
    BY <1>3 DEF Acquire, Proceed, StatementError, Validate, FetchTransaction,
     CheckReference, UpdateBalance, SaveTransaction, MarkCompleted, Succeed, Fail,
     ReadRetry, SaveRetry, GiveUp, SaveFailed, MarkFailed, tables
  <2>2. ~(pc[g] = "save" /\ pc'[g] = "markCompleted")
    <3>1. CASE SaveTransaction(g)
      BY <1>0, <1>3, <3>1 DEF SaveTransaction, Goto, At
    <3>2. CASE StatementError(g)
      BY <1>0, <3>2 DEF StatementError, AfterError, Goto, At
    <3>3. CASE ~(SaveTransaction(g) \/ StatementError(g))
      BY <3>3 DEF Acquire, Proceed, Validate, FetchTransaction,
         CheckReference, UpdateBalance, MarkCompleted, Succeed, Fail,
         ReadRetry, SaveRetry, GiveUp, SaveFailed, MarkFailed
    <3> QED  BY <3>1, <3>2, <3>3
  <2> QED  BY <2>1, <2>2 DEF Evolves
<1> QED  BY <1>1, <1>2, <1>3

LEMMA EveryStepEvolves ==
  ASSUME TypeInv, WorkInv, [Next]_vars, NEW t \in Txns
  PROVE  Evolves(t)
<1>1. ASSUME NEW g \in Goroutines, Acquire(g) \/ Proceed(g) \/ StatementError(g)
      PROVE  Evolves(t)
  BY <1>1, WorkerEvolves
<1>2. CASE Poll \/ Crash
  BY <1>2 DEF Poll, Crash, tables, Evolves
<1>3. CASE Aside
  BY <1>3, AsideKeepTypes DEF Evolves
<1> QED  BY <1>1, <1>2, <1>3 DEF Next, Aside

\* What is done stays done, and a copy stays as old as its version says.
LEMMA EvolutionKeeps ==
  ASSUME TypeInv, WorkInv, TypeInv', \A t \in Txns : Evolves(t)
  PROVE  /\ \A t \in Txns :
              Duplicate(t) => txns'[t].status \in {FirstStatus[t], "failed"}
         /\ \A i \in Items : Done(i) => Done(i)'
         /\ \A g \in Goroutines :
              /\ pc[g] # "idle" /\ Holds(g)
              /\ pc'[g] = pc[g] /\ job'[g] = job[g] /\ copy'[g] = copy[g]
              => Holds(g)'
<1>1. ASSUME NEW t \in Txns, Duplicate(t)
      PROVE  txns'[t].status \in {FirstStatus[t], "failed"}
  BY <1>1 DEF Evolves, WorkInv
<1>2. ASSUME NEW i \in Items, Done(i) PROVE Done(i)'
  <2>1. Work[i].txn \in Txns
    BY QueueAssumption DEF Queueable
  <2> QED  BY <1>2, <2>1 DEF Done, Evolves, WorkInv
<1>3. ASSUME NEW g \in Goroutines, pc[g] # "idle", Holds(g),
             pc'[g] = pc[g], job'[g] = job[g], copy'[g] = copy[g]
      PROVE  Holds(g)'
  <2>1. Txn(g) \in Txns /\ job[g].item \in Items
    BY <1>3, ActiveJob DEF TypeInv
  <2>2. Txn(g)' = Txn(g) /\ Op(g)' = Op(g)
    BY <1>3 DEF Txn, Op
  <2>3. txns[Txn(g)].version \in Nat /\ copy[g].version \in Nat
    BY <2>1 DEF TypeInv, TablesInv, WorkersInv, TxnRecord
  <2>4. Done(job[g].item) => Done(job[g].item)'
    BY <1>2, <1>3, <2>1 DEF Done
  <2>5. Evolves(Txn(g))
    BY <2>1
  <2> QED  BY <1>3, <2>1, <2>2, <2>3, <2>4, <2>5 DEF Holds, Evolves
<1> QED  BY <1>1, <1>2, <1>3

-----------------------------------------------------------------------------
(* The worker that moves, and the items *)

LEMMA MoverHolds ==
  ASSUME TypeInv, WorkInv, TypeInv', NEW g \in Goroutines,
         Acquire(g) \/ Proceed(g) \/ StatementError(g)
  PROVE  Holds(g)'
<1>0. /\ Holds(g) /\ DOMAIN pc = Goroutines /\ DOMAIN copy = Goroutines
      /\ txns \in [Txns -> TxnRecord]
  BY DEF WorkInv, TypeInv, TablesInv, WorkersInv
<1>1. CASE FetchTransaction(g) \/ GiveUp(g)
  <2>1. /\ copy'[g] = txns[Txn(g)] /\ UNCHANGED <<job, txns>>
        /\ pc'[g] \in {"reference", "giveUpSave"} /\ pc[g] # "idle"
    BY <1>0, <1>1 DEF FetchTransaction, GiveUp, At, tables
  <2>2. Txn(g) \in Txns /\ Txn(g)' = Txn(g)
    BY <2>1, ActiveJob DEF TypeInv, Txn
  <2> QED  BY <1>0, <2>1, <2>2 DEF Holds, TxnRecord
<1>2. CASE CheckReference(g)
  <2>1. pc[g] = "reference" /\ UNCHANGED txns
    BY <1>2 DEF CheckReference, tables
  <2>2. CASE Duplicate(Txn(g))
    <3>1. pc'[g] = "reject" /\ UNCHANGED locals
      BY <1>0, <1>2, <2>2 DEF CheckReference, Duplicate, Goto, At
    <3> QED  BY <1>0, <2>1, <2>2, <3>1 DEF Holds, Compares, locals, Txn, Op, Duplicate
  <2>3. CASE ~Duplicate(Txn(g)) /\ MayPerform(Op(g), copy[g].status)
    <3>1. pc'[g] = "balance" /\ UNCHANGED locals
      BY <1>0, <1>2, <2>3 DEF CheckReference, Duplicate, Goto, At
    <3> QED  BY <1>0, <2>1, <2>3, <3>1
             DEF Holds, Compares, locals, Txn, Op, Duplicate, MayPerform
  <2>4. CASE ~Duplicate(Txn(g)) /\ ~MayPerform(Op(g), copy[g].status)
    <3>1. pc'[g] = "failure"
      BY <1>0, <1>2, <2>4 DEF CheckReference, Duplicate, Goto, At
    <3> QED  BY <3>1 DEF Holds, Compares
  <2> QED  BY <2>2, <2>3, <2>4
<1>3. CASE UpdateBalance(g)
  <2>1. pc[g] = "balance" /\ UNCHANGED txns
    BY <1>3 DEF UpdateBalance
  <2>2. CASE pc'[g] = "save"
    <3>1. UNCHANGED locals
      BY <1>0, <1>3, <2>2 DEF UpdateBalance, Goto, At
    <3> QED  BY <1>0, <2>1, <2>2, <3>1
             DEF Holds, Compares, locals, Txn, Op, Duplicate, MayPerform
  <2>3. CASE pc'[g] # "save"
    <3>1. pc'[g] = "failure"
      BY <1>0, <1>3, <2>3 DEF UpdateBalance, Goto, At
    <3> QED  BY <3>1 DEF Holds, Compares
  <2> QED  BY <2>2, <2>3
<1>4. CASE SaveTransaction(g)
  <2>1. pc[g] = "save" /\ pc'[g] \in {"markCompleted", "failure"}
    BY <1>0, <1>4 DEF SaveTransaction, Goto, At
  <2> QED  BY <2>1, WorkerEvolves, ActiveJob DEF Holds, Compares, Done, TypeInv
<1>5. CASE ReadRetry(g)
  <2>1. pc'[g] \in {"idle", "saveRetry"}
    BY <1>0, <1>5 DEF ReadRetry, Goto, At
  <2> QED  BY <2>1 DEF Holds, Compares
<1>6. CASE StatementError(g)
  <2>1. pc'[g] \in {"failure", "idle", "markFailed"}
    BY <1>0, <1>6 DEF StatementError, AfterError, Goto, At
  <2> QED  BY <2>1 DEF Holds, Compares
<1>7. CASE \/ Acquire(g) \/ Validate(g) \/ MarkCompleted(g) \/ Succeed(g) \/ Fail(g)
           \/ SaveRetry(g) \/ SaveFailed(g) \/ MarkFailed(g)
  <2>1. pc'[g] \in {"admit", "idle", "giveUp", "fetch", "success", "retry", "markFailed"}
    BY <1>0, <1>7 DEF Acquire, Validate, MarkCompleted, Succeed, Fail, SaveRetry,
       SaveFailed, MarkFailed, Goto, At
  <2> QED  BY <2>1 DEF Holds, Compares
<1> QED  BY <1>1, <1>2, <1>3, <1>4, <1>5, <1>6, <1>7 DEF Proceed

\* Only a worker whose item is done completes it.
LEMMA CompletedOnlyWhenDone ==
  ASSUME TypeInv, WorkInv, [Next]_vars, NEW i \in Items, queue'[i].status = "completed"
  PROVE  Done(i)
<1>0. /\ queue \in [Items -> ItemRow] /\ \A g \in Goroutines : Holds(g)
      /\ queue[i].status = "completed" => Done(i)
  BY DEF WorkInv, TypeInv, TablesInv
<1>1. ASSUME NEW g \in Goroutines, Acquire(g) \/ Proceed(g) \/ StatementError(g)
      PROVE  Done(i)
  <2>1. CASE MarkCompleted(g)
    BY <1>0, <2>1, ActiveJob DEF MarkCompleted, SetStatus, Holds, ItemRow, TypeInv
  <2>2. CASE SaveRetry(g)
    BY <1>0, <2>2 DEF SaveRetry, Retry
  <2>3. CASE MarkFailed(g)
    BY <1>0, <2>3 DEF MarkFailed, SetStatus, ItemRow
  <2>4. CASE ~(MarkCompleted(g) \/ SaveRetry(g) \/ MarkFailed(g))
    <3>1. UNCHANGED queue
      BY <1>1, <2>4 DEF Acquire, Proceed, StatementError, Validate, FetchTransaction,
         CheckReference, UpdateBalance, SaveTransaction, Succeed, Fail, ReadRetry,
         GiveUp, SaveFailed, tables
    <3> QED  BY <1>0, <3>1
  <2> QED  BY <2>1, <2>2, <2>3, <2>4
<1>2. ASSUME NEW j \in Items, Enqueue(j) PROVE Done(i)
  BY <1>0, <1>2 DEF Enqueue
<1>3. ASSUME NEW j \in Items, BecomeDue(j) \/ CleanupCompleted(j) PROVE Done(i)
  BY <1>0, <1>3 DEF BecomeDue, CleanupCompleted, SetStatus, ItemRow
<1>4. CASE UNCHANGED queue
  BY <1>0, <1>4
<1> QED  BY <1>1, <1>2, <1>3, <1>4 DEF Next, Poll, Crash, PassTime, Cancel, Stop, vars,
         tables

LEMMA WorkInvariant == TypeInv /\ WorkInv /\ [Next]_vars => WorkInv'
<1> SUFFICES ASSUME TypeInv, WorkInv, [Next]_vars PROVE WorkInv'
  OBVIOUS
<1>1. TypeInv'
  BY TypeInvariant DEF WorkInv
<1>2. \A t \in Txns : Evolves(t)
  BY EveryStepEvolves
<1>3. \A i \in Items : queue'[i].status = "completed" => Done(i)'
  BY <1>1, <1>2, CompletedOnlyWhenDone, EvolutionKeeps
<1>4. ASSUME NEW g \in Goroutines, pc[g] # "idle",
             pc'[g] = pc[g], job'[g] = job[g], copy'[g] = copy[g]
      PROVE  Holds(g)'
  BY <1>1, <1>2, <1>4, EvolutionKeeps DEF WorkInv
<1>5. ASSUME NEW g \in Goroutines, pc'[g] \in {"idle", "spawned"} PROVE Holds(g)'
  BY <1>5 DEF Holds, Compares
<1>6. ASSUME NEW g \in Goroutines PROVE Holds(g)'
  <2>1. ASSUME NEW h \in Goroutines, Acquire(h) \/ Proceed(h) \/ StatementError(h)
        PROVE  Holds(g)'
    <3>1. CASE g = h
      BY <1>1, <2>1, <3>1, MoverHolds
    <3>2. CASE g # h
      BY <1>4, <1>5, <2>1, <3>2, WorkerKeepsTypes
    <3> QED  BY <3>1, <3>2
  <2>2. CASE Poll
    BY <1>4, <1>5, <2>2, PollDeals DEF TypeInv
  <2>3. CASE Crash
    BY <1>5, <2>3 DEF Crash
  <2>4. CASE Aside
    BY <1>4, <1>5, <2>4, AsideKeepTypes
  <2> QED  BY <2>1, <2>2, <2>3, <2>4 DEF Next, Aside
<1> QED  BY <1>1, <1>2, <1>3, <1>6, EvolutionKeeps DEF WorkInv

LEMMA QueueInit == Init => TypeInv /\ WorkInv
<1> SUFFICES ASSUME Init PROVE TypeInv /\ WorkInv
  OBVIOUS
<1>1. BreakerInv
  BY BreakerInit DEF Init
<1>2. WorkersInv
  <2>1. /\ NoJob \in [item : Items \union {"none"}, tries : Nat]
        /\ NoCopy \in TxnRecord
    BY DEF NoJob, NoCopy, TxnRecord, TxnStatuses
  <2> QED  BY <2>1, StepsAre DEF Init, WorkersInv, StepNames
<1>3. TablesInv
  BY QueueAssumption DEF Init, TablesInv, ItemRow, TxnRecord
<1>4. WorkInv
  BY DEF Init, WorkInv, Holds, Compares
<1>5. Running = {}
  BY DEF Init, Running
<1> QED  BY <1>1, <1>2, <1>3, <1>4, <1>5, FS_EmptySet DEF TypeInv

-----------------------------------------------------------------------------
THEOREM QueueInvariant == Spec => [](TypeInv /\ WorkInv)
<1>1. Init => TypeInv /\ WorkInv
  BY QueueInit
<1>2. TypeInv /\ WorkInv /\ [Next]_vars => (TypeInv /\ WorkInv)'
  BY TypeInvariant, WorkInvariant DEF WorkInv
<1> QED  BY <1>1, <1>2, PTL DEF Spec

(* Types of tables, breaker and goroutines; no balance is negative.        *)
THEOREM QueueTypeCorrect == Spec => []TypeOK
<1>1. TypeInv => TypeOK
  BY DEF TypeInv, BreakerInv, WorkersInv, TablesInv, TypeOK
<1> QED  BY <1>1, QueueInvariant, PTL

(* A completed item has had its effect on its transaction, with any number *)
(* of workers on it, statements that fail and crashes between them.        *)
THEOREM CompletedItemsAreDone == Spec => []CompletedItemIsDone
<1>1. WorkInv => CompletedItemIsDone
  BY DEF WorkInv, CompletedItemIsDone, Done
<1> QED  BY <1>1, QueueInvariant, PTL

(* A transaction's status changes only as CanTransitionTo allows, however  *)
(* old the copies are that workers compare, but for a duplicate that       *)
(* handleDuplicateReference fails whatever it was.                         *)
THEOREM StatusFollowsTheTable == Spec => StatusFollowsTable
<1>1. TypeInv /\ WorkInv /\ [Next]_vars =>
        [\A t \in Txns :
           \/ txns'[t].status = txns[t].status
           \/ <<txns[t].status, txns'[t].status>> \in CanTransitionTo
           \/ TxnRow[t].firstWithReference # t /\ txns'[t].status = "failed"]_vars
  <2> SUFFICES ASSUME TypeInv, WorkInv, [Next]_vars, NEW t \in Txns
               PROVE  \/ txns'[t].status = txns[t].status
                      \/ <<txns[t].status, txns'[t].status>> \in CanTransitionTo
                      \/ TxnRow[t].firstWithReference # t /\ txns'[t].status = "failed"
    OBVIOUS
  <2>1. Evolves(t)
    BY EveryStepEvolves
  <2> QED  BY <2>1 DEF Evolves, Duplicate, CanTransitionTo
<1> QED  BY <1>1, QueueInvariant, PTL DEF Spec, StatusFollowsTable

-----------------------------------------------------------------------------
(* Counting goroutines *)

\* A worker's step, and that of a goroutine that becomes one.
WorkerStep(g) == Acquire(g) \/ Proceed(g) \/ StatementError(g)

\* Two sets that differ at most in g
LEMMA OneMember ==
  ASSUME NEW S, NEW T, NEW g, IsFiniteSet(S), S \ {g} = T \ {g}
  PROVE  /\ Cardinality(S) \in Nat /\ Cardinality(T) \in Nat
         /\ (g \in S <=> g \in T) => Cardinality(T) = Cardinality(S)
         /\ g \in S /\ g \notin T => Cardinality(S) = Cardinality(T) + 1
         /\ g \notin S /\ g \in T => Cardinality(T) = Cardinality(S) + 1
<1> DEFINE R == S \ {g}
<1>1. IsFiniteSet(R) /\ g \notin R
  BY FS_Subset
<1>2. /\ Cardinality(R) \in Nat
      /\ Cardinality(R \union {g}) = Cardinality(R) + 1
  BY <1>1, FS_AddElement, FS_CardinalityType
<1>3. /\ S = IF g \in S THEN R \union {g} ELSE R
      /\ T = IF g \in T THEN R \union {g} ELSE R
  OBVIOUS
<1> HIDE DEF R
<1>4. Cardinality(S) = IF g \in S THEN Cardinality(R) + 1 ELSE Cardinality(R)
  BY <1>2, <1>3
<1>5. Cardinality(T) = IF g \in T THEN Cardinality(R) + 1 ELSE Cardinality(R)
  BY <1>2, <1>3
<1> QED  BY <1>2, <1>4, <1>5

\* A step is a worker's or leaves all running workers as they are, unless the
\* process dies.
LEMMA QuietSteps ==
  ASSUME TypeInv, [Next]_vars, \A g \in Goroutines : ~WorkerStep(g), ~Crash
  PROVE  /\ UNCHANGED <<txns, copy, stored, moves, unsaved, attempts>>
         /\ \A g \in Goroutines :
              \/ pc'[g] = pc[g] /\ job'[g] = job[g]
              \/ /\ pc[g] = "idle" /\ pc'[g] = "spawned"
                 /\ job'[g].item \in Items
                 /\ job'[g].tries = queue[job'[g].item].retries
         /\ \A i \in Items :
              /\ queue'[i].retries \in {queue[i].retries, 0}
              /\ queue'[i].status = "failed" => queue[i].status = "failed"
<1>0. queue \in [Items -> ItemRow]
  BY DEF TypeInv, TablesInv
<1>1. CASE Poll
  BY <1>1, PollDeals DEF TypeInv, tables, history
<1>2. CASE Aside
  <2>1. /\ UNCHANGED <<txns, copy, stored, moves, unsaved, attempts>>
        /\ \A g \in Goroutines : pc'[g] = pc[g] /\ job'[g] = job[g]
    BY <1>2, AsideKeepTypes
       DEF Aside, Enqueue, BecomeDue, CleanupCompleted, PassTime, Cancel, Stop, vars,
       tables, locals, history
  <2>2. ASSUME NEW i \in Items
        PROVE  /\ queue'[i].retries \in {queue[i].retries, 0}
               /\ queue'[i].status = "failed" => queue[i].status = "failed"
    <3>1. ASSUME NEW j \in Items, Enqueue(j)
          PROVE  \/ queue'[i] = queue[i]
                 \/ queue'[i].retries = 0 /\ queue'[i].status = "pending"
      BY <1>0, <2>2, <3>1 DEF Enqueue
    <3>2. ASSUME NEW j \in Items, BecomeDue(j) \/ CleanupCompleted(j)
          PROVE  /\ queue'[i].retries = queue[i].retries
                 /\ queue'[i].status \in {queue[i].status, "deleted"}
      BY <1>0, <2>2, <3>2 DEF BecomeDue, CleanupCompleted, SetStatus, ItemRow
    <3>3. CASE UNCHANGED queue
      BY <2>2, <3>3
    <3> QED  BY <1>2, <2>2, <3>1, <3>2, <3>3
             DEF Aside, PassTime, Cancel, Stop, vars, tables
  <2> QED  BY <2>1, <2>2
<1> QED  BY <1>1, <1>2 DEF Next, Aside, WorkerStep

-----------------------------------------------------------------------------
(* Retries *)

\* The attempts at i that have failed and whose retry is not saved yet
Retrying(i) ==
  {g \in Goroutines : pc[g] \in {"retry", "saveRetry"} /\ job[g].item = i}

\* n attempts at i have failed, or as many as give it up.
Failed(i, n) == n <= attempts[i] \/ attempts[i] >= MaxRetries

\* Every retry that a row, a goroutine or a pending save counts stands for an
\* attempt that failed, those still to be saved included; one gives up for a
\* reason.
Counts(g) ==
  /\ pc[g] # "idle" => Failed(job[g].item, job[g].tries)
  /\ pc[g] = "saveRetry" =>
       Failed(job[g].item, stored[g] + Cardinality(Retrying(job[g].item)))
  /\ pc[g] \in {"giveUp", "giveUpSave"} => UsedUp(job[g].tries)
  /\ pc[g] = "markFailed" => UsedUp(job[g].tries) \/ Duplicate(Txn(g))

RetryInv ==
  /\ \A i \in Items : Failed(i, queue[i].retries + Cardinality(Retrying(i)))
  /\ \A g \in Goroutines : Counts(g)
  /\ GivesUpLate

LEMMA RetryingFinite ==
  ASSUME TypeInv, NEW i
  PROVE  IsFiniteSet(Retrying(i)) /\ Cardinality(Retrying(i)) \in Nat
<1>1. Retrying(i) \in SUBSET Running
  BY DEF Retrying, Running
<1> QED  BY <1>1, FS_Subset, FS_CardinalityType DEF TypeInv

\* The ways of a worker, as far as retries are concerned
LEMMA WorkerWays ==
  ASSUME TypeInv, WorkInv, NEW g \in Goroutines, WorkerStep(g)
  PROVE  /\ pc[g] # "idle" /\ job[g].item \in Items /\ job[g].tries \in Nat
         /\ pc'[g] = "idle" \/ job'[g] = job[g]
         /\ pc'[g] \in {"retry", "saveRetry"} =>
              \/ Fail(g)
              \/ ReadRetry(g) /\ stored'[g] = queue[job[g].item].retries
         /\ Fail(g) => pc[g] = "failure" /\ pc'[g] \in {"giveUp", "retry"}
         /\ ReadRetry(g) => pc[g] = "retry" /\ pc'[g] # "retry"
         /\ ReadRetry(g) \/ Fail(g) => UNCHANGED queue
         /\ pc'[g] \in {"giveUp", "giveUpSave"} => UsedUp(job[g].tries) \/ GiveUp(g)
         /\ GiveUp(g) => pc[g] = "giveUp"
         /\ pc'[g] = "markFailed" => pc[g] \in {"giveUp", "giveUpSave", "reject"}
<1>0. /\ pc \in [Goroutines -> Steps] /\ stored \in [Goroutines -> Nat]
  BY DEF TypeInv, WorkersInv
<1>1. pc[g] # "idle"
  BY DEF WorkerStep, Acquire, Proceed, StatementError, AfterError, Validate,
     FetchTransaction, CheckReference, UpdateBalance, SaveTransaction, MarkCompleted,
     Succeed, Fail, ReadRetry, SaveRetry, GiveUp, SaveFailed, MarkFailed
<1>2. job[g].item \in Items /\ job[g].tries \in Nat
  BY <1>1, ActiveJob DEF TypeInv
<1>3. pc'[g] = "idle" \/ job'[g] = job[g]
  BY <1>0 DEF WorkerStep, Acquire, Proceed, StatementError, Validate,
     FetchTransaction, CheckReference, UpdateBalance, SaveTransaction, MarkCompleted,
     Succeed, Fail, ReadRetry, SaveRetry, GiveUp, SaveFailed, MarkFailed, Goto, At,
     locals
<1>4. /\ Fail(g) => /\ pc[g] = "failure" /\ pc'[g] \in {"giveUp", "retry"}
                    /\ UNCHANGED queue
                    /\ pc'[g] = "giveUp" => UsedUp(job[g].tries)
      /\ ReadRetry(g) => /\ pc[g] = "retry" /\ pc'[g] \in {"idle", "saveRetry"}
                         /\ UNCHANGED queue
                         /\ pc'[g] = "saveRetry" =>
                              stored'[g] = queue[job[g].item].retries
      /\ GiveUp(g) => pc[g] = "giveUp" /\ pc'[g] = "giveUpSave"
  BY <1>0 DEF Fail, ReadRetry, GiveUp, Goto, At, tables
<1>5. CASE StatementError(g)
  <2>1. pc'[g] = AfterError[pc[g]] /\ pc[g] \in DOMAIN AfterError
    BY <1>0, <1>5 DEF StatementError, Goto, At
  <2>2. /\ pc'[g] \in {"failure", "idle", "markFailed"}
        /\ pc'[g] = "markFailed" => pc[g] \in {"giveUp", "giveUpSave", "reject"}
    BY <2>1 DEF AfterError
  <2> QED  BY <1>1, <1>2, <1>3, <1>4, <2>2
<1>6. CASE ~(Fail(g) \/ ReadRetry(g) \/ GiveUp(g) \/ StatementError(g))
  <2>1. /\ pc'[g] \notin {"retry", "saveRetry", "giveUpSave"}
        /\ pc'[g] = "giveUp" => UsedUp(job[g].tries)
        /\ pc'[g] = "markFailed" => pc[g] \in {"giveUpSave", "reject"}
    BY <1>0, <1>6 DEF WorkerStep, Acquire, Proceed, Validate,
     FetchTransaction, CheckReference, UpdateBalance, SaveTransaction, MarkCompleted,
     Succeed, SaveRetry, SaveFailed, MarkFailed, Goto, At
  <2> QED  BY <1>1, <1>2, <1>3, <1>6, <2>1
<1>7. CASE Fail(g)
  BY <1>1, <1>2, <1>3, <1>4, <1>7
<1>8. CASE ReadRetry(g)
  BY <1>1, <1>2, <1>3, <1>4, <1>8
<1>9. CASE GiveUp(g)
  BY <1>1, <1>2, <1>3, <1>4, <1>9
<1> QED  BY <1>5, <1>6, <1>7, <1>8, <1>9

\* What a worker's step makes of the rows of the queue
LEMMA WorkerRows ==
  ASSUME TypeInv, NEW g \in Goroutines, WorkerStep(g), NEW i \in Items
  PROVE  \/ /\ SaveRetry(g) /\ pc[g] = "saveRetry" /\ job[g].item = i
            /\ pc'[g] = "idle"
            /\ queue'[i].retries = stored[g] + 1 /\ queue'[i].status = "pending"
         \/ /\ queue'[i].retries = queue[i].retries
            /\ queue'[i].status = "failed" =>
                 \/ queue[i].status = "failed"
                 \/ pc[g] = "markFailed" /\ job[g].item = i
<1>0. queue \in [Items -> ItemRow] /\ pc \in [Goroutines -> Steps]
  BY DEF TypeInv, TablesInv, WorkersInv
<1>1. CASE SaveRetry(g)
  BY <1>0, <1>1 DEF SaveRetry, Retry, Goto, At
<1>2. CASE MarkCompleted(g)
  BY <1>0, <1>2 DEF MarkCompleted, SetStatus, ItemRow
<1>3. CASE MarkFailed(g)
  BY <1>0, <1>3 DEF MarkFailed, SetStatus, ItemRow
<1>4. CASE ~(SaveRetry(g) \/ MarkCompleted(g) \/ MarkFailed(g))
  <2>1. UNCHANGED queue
    BY <1>4 DEF WorkerStep, Acquire, Proceed, StatementError, Validate,
       FetchTransaction, CheckReference, UpdateBalance, SaveTransaction, Succeed, Fail,
       ReadRetry, GiveUp, SaveFailed, tables
  <2> QED  BY <2>1
<1> QED  BY <1>1, <1>2, <1>3, <1>4

\* Attempts are counted when one fails, and only then.
LEMMA AttemptsCounted ==
  ASSUME TypeInv, NEW i \in Items
  PROVE  /\ attempts[i] \in Nat
         /\ \A g \in Goroutines : WorkerStep(g) =>
              IF Fail(g) /\ job[g].item = i
              THEN \/ attempts'[i] = attempts[i] + 1
                   \/ attempts'[i] = attempts[i] /\ attempts[i] >= MaxRetries
              ELSE attempts'[i] = attempts[i]
<1>0. attempts \in [Items -> Nat] /\ MaxRetries \in Nat
  BY QueueAssumption DEF TypeInv, TablesInv
<1>1. ASSUME NEW g \in Goroutines, Fail(g)
      PROVE  IF job[g].item = i
             THEN \/ attempts'[i] = attempts[i] + 1
                  \/ attempts'[i] = attempts[i] /\ attempts[i] >= MaxRetries
             ELSE attempts'[i] = attempts[i]
  BY <1>0, <1>1 DEF Fail, CountAttempt
<1>2. ASSUME NEW g \in Goroutines, WorkerStep(g), ~Fail(g)
      PROVE  attempts'[i] = attempts[i]
  BY <1>2 DEF WorkerStep, Acquire, Proceed, StatementError, Validate,
       FetchTransaction, CheckReference, UpdateBalance, SaveTransaction, Succeed,
       MarkCompleted, MarkFailed, SaveRetry, ReadRetry, GiveUp, SaveFailed, history
<1> QED  BY <1>0, <1>1, <1>2

\* A worker leaves a pending retry, or has an attempt counted for it.
LEMMA PendingRetries ==
  ASSUME TypeInv, WorkInv, NEW g \in Goroutines, WorkerStep(g), NEW i \in Items,
         NEW n \in Nat, Failed(i, n + Cardinality(Retrying(i)))
  PROVE  /\ Failed(i, n + Cardinality(Retrying(i)))'
         /\ SaveRetry(g) /\ pc[g] = "saveRetry" /\ job[g].item = i /\ pc'[g] = "idle" =>
              Failed(i, (n + 1) + Cardinality(Retrying(i)))'
<1> DEFINE S == Retrying(i)
           T == Retrying(i)'
<1>1. IsFiniteSet(S) /\ S \ {g} = T \ {g}
  BY RetryingFinite, WorkerKeepsTypes DEF Retrying, WorkerStep
<1>2. /\ g \in S <=> pc[g] \in {"retry", "saveRetry"} /\ job[g].item = i
      /\ g \in T <=> pc'[g] \in {"retry", "saveRetry"} /\ job'[g].item = i
  BY DEF Retrying
<1>3. /\ Cardinality(S) \in Nat /\ Cardinality(T) \in Nat
      /\ (g \in S <=> g \in T) => Cardinality(T) = Cardinality(S)
      /\ g \in S /\ g \notin T => Cardinality(S) = Cardinality(T) + 1
      /\ g \notin S /\ g \in T => Cardinality(T) = Cardinality(S) + 1
  BY <1>1, OneMember
<1>4. attempts[i] \in Nat /\ MaxRetries \in Nat
  BY AttemptsCounted, QueueAssumption
<1>5. CASE Fail(g) /\ job[g].item = i
  <2>1. Cardinality(T) <= Cardinality(S) + 1
    BY <1>3
  <2>2. \/ attempts'[i] = attempts[i] + 1
        \/ attempts'[i] = attempts[i] /\ attempts[i] >= MaxRetries
    BY <1>5, AttemptsCounted
  <2>3. ~(pc[g] = "saveRetry")
    BY <1>5 DEF Fail
  <2> QED  BY <1>3, <1>4, <2>1, <2>2, <2>3 DEF Failed
<1>6. CASE ~(Fail(g) /\ job[g].item = i)
  <2>1. attempts'[i] = attempts[i]
    BY <1>6, AttemptsCounted
  <2>2. g \in T => g \in S
    BY <1>2, <1>6, WorkerWays
  <2>3. Cardinality(T) <= Cardinality(S)
    BY <1>3, <2>2
  <2>4. pc[g] = "saveRetry" /\ job[g].item = i /\ pc'[g] = "idle" =>
          Cardinality(S) = Cardinality(T) + 1
    BY <1>2, <1>3
  <2> QED  BY <1>3, <1>4, <2>1, <2>3, <2>4 DEF Failed
<1> QED  BY <1>5, <1>6

LEMMA FailedStays ==
  ASSUME TypeInv, NEW g \in Goroutines, WorkerStep(g), NEW i \in Items, NEW n \in Nat
  PROVE  /\ Failed(i, n) => Failed(i, n)'
         /\ attempts[i] >= MaxRetries => attempts'[i] >= MaxRetries
BY AttemptsCounted, QueueAssumption DEF Failed

LEMMA WorkerCounts ==
  ASSUME TypeInv, WorkInv, TypeInv', RetryInv, NEW g \in Goroutines, WorkerStep(g)
  PROVE  RetryInv'
<1>0. /\ \A i \in Items : queue[i].retries \in Nat /\ attempts[i] \in Nat
      /\ \A h \in Goroutines : stored[h] \in Nat /\ job[h].tries \in Nat
      /\ \A h \in Goroutines : pc[h] # "idle" => job[h].item \in Items
      /\ MaxRetries \in Nat
  BY QueueAssumption DEF TypeInv, WorkersInv, TablesInv, ItemRow
<1>1. ASSUME NEW i \in Items
      PROVE  Failed(i, queue[i].retries + Cardinality(Retrying(i)))'
  <2>1. Failed(i, queue[i].retries + Cardinality(Retrying(i)))
    BY DEF RetryInv
  <2>2. CASE queue'[i].retries = queue[i].retries
    BY <1>0, <2>1, <2>2, PendingRetries DEF Failed
  <2>3. CASE /\ SaveRetry(g) /\ pc[g] = "saveRetry" /\ job[g].item = i
             /\ pc'[g] = "idle" /\ queue'[i].retries = stored[g] + 1
    <3>1. Failed(i, stored[g] + Cardinality(Retrying(i)))
      BY <2>3 DEF RetryInv, Counts
    <3> QED  BY <1>0, <2>3, <3>1, PendingRetries DEF Failed
  <2> QED  BY <2>2, <2>3, WorkerRows
<1>2. ASSUME NEW h \in Goroutines \ {g} PROVE Counts(h)'
  <2>1. pc'[h] = pc[h] /\ job'[h] = job[h] /\ stored'[h] = stored[h]
    BY WorkerKeepsTypes DEF WorkerStep
  <2>2. CASE pc[h] = "idle"
    BY <2>1, <2>2 DEF Counts
  <2>3. CASE pc[h] # "idle"
    <3>1. Counts(h) /\ job[h].item \in Items
      BY <1>0, <2>3 DEF RetryInv
    <3>2. Failed(job[h].item, job[h].tries)'
      BY <1>0, <2>1, <2>3, <3>1, FailedStays DEF Counts, Failed
    <3>3. pc[h] = "saveRetry" =>
            Failed(job[h].item, stored[h] + Cardinality(Retrying(job[h].item)))'
      BY <1>0, <2>1, <3>1, PendingRetries DEF Counts, Failed, Retrying
    <3> QED  BY <2>1, <3>1, <3>2, <3>3 DEF Counts, UsedUp, Txn
  <2> QED  BY <2>2, <2>3
<1>3. Counts(g)'
  <2>1. CASE pc'[g] = "idle"
    BY <2>1 DEF Counts
  <2>2. CASE pc'[g] # "idle"
    <3>1. /\ pc[g] # "idle" /\ job[g].item \in Items /\ job'[g] = job[g]
          /\ Counts(g) /\ Holds(g)
      BY <2>2, WorkerWays DEF RetryInv, WorkInv
    <3>2. Failed(job[g].item, job[g].tries)'
      BY <1>0, <3>1, FailedStays DEF Counts, Failed
    <3>3. ASSUME pc'[g] = "saveRetry"
          PROVE  Failed(job[g].item, stored[g] + Cardinality(Retrying(job[g].item)))'
      <4>1. stored'[g] = queue[job[g].item].retries /\ UNCHANGED queue
        BY <3>3, WorkerWays
      <4> QED  BY <1>1, <3>1, <4>1 DEF Failed
    <3>4. pc'[g] \in {"giveUp", "giveUpSave"} => UsedUp(job[g].tries)
      BY <3>1, WorkerWays DEF Counts
    <3>5. pc'[g] = "markFailed" => UsedUp(job[g].tries) \/ Duplicate(Txn(g))
      BY <3>1, WorkerWays DEF Counts, Holds
    <3> QED  BY <3>1, <3>2, <3>3, <3>4, <3>5 DEF Counts, UsedUp, Txn
  <2> QED  BY <2>1, <2>2
<1>4. GivesUpLate'
  <2> SUFFICES ASSUME NEW i \in Items, queue'[i].status = "failed",
                      ~Duplicate(Work[i].txn)
               PROVE  attempts'[i] >= MaxRetries
    BY DEF GivesUpLate, Duplicate
  <2>1. attempts[i] >= MaxRetries
    <3>1. CASE queue[i].status = "failed"
      BY <3>1 DEF RetryInv, GivesUpLate, Duplicate
    <3>2. CASE pc[g] = "markFailed" /\ job[g].item = i
      <4>1. Counts(g)
        BY DEF RetryInv
      <4> QED  BY <1>0, <3>2, <4>1 DEF Counts, Failed, UsedUp, Txn
    <3> QED  BY <3>1, <3>2, WorkerRows
  <2> QED  BY <2>1, FailedStays
<1> QED  BY <1>1, <1>2, <1>3, <1>4 DEF RetryInv

LEMMA RetryStep == TypeInv /\ WorkInv /\ RetryInv /\ [Next]_vars => RetryInv'
<1> SUFFICES ASSUME TypeInv, WorkInv, RetryInv, [Next]_vars PROVE RetryInv'
  OBVIOUS
<1>1. TypeInv'
  BY TypeInvariant DEF WorkInv
<1>2. ASSUME NEW g \in Goroutines, WorkerStep(g) PROVE RetryInv'
  BY <1>1, <1>2, WorkerCounts
<1>3. CASE Crash
  <2>1. ASSUME NEW i \in Items
        PROVE  Failed(i, queue[i].retries + Cardinality(Retrying(i)))'
    <3>1. Retrying(i)' = {} /\ UNCHANGED <<queue, attempts>>
      BY <1>3 DEF Crash, Retrying, tables
    <3>2. /\ Failed(i, queue[i].retries + Cardinality(Retrying(i)))
          /\ Cardinality(Retrying(i)) \in Nat
          /\ queue[i].retries \in Nat /\ attempts[i] \in Nat /\ MaxRetries \in Nat
      BY RetryingFinite, QueueAssumption DEF RetryInv, TypeInv, TablesInv, ItemRow
    <3>3. Cardinality(Retrying(i))' = 0
      BY <3>1, FS_EmptySet
    <3> QED  BY <3>1, <3>2, <3>3 DEF Failed
  <2>2. GivesUpLate' /\ \A g \in Goroutines : Counts(g)'
    BY <1>3 DEF Crash, tables, RetryInv, GivesUpLate, Counts
  <2> QED  BY <2>1, <2>2 DEF RetryInv
<1>4. CASE (\A g \in Goroutines : ~WorkerStep(g)) /\ ~Crash
  <2>0. /\ \A i \in Items : /\ queue[i].retries \in Nat /\ attempts[i] \in Nat
                            /\ Cardinality(Retrying(i)) \in Nat
        /\ MaxRetries \in Nat
    BY RetryingFinite, QueueAssumption DEF TypeInv, TablesInv, ItemRow
  <2>1. ASSUME NEW i PROVE Retrying(i)' = Retrying(i)
    BY <1>4, QuietSteps DEF Retrying
  <2>2. UNCHANGED <<stored, attempts>>
    BY <1>4, QuietSteps
  <2>3. ASSUME NEW i \in Items
        PROVE  Failed(i, queue[i].retries + Cardinality(Retrying(i)))'
    <3>1. queue'[i].retries \in {queue[i].retries, 0}
      BY <1>4, QuietSteps
    <3>2. Failed(i, queue[i].retries + Cardinality(Retrying(i)))
      BY DEF RetryInv
    <3> QED  BY <2>0, <2>1, <2>2, <3>1, <3>2 DEF Failed
  <2>4. ASSUME NEW g \in Goroutines PROVE Counts(g)'
    <3>1. CASE pc'[g] = pc[g] /\ job'[g] = job[g]
      BY <2>1, <2>2, <3>1 DEF RetryInv, Counts, Failed, UsedUp, Txn
    <3>2. CASE /\ pc'[g] = "spawned" /\ job'[g].item \in Items
               /\ job'[g].tries = queue[job'[g].item].retries
      <4>1. Failed(job'[g].item, job'[g].tries)
        BY <2>0, <3>2 DEF RetryInv, Failed
      <4> QED  BY <2>2, <3>2, <4>1 DEF Counts, Failed
    <3> QED  BY <1>4, <3>1, <3>2, QuietSteps
  <2>5. GivesUpLate'
    BY <1>4, <2>2, QuietSteps DEF RetryInv, GivesUpLate
  <2> QED  BY <2>3, <2>4, <2>5 DEF RetryInv
<1> QED  BY <1>2, <1>3, <1>4

(* An item is given up only after MaxRetries of its attempts have failed,  *)
(* or because its reference is a duplicate: however many workers write     *)
(* back an old count of retries, whatever statement fails and whenever the *)
(* process dies.                                                           *)
THEOREM GivenUpLate == Spec => []GivesUpLate
<1>1. Init => RetryInv
  <2> SUFFICES ASSUME Init PROVE RetryInv
    OBVIOUS
  <2>1. ASSUME NEW i \in Items PROVE Retrying(i) = {}
    BY DEF Init, Retrying
  <2>2. ASSUME NEW i \in Items
        PROVE  Failed(i, queue[i].retries + Cardinality(Retrying(i)))
    <3>1. Cardinality(Retrying(i)) = 0
      BY <2>1, FS_EmptySet
    <3>2. queue[i].retries = 0 /\ attempts[i] = 0
      BY DEF Init
    <3> QED  BY <3>1, <3>2 DEF Failed
  <2> QED  BY <2>2 DEF Init, RetryInv, GivesUpLate, Counts
<1>2. RetryInv => GivesUpLate
  BY DEF RetryInv
<1> QED  BY <1>1, <1>2, RetryStep, QueueInvariant, PTL DEF Spec

-----------------------------------------------------------------------------
(* Money *)

\* No status leads back to pending; one created reversed stays so or fails.
Origins ==
  \A t \in Txns :
    /\ txns[t].status = "pending" => FirstStatus[t] = "pending"
    /\ FirstStatus[t] = "reversed" => txns[t].status \in {"reversed", "failed"}

MoneyInv == Origins /\ MoneyIsAccounted

LEMMA OriginsStep ==
  ASSUME TypeInv, WorkInv, Origins, [Next]_vars
  PROVE  Origins'
<1> SUFFICES ASSUME NEW t \in Txns
             PROVE  /\ txns'[t].status = "pending" => FirstStatus[t] = "pending"
                    /\ FirstStatus[t] = "reversed" =>
                         txns'[t].status \in {"reversed", "failed"}
  BY DEF Origins
<1> QED  BY EveryStepEvolves DEF Evolves, Origins

\* The sum that MoneyIsAccounted speaks of
Accounted(t, o) ==
  (IF Shown(t, o) THEN 1 ELSE 0) + Cardinality(Saving(t, o)) + unsaved[t][o]

\* A worker's part in the number of those about to save
LEMMA SavingMoves ==
  ASSUME TypeInv, NEW g \in Goroutines, WorkerStep(g),
         NEW t \in Txns, NEW o \in {"process", "reverse"}
  PROVE  LET S == Saving(t, o)
             before == pc[g] = "save" /\ Txn(g) = t /\ Op(g) = o
             after == pc'[g] = "save" /\ Txn(g)' = t /\ Op(g)' = o
         IN  /\ Cardinality(S) \in Nat /\ Cardinality(S)' \in Nat
             /\ (before <=> after) => Cardinality(S)' = Cardinality(S)
             /\ before /\ ~after => Cardinality(S) = Cardinality(S)' + 1
             /\ ~before /\ after => Cardinality(S)' = Cardinality(S) + 1
<1> DEFINE S == Saving(t, o)
           T == Saving(t, o)'
<1>1. IsFiniteSet(S)
  BY SavingFinite
<1>2. S \ {g} = T \ {g}
  BY WorkerKeepsTypes DEF Saving, WorkerStep, Txn, Op
<1>3. /\ g \in S <=> pc[g] = "save" /\ Txn(g) = t /\ Op(g) = o
      /\ g \in T <=> pc'[g] = "save" /\ Txn(g)' = t /\ Op(g)' = o
  BY DEF Saving, Txn, Op
<1>4. /\ Cardinality(S) \in Nat /\ Cardinality(T) \in Nat
      /\ (g \in S <=> g \in T) => Cardinality(T) = Cardinality(S)
      /\ g \in S /\ g \notin T => Cardinality(S) = Cardinality(T) + 1
      /\ g \notin S /\ g \in T => Cardinality(T) = Cardinality(S) + 1
  BY <1>1, <1>2, OneMember
<1> HIDE DEF S, T
<1>5. /\ Cardinality(S) \in Nat /\ Cardinality(T) \in Nat
      /\ ((g \in S) <=> (g \in T)) => Cardinality(T) = Cardinality(S)
      /\ g \in S /\ g \notin T => Cardinality(S) = Cardinality(T) + 1
      /\ g \notin S /\ g \in T => Cardinality(T) = Cardinality(S) + 1
  BY <1>4
<1> QED  BY <1>3, <1>5 DEF S, T

\* What a worker's step does to an operation of a transaction: it moves the
\* money, saves the status, fails to save it, or has no part in it.
LEMMA WorkerMoney ==
  ASSUME TypeInv, WorkInv, Origins, NEW g \in Goroutines, WorkerStep(g),
         NEW t \in Txns, NEW o \in {"process", "reverse"}
  PROVE  LET before == pc[g] = "save" /\ Txn(g) = t /\ Op(g) = o
             after == pc'[g] = "save" /\ Txn(g)' = t /\ Op(g)' = o
         IN  \/ /\ ~before /\ after /\ moves'[t][o] = moves[t][o] + 1
                /\ Shown(t, o)' = Shown(t, o) /\ unsaved'[t][o] = unsaved[t][o]
             \/ /\ before /\ ~after /\ moves'[t][o] = moves[t][o]
                /\ ~Shown(t, o) /\ Shown(t, o)' /\ unsaved'[t][o] = unsaved[t][o]
             \/ /\ before /\ ~after /\ moves'[t][o] = moves[t][o]
                /\ Shown(t, o)' = Shown(t, o) /\ unsaved'[t][o] = unsaved[t][o] + 1
             \/ /\ ~before /\ ~after /\ moves'[t][o] = moves[t][o]
                /\ Shown(t, o)' = Shown(t, o) /\ unsaved'[t][o] = unsaved[t][o]
<1>0. /\ pc \in [Goroutines -> Steps] /\ txns \in [Txns -> TxnRecord]
      /\ moves \in [Txns -> [process : Nat, reverse : Nat]]
      /\ unsaved \in [Txns -> [process : Nat, reverse : Nat]]
      /\ Holds(g) /\ pc[g] # "idle" /\ Txn(g) \in Txns
  BY WorkerWays, ActiveJob DEF TypeInv, WorkersInv, TablesInv, WorkInv
<1>1. CASE UpdateBalance(g)
  <2>1. /\ pc[g] = "balance" /\ UNCHANGED <<txns, unsaved>>
        /\ Op(g) \in {"process", "reverse"}
    BY <1>0, <1>1 DEF UpdateBalance, Holds, MayPerform
  <2>2. Shown(t, o)' = Shown(t, o)
    BY <2>1 DEF Shown
  <2>3. CASE Move(Txn(g), Op(g)) /\ Goto(g, "save")
    <3>1. pc'[g] = "save" /\ Txn(g)' = Txn(g) /\ Op(g)' = Op(g)
      BY <1>0, <2>3 DEF Goto, At, locals, Txn, Op
    <3>2. moves' = [moves EXCEPT ![Txn(g)][Op(g)] = @ + 1]
      BY <2>3 DEF Move
    <3>3. CASE t = Txn(g) /\ o = Op(g)
      <4>1. moves'[t][o] = moves[t][o] + 1
        BY <1>0, <2>1, <3>2, <3>3
      <4> QED  BY <2>1, <2>2, <3>1, <3>3, <4>1
    <3>4. CASE ~(t = Txn(g) /\ o = Op(g))
      <4>1. moves'[t][o] = moves[t][o]
        BY <1>0, <2>1, <3>2, <3>4
      <4> QED  BY <2>1, <2>2, <3>1, <3>4, <4>1
    <3> QED  BY <3>3, <3>4
  <2>4. CASE Goto(g, "failure") /\ UNCHANGED <<balance, moves>>
    <3>1. pc'[g] # "save"
      BY <1>0, <2>4 DEF Goto, At
    <3> QED  BY <2>1, <2>2, <2>4, <3>1
  <2> QED  BY <1>1, <2>3, <2>4 DEF UpdateBalance
<1>2. CASE SaveTransaction(g) /\ Saves(Txn(g), copy[g].version)
  <2>1. /\ pc[g] = "save" /\ pc'[g] # "save" /\ UNCHANGED <<moves, unsaved>>
        /\ SaveAs(Txn(g), NewStatus(Op(g)))
    BY <1>0, <1>2 DEF SaveTransaction, Goto, At
  <2>2. MayPerform(Op(g), txns[Txn(g)].status)
    BY <1>0, <1>2, <2>1 DEF Holds, Compares, Saves, VersionMatches
  <2>3. txns' = [txns EXCEPT ![Txn(g)] = [status |-> NewStatus(Op(g)),
                                          version |-> @.version + 1]]
    BY <2>1 DEF SaveAs
  <2>4. CASE t # Txn(g)
    <3>1. Shown(t, o)' = Shown(t, o)
      BY <1>0, <2>3, <2>4 DEF Shown
    <3> QED  BY <2>1, <2>4, <3>1
  <2>5. CASE t = Txn(g)
    <3>1. txns'[t].status = NewStatus(Op(g))
      BY <1>0, <2>3, <2>5
    <3>2. CASE o = Op(g)
      <4>1. ~Shown(t, o) /\ Shown(t, o)'
        BY <2>2, <2>5, <3>1, <3>2 DEF MayPerform, Shown, NewStatus, Origins
      <4> QED  BY <2>1, <2>5, <3>2, <4>1
    <3>3. CASE o # Op(g)
      <4>1. Shown(t, o)' = Shown(t, o)
        BY <2>2, <2>5, <3>1, <3>3 DEF MayPerform, Shown, NewStatus
      <4> QED  BY <2>1, <3>3, <4>1
    <3> QED  BY <3>2, <3>3
  <2> QED  BY <2>4, <2>5
<1>3. CASE /\ pc[g] = "save"
           /\ \/ SaveTransaction(g) /\ ~Saves(Txn(g), copy[g].version)
              \/ StatementError(g)
  <2>1. /\ pc'[g] # "save" /\ UNCHANGED <<moves, txns>> /\ LeftUnsaved(g)
    BY <1>0, <1>3 DEF SaveTransaction, StatementError, AfterError, Goto, At, tables
  <2>2. Op(g) \in {"process", "reverse"}
    BY <1>0, <1>3 DEF Holds, MayPerform
  <2>3. Shown(t, o)' = Shown(t, o)
    BY <2>1 DEF Shown
  <2>4. unsaved' = [unsaved EXCEPT ![Txn(g)][Op(g)] = @ + 1]
    BY <2>1 DEF LeftUnsaved
  <2>5. CASE t = Txn(g) /\ o = Op(g)
    <3>1. unsaved'[t][o] = unsaved[t][o] + 1
      BY <1>0, <2>2, <2>4, <2>5
    <3> QED  BY <1>3, <2>1, <2>3, <2>5, <3>1
  <2>6. CASE ~(t = Txn(g) /\ o = Op(g))
    <3>1. unsaved'[t][o] = unsaved[t][o]
      BY <1>0, <2>2, <2>4, <2>6
    <3> QED  BY <1>3, <2>1, <2>3, <2>6, <3>1
  <2> QED  BY <2>5, <2>6
<1>4. CASE ~(UpdateBalance(g) \/ SaveTransaction(g) \/ (pc[g] = "save" /\ StatementError(g)))
  <2>1. /\ UNCHANGED <<moves, unsaved>> /\ pc[g] # "save" /\ pc'[g] # "save"
    <3>1. CASE StatementError(g)
      BY <1>0, <1>4, <3>1 DEF StatementError, AfterError, Goto, At
    <3>2. CASE ~StatementError(g)
      BY <1>0, <1>4, <3>2 DEF WorkerStep, Acquire, Proceed, Validate, FetchTransaction,
         CheckReference, MarkCompleted, Succeed, Fail, ReadRetry, SaveRetry, GiveUp,
         SaveFailed, MarkFailed, Goto, At, history
    <3> QED  BY <3>1, <3>2
  <2>2. CASE UNCHANGED txns
    <3>1. Shown(t, o)' = Shown(t, o)
      BY <2>2 DEF Shown
    <3> QED  BY <2>1, <3>1
  <2>3. CASE ~UNCHANGED txns
    <3>1. SaveFailed(g) /\ Saves(Txn(g), Expected(g)) /\ SaveAs(Txn(g), "failed")
      BY <1>4, <2>3 DEF WorkerStep, Acquire, Proceed, StatementError, Validate,
         FetchTransaction, CheckReference, MarkCompleted, Succeed, Fail, ReadRetry,
         SaveRetry, GiveUp, SaveFailed, MarkFailed, tables
    <3>2. pc[g] \in {"giveUpSave", "reject"} /\ copy[g].version \in Nat
      BY <3>1 DEF SaveFailed, TypeInv, WorkersInv, TxnRecord
    <3>3. Duplicate(Txn(g))
      BY <1>0, <3>1, <3>2 DEF Holds, Compares, Saves, VersionMatches, Expected, TxnRecord
    <3>4. txns[Txn(g)].status \in {FirstStatus[Txn(g)], "failed"}
      BY <1>0, <3>3 DEF WorkInv
    <3>5. /\ txns'[Txn(g)].status = "failed"
          /\ t # Txn(g) => txns'[t] = txns[t]
      BY <1>0, <3>1 DEF SaveAs
    <3>6. Shown(t, o)' = Shown(t, o)
      BY <3>4, <3>5 DEF Shown
    <3> QED  BY <2>1, <3>6
  <2> QED  BY <2>2, <2>3
<1> QED  BY <1>1, <1>2, <1>3, <1>4 DEF SaveTransaction

LEMMA MoneyStep ==
  ASSUME TypeInv, WorkInv, MoneyInv, [Next]_vars
  PROVE  MoneyInv'
<1>1. Origins'
  BY OriginsStep DEF MoneyInv
<1> SUFFICES ASSUME NEW t \in Txns, NEW o \in {"process", "reverse"}
             PROVE  moves'[t][o] = Accounted(t, o)'
  BY <1>1 DEF MoneyInv, MoneyIsAccounted, Accounted
<1>2. /\ moves[t][o] = Accounted(t, o) /\ unsaved[t][o] \in Nat
      /\ Cardinality(Saving(t, o)) \in Nat
  BY SavingFinite, FS_CardinalityType
     DEF MoneyInv, MoneyIsAccounted, Accounted, TypeInv, TablesInv
<1>3. ASSUME NEW g \in Goroutines, WorkerStep(g) PROVE moves'[t][o] = Accounted(t, o)'
  BY <1>2, <1>3, WorkerMoney, SavingMoves DEF MoneyInv, Accounted
<1>4. CASE Crash
  <2>1. UNCHANGED <<txns, moves>> /\ Saving(t, o)' = {}
    BY <1>4 DEF Crash, Saving, tables
  <2>2. unsaved'[t][o] = unsaved[t][o] + Cardinality(Saving(t, o))
    BY <1>4 DEF Crash
  <2>3. Shown(t, o)' = Shown(t, o)
    BY <2>1 DEF Shown
  <2>4. Cardinality(Saving(t, o))' = 0
    BY <2>1, FS_EmptySet
  <2> QED  BY <1>2, <2>1, <2>2, <2>3, <2>4 DEF Accounted
<1>5. CASE (\A g \in Goroutines : ~WorkerStep(g)) /\ ~Crash
  <2>1. UNCHANGED <<txns, moves, unsaved>>
    BY <1>5, QuietSteps
  <2>2. Saving(t, o)' = Saving(t, o)
    BY <1>5, QuietSteps DEF Saving, Txn, Op
  <2>3. Shown(t, o)' = Shown(t, o)
    BY <2>1 DEF Shown
  <2> QED  BY <1>2, <2>1, <2>2, <2>3 DEF Accounted
<1> QED  BY <1>3, <1>4, <1>5

(* However many workers there are, whether updates pass the hook or not,   *)
(* whatever fails and whenever the process dies: an operation has moved    *)
(* money once if the status shows it, once for every worker about to save  *)
(* that, and once for every save that did not come through, and no more.   *)
THEOREM MoneyAccounted == Spec => []MoneyIsAccounted
<1>1. Init => MoneyInv
  <2> SUFFICES ASSUME Init PROVE MoneyInv
    OBVIOUS
  <2>1. ASSUME NEW t \in Txns, NEW o \in {"process", "reverse"}
        PROVE  moves[t][o] = Accounted(t, o)
    <3>1. Saving(t, o) = {}
      BY DEF Init, Saving
    <3>2. Cardinality(Saving(t, o)) = 0
      BY <3>1, FS_EmptySet
    <3>3. moves[t][o] = 0 /\ unsaved[t][o] = 0 /\ ~Shown(t, o)
      BY DEF Init, Shown
    <3> QED  BY <3>2, <3>3 DEF Accounted
  <2>2. Origins
    BY DEF Init, Origins
  <2> QED  BY <2>1, <2>2 DEF MoneyInv, MoneyIsAccounted, Accounted
<1>2. TypeInv /\ WorkInv /\ MoneyInv /\ [Next]_vars => MoneyInv'
  BY MoneyStep
<1>3. MoneyInv => MoneyIsAccounted
  BY DEF MoneyInv
<1> QED  BY <1>1, <1>2, <1>3, QueueInvariant, PTL DEF Spec
=============================================================================
