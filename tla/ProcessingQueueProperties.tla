----------------------- MODULE ProcessingQueueProperties -----------------------
(***************************************************************************)
(* What ProcessingQueue should satisfy, for any number of workers, under   *)
(* every fault and whether or not an update passes its hook.               *)
(* ProcessedOnce, NewBalanceIsLogged, RetriesWithinLimit and               *)
(* GivenUpIsFailed say what the repository says, and do not hold.          *)
(***************************************************************************)
EXTENDS ProcessingQueue

ItemRow == [status : {"absent", "pending", "completed", "failed", "deleted"},
            retries : Nat, due : BOOLEAN]
TxnRecord == [status : TxnStatuses, version : Nat]
Steps == {"idle", "spawned", "admit", "success", "failure"} \union
         DOMAIN AfterError

\* Types of the tables, of the breaker and of the goroutines' locals; no
\* balance is negative.
TypeOK ==
  /\ BreakerTypeOK
  /\ queue \in [Items -> ItemRow]
  /\ txns \in [Txns -> TxnRecord]
  /\ balance \in [Accounts -> Nat]
  /\ service \in {"running", "stopping", "stopped"}
  /\ pc \in [Goroutines -> Steps]
  /\ job \in [Goroutines -> [item : Items \union {"none"}, tries : Nat]]
  /\ copy \in [Goroutines -> TxnRecord]
  /\ stored \in [Goroutines -> Nat]
  /\ faults \in 0 .. MaxFaults
  /\ moves \in [Txns -> [process : Nat, reverse : Nat]]
  /\ unsaved \in [Txns -> [process : Nat, reverse : Nat]]
  /\ attempts \in [Items -> Nat]

-----------------------------------------------------------------------------
(* Items and transactions *)

\* Transaction.CanTransitionTo
CanTransitionTo ==
  {<<"pending", "completed">>, <<"pending", "failed">>,
   <<"completed", "reversed">>}

\* The status of a transaction changes as CanTransitionTo allows, which the
\* service never asks: with several workers only the version it compares
\* stands in the way of one that read the row long ago.  A transaction whose
\* reference is a duplicate is set to failed from any status, a completed or
\* reversed one too, which CanTransitionTo forbids (handleDuplicateReference).
StatusFollowsTable ==
  [][\A t \in Txns :
       \/ txns'[t].status = txns[t].status
       \/ <<txns[t].status, txns'[t].status>> \in CanTransitionTo
       \/ TxnRow[t].firstWithReference # t /\ txns'[t].status = "failed"]_vars

\* A completed item has had its effect on the transaction, whatever fails,
\* is fetched twice or crashes around it, and nothing takes it back but a
\* reversal.
CompletedItemIsDone ==
  \A i \in Items : queue[i].status = "completed" =>
    txns[Work[i].txn].status \in
      IF Work[i].operation = "process" THEN {"completed", "reversed"}
      ELSE {"reversed"}

\* The status of t shows that an operation has taken effect.
Shown(t, operation) ==
  IF operation = "process"
  THEN FirstStatus[t] = "pending" /\ txns[t].status \in {"completed", "reversed"}
  ELSE FirstStatus[t] # "reversed" /\ txns[t].status = "reversed"

\* Money is accounted for: an operation has moved money once if the status
\* shows it, once for every worker about to save that status, and once for
\* every save that failed, met another version or was cut off.  It is these
\* last that an attempt repeats (the balance commits before the status).
MoneyIsAccounted ==
  \A t \in Txns, o \in {"process", "reverse"} :
    moves[t][o] = (IF Shown(t, o) THEN 1 ELSE 0)
                    + Cardinality(Saving(t, o)) + unsaved[t][o]

\* A transaction moves money once, however many workers there are.
ProcessedOnce ==
  \A t \in Txns, o \in {"process", "reverse"} : moves[t][o] <= 1

\* What LogBalanceUpdate records as the new balance is the balance.
NewBalanceIsLogged ==
  [][\A g \in Goroutines : pc[g] = "balance" /\ pc'[g] = "save" =>
       balance'[TxnRow[Txn(g)].account] = AmountPassed(Txn(g), Op(g))]_vars

-----------------------------------------------------------------------------
(* Retries *)

\* An item is given up only after max_retries of its attempts have failed,
\* or because its reference is a duplicate: workers that write back an old
\* retry_count lose retries, they never invent one.
GivesUpLate ==
  \A i \in Items : queue[i].status = "failed" =>
    \/ attempts[i] >= MaxRetries
    \/ TxnRow[Work[i].txn].firstWithReference # Work[i].txn

\* No item is retried more often than max_retries.
RetriesWithinLimit == \A i \in Items : queue[i].retries <= MaxRetries

\* When the service gives an item up, the transaction is no longer pending.
GivenUpIsFailed ==
  \A i \in Items : queue[i].status = "failed" => txns[Work[i].txn].status # "pending"

-----------------------------------------------------------------------------
(* Progress *)

\* While the service runs, every item leaves the queue for good: retries come
\* to an end, although stale workers may put a settled item back, and although
\* the breaker may turn workers away.
Settled ==
  \A i \in Items :
    <>(service # "running") \/ <>[](queue[i].status # "pending")

\* Once cancelled, the service stops (or crashes and is started again): no
\* goroutine waits for ever.
ShutdownCompletes == service = "stopping" ~> service # "stopping"
=============================================================================
