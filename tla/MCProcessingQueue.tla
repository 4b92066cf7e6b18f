--------------------------- MODULE MCProcessingQueue ---------------------------
(* Instances of ProcessingQueue for TLC. *)
EXTENDS ProcessingQueueProperties, TLC

CONSTANTS i1, i2, t1, t2, acc

Symmetric == Permutations(Goroutines)

Item(t, operation, priority) ==
  [txn |-> t, operation |-> operation, priority |-> priority]
Row(type, before, after, first) ==
  [account |-> acc, type |-> type, before |-> before, after |-> after,
   firstWithReference |-> first]

\* A pending debit to be processed, a completed one to be reversed
Apart == (i1 :> Item(t1, "process", 100)) @@ (i2 :> Item(t2, "reverse", 200))
OwnReferences ==
  (t1 :> Row("debit", 2, 1, t1)) @@ (t2 :> Row("debit", 2, 1, t2))
\* The second under the reference of the first
SameReference ==
  (t1 :> Row("debit", 2, 1, t1)) @@ (t2 :> Row("debit", 2, 1, t1))
OneCompleted == (t1 :> "pending") @@ (t2 :> "completed")

Two == acc :> 2
=============================================================================
