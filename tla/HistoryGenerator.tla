-------------------------- MODULE HistoryGenerator --------------------------
(***************************************************************************)
(* internal/services/transaction_generator.go: the histories that          *)
(* GenerateHistoricalTransactions may return.  Every draw of the random    *)
(* generator is a choice, so a function of the code is a set here, empty   *)
(* when the function panics.  Time is counted in units of which an hour    *)
(* has Hour; merchants, descriptions and categories are left out.          *)
(***************************************************************************)
EXTENDS Integers, SequencesExt

CONSTANTS
  Hour,           \* units in an hour
  HoursInDay,
  BusinessHours,  \* businessHoursStart .. businessHoursEnd - 1
  Minutes,        \* what the minutes and seconds drawn add to the hour
  Threshold,      \* minBalanceThreshold
  Amounts,        \* what GenerateAmount and GenerateFeeAmount may return
  Incomes         \* what GenerateAmount may return for CategoryIncome

ASSUME GeneratorAssumption ==
  /\ Hour \in Nat \ {0} /\ HoursInDay \in Nat \ {0}
  /\ BusinessHours \subseteq 0..(HoursInDay - 1)
  /\ Minutes \subseteq 0..(Hour - 1)
  /\ Threshold \in Nat /\ Amounts \subseteq Nat \ {0} /\ Incomes \subseteq Nat \ {0}

Day == Hour * HoursInDay
DayOf(t) == t - (t % Day)

\* rng.Int63n panics unless the end is after the start.  The hour is then
\* replaced, so the result is on the day drawn but may lie outside the range.
GenerateTimestamp(start, end) ==
  {DayOf(t) + hour * Hour + rest :
     t \in start..(end - 1), hour \in BusinessHours, rest \in Minutes}

GenerateBoundedTimestamp(current, end) ==
  GenerateTimestamp(current, IF current + Day > end THEN end ELSE current + Day)

\* 60% debits, 35% credits, 5% fees, which are debits too
GenerateTransactionType == {"debit", "credit"}

CalculateNewBalance(balance, type, amount) ==
  IF type = "credit" THEN balance + amount ELSE balance - amount

\* A debit that would leave less than the threshold becomes a deposit.
AdjustTransactionForBalance(balance, type, amount) ==
  IF type = "credit" \/ balance - amount >= Threshold
  THEN {[type |-> type, amount |-> amount]}
  ELSE {[type |-> "credit", amount |-> income] : income \in Incomes}

CreateHistoricalTransaction(current, end, balance) ==
  {[at |-> t, type |-> m.type, amount |-> m.amount] :
     t \in GenerateBoundedTimestamp(current, end),
     m \in UNION {AdjustTransactionForBalance(balance, type, amount) :
                    type \in GenerateTransactionType, amount \in Amounts}}

\* Whole hours between two rows, at least one.
HoursPerTransaction(start, end, count) ==
  LET hours == ((end - start) \div Hour) \div count
  IN IF hours < 1 THEN 1 ELSE hours

AdvanceDate(current, start, end, generated, hours) ==
  IF current > end THEN start + generated * Hour ELSE current + hours * Hour

\* batch[n]: the first n rows, with the date and balance they lead to.
NextRow(b, generated, start, end, hours) ==
  LET date == AdvanceDate(b.date, start, end, generated, hours)
  IN {[rows |-> Append(b.rows, row), date |-> date,
       balance |-> CalculateNewBalance(b.balance, row.type, row.amount)] :
        row \in CreateHistoricalTransaction(date, end, b.balance)}
Batches(start, end, balance, count) ==
  LET hours == HoursPerTransaction(start, end, count)
      batch[n \in 0..count] ==
        IF n = 0 THEN {[rows |-> <<>>, date |-> start, balance |-> balance]}
        ELSE UNION {NextRow(b, n - 1, start, end, hours) : b \in batch[n - 1]}
  IN batch
GenerateTransactionBatch(start, end, balance, count) ==
  {b.rows : b \in Batches(start, end, balance, count)[count]}

\* Slip: the rows keep the order they were drawn in.
KeepDrawnOrder(rows) == {rows}
\* Two loops exchange rows that are out of order, which is not stable: the
\* rows come in order of date, those of one date in any order.
SortTransactionsByDate(rows) ==
  LET n == DOMAIN rows
  IN {[i \in n |-> rows[p[i]]] :
        p \in {q \in Bijection(n, n) :
                \A i, j \in n : i < j => rows[q[i]].at <= rows[q[j]].at}}

\* Balances from the first row on; a debit below the threshold is turned
\* into a refund of its amount.
RecalculatedType(before, row) ==
  IF row.type = "debit" /\ before - row.amount < Threshold THEN "credit" ELSE row.type
BalancesAfter(rows, balance) ==
  LET after[i \in 0..Len(rows)] ==
        IF i = 0 THEN balance
        ELSE CalculateNewBalance(after[i - 1], RecalculatedType(after[i - 1], rows[i]),
                                 rows[i].amount)
  IN after
RecalculateBalances(rows, balance) ==
  LET after == BalancesAfter(rows, balance)
  IN [i \in DOMAIN rows |->
        [at |-> rows[i].at, type |-> RecalculatedType(after[i - 1], rows[i]),
         amount |-> rows[i].amount, before |-> after[i - 1], after |-> after[i]]]

GenerateHistoricalTransactions(start, end, balance, count) ==
  IF count = 0 THEN {<<>>}
  ELSE {RecalculateBalances(sorted, balance) :
          sorted \in UNION {SortTransactionsByDate(rows) :
                              rows \in GenerateTransactionBatch(start, end, balance, count)}}
=============================================================================
