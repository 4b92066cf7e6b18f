--------------------------- MODULE LedgerReports ---------------------------
(***************************************************************************)
(* What clients read of the ledger while other requests write it:          *)
(* statement_service.go, account_metrics_service.go,                       *)
(* account_summary_service.go, the transaction and activity listings and   *)
(* the test data of dev_handler.go, over the rate limiter, the handlers'   *)
(* answers (RequestPipeline) and the generator (HistoryGenerator).         *)
(*                                                                         *)
(* One action is one SQL statement or one reading of the clock, with the   *)
(* Go code up to the next.  A call to a handler whose service is modelled  *)
(* in AccountService, CustomerAccounts or AuthSessions is one step here,   *)
(* which may return any error that handler tells apart.                    *)
(***************************************************************************)
EXTENDS RequestPipeline, HistoryGenerator

CONSTANTS
  Users, Admins,
  Accounts, Owner,     \* Owner[a]: the user_id of account a
  Requests,            \* handler goroutines, each serving one call after another
  Calls,               \* Calls[r]: the calls goroutine r may be given
  EarlyCalls,          \* EarlyCalls[r]: calls r may only be given at first; a bound
  Instants,            \* the values of time.Now
  FirstInstant,
  Second, Month,       \* in units of time; all months are as long
  DefaultPageLimit,
  MaxTestRows, MaxTestDays,
  ActivityLog,         \* ActivityLog[u]: the audit rows of u, newest first
  MaxActivity, DefaultActivity,
  FirstLedger, FirstBalance,
  Deletable,           \* users and accounts that may be deleted meanwhile
  MaxEvents,           \* bounds the writes of other requests and test data
  Faults               \* {"error"}: any statement may fail; {}: none does

NoDate == -1
NoRow == [at |-> NoDate]
LedgerRow ==
  [account : Accounts, at : Nat, type : {"credit", "debit"}, amount : Nat,
   before : Int, after : Int, status : {"pending", "completed"},
   kept : Nat,                               \* history: when it was committed
   by : {"first", "posting"} \union Requests] \* history: who inserted it

AccountReports == {"statement", "metrics"}
OwnAccount == {"transactions", "transaction", "testData", "clear"}
Kinds == AccountReports \union OwnAccount \union
  {"summary", "activity", "myActivity", "accounts", "account", "accountsOf",
   "allAccounts", "users", "user", "health", "post", "transfer", "transfers",
   "status", "close", "router"}

\* What a handler itself refuses; of a path or body before it looks anything
\* up, of these after it has authorized the account.
LateFlaws == {"badFilter", "badPage", "badCursor", "badTransactionId"}
Flaws == LateFlaws \union
  {"nobody", "badId", "badBody", "badAmount", "badKey", "badDate", "badPeriod",
   "invalid", "noRoute", "wrongMethod"}

\* flaw: or "none"; type: of a period, or of the rows listed; number, span: period, count and days, limit and offset;
\* row: the cursor or the transaction asked for.
Call == [kind : Kinds, user : Users, account : Accounts, target : Users,
         flaw : Flaws \union {"none"}, type : {"any", "credit", "debit", "monthly", "quarterly"},
         from : Int, to : Int, number : Int, span : Int, row : Nat]

\* Every row is the movement between its balances, and the clock is past the
\* days test data may go back.
ASSUME ReportsAssumption ==
  /\ Admins \subseteq Users /\ Owner \in [Accounts -> Users]
  /\ FirstInstant \in Instants /\ Instants \subseteq Nat
  /\ MaxTestRows \in Nat \ {0} /\ MaxTestDays \in Nat \ {0}
  /\ \A t \in Instants : t >= MaxTestDays * Day
  /\ Month \in Nat /\ Month % Day = 0 /\ Second \in 1..Hour
  /\ DefaultPageLimit \in Nat /\ MaxEvents \in Nat
  /\ \A r \in Requests :
       /\ Calls[r] # {}
       /\ Calls[r] \subseteq Call /\ EarlyCalls[r] \subseteq Call
  /\ FirstBalance \in [Accounts -> Nat] /\ FirstLedger \in Seq(LedgerRow)
  /\ \A i \in DOMAIN FirstLedger :
       LET row == FirstLedger[i]
       IN row.after = CalculateNewBalance(row.before, row.type, row.amount)
  /\ Faults \subseteq {"error"}

VARIABLES
  now,
  deleted,  \* users and accounts with a deleted_at
  balance,  \* accounts.balance
  ledger,   \* table transactions, in the order of insertion
  posting,  \* the row of a transaction that has not committed, or NoRow
  events,   \* counts the writes bounded by MaxEvents
  pc,       \* pc[r]: the next statement of goroutine r
  call,     \* call[r]: what it was asked last
  view,     \* view[r]: rows it has read, each with the status it had
  metrics,  \* metrics[r]: the rows its metrics count, or NoMetrics
  history,  \* history[r]: generated rows not inserted yet
  out       \* out[r]: the response

locals == <<call, view, metrics, history, out>>
tables == <<now, deleted, balance, ledger, posting>>
vars == <<limiter, tables, events, pc, locals>>

NoMetrics == {0}
NoCall(r) == CHOOSE c \in Calls[r] : TRUE
K(r) == call[r].kind
A(r) == call[r].account
U(r) == call[r].user

-----------------------------------------------------------------------------
(* Pure parts: periods, pages, sums *)

CalculateDateRange(type, period) ==
  LET months == IF type = "monthly" THEN 1 ELSE 3
      start == (period - 1) * months * Month
  IN [from |-> start, to |-> start + months * Month - Second]

ValidatePeriod(type, period) == period \in 1..(IF type = "monthly" THEN 12 ELSE 4)

\* Slip: a period may end later.
AnyPeriod(to) == TRUE
ValidateNotFuture(to) == to <= now

\* Metrics without dates cover the DefaultMetricsPeriodDays before now.
DefaultMetricsPeriodDays == 14
EffectiveEnd(c) == IF c.to = NoDate THEN now ELSE c.to
EffectiveStart(c) ==
  IF c.from = NoDate THEN EffectiveEnd(c) - DefaultMetricsPeriodDays * Day ELSE c.from

\* Rows that agree in created_at come in either order.
Before(i, j, latest) ==
  \/ ledger[i].at > ledger[j].at
  \/ ledger[i].at = ledger[j].at /\ IF latest THEN i > j ELSE i < j
NewestFirst(ids, latest) ==
  [n \in 1..Cardinality(ids) |->
     CHOOSE i \in ids : Cardinality({j \in ids : Before(j, i, latest)}) = n - 1]
Read(ids) ==
  {[i \in DOMAIN s |-> [id |-> s[i], status |-> ledger[s[i]].status]] :
     s \in {NewestFirst(ids, latest) : latest \in BOOLEAN}}
Ids(rows) == {rows[i].id : i \in DOMAIN rows}
Completed(rows) == {rows[i].id : i \in {j \in DOMAIN rows : rows[j].status = "completed"}}

\* BETWEEN includes both ends.
GetByDateRange(a, range) ==
  Read({i \in DOMAIN ledger :
          ledger[i].account = a /\ ledger[i].at \in range.from..range.to})

\* The cursor's time replaces the start date, so the page holds the rows from
\* that time on; the fetch limit is the default's, whatever limit is asked.
GetWithFilters(c) ==
  LET from == IF c.row # 0 THEN ledger[c.row].at ELSE c.from
      ids == {i \in DOMAIN ledger :
                /\ ledger[i].account = c.account
                /\ c.type \in {"any", ledger[i].type}
                /\ ledger[i].at >= from
                /\ c.to = NoDate \/ ledger[i].at <= c.to + Day - Second}
  IN {SubSeq(rows, 1, AtMost(Len(rows), DefaultPageLimit + 1)) : rows \in Read(ids)}
Page(c, rows) ==
  LET rest == IF rows # <<>> /\ rows[1].id = c.row THEN Tail(rows) ELSE rows
  IN SubSeq(rest, 1, AtMost(Len(rest), c.number))

\* The service takes (offset, limit), the handlers pass (limit, offset).
ActivityPage(u, limit, offset) ==
  LET size == IF offset \notin 1..MaxActivity THEN DefaultActivity ELSE offset
  IN SubSeq(ActivityLog[u], limit + 1, AtMost(limit + size, Len(ActivityLog[u])))

SumOf(rows, type) ==
  MapThenSumSet(LAMBDA i : ledger[i].amount,
                {i \in Completed(rows) : ledger[i].type = type})
CalculateBalances(rows, current) ==
  IF rows = <<>> THEN [opening |-> current, closing |-> current]
  ELSE [opening |-> ledger[rows[1].id].before,
        closing |-> ledger[rows[Len(rows)].id].after]
CalculateSummary(rows) ==
  [deposits |-> SumOf(rows, "credit"), withdrawals |-> SumOf(rows, "debit"),
   netChange |-> SumOf(rows, "credit") - SumOf(rows, "debit")]

-----------------------------------------------------------------------------
(* Answers *)

Handlers ==
  [statement |-> GetStatementHandler, metrics |-> GetAccountMetricsHandler,
   summary |-> GetAccountSummaryHandler, transactions |-> ListTransactionsHandler,
   transaction |-> GetTransactionHandler, testData |-> GenerateTestDataHandler,
   clear |-> ClearTestDataHandler, activity |-> GetCustomerActivityHandler,
   myActivity |-> GetMyActivityHandler, accounts |-> GetUserAccounts,
   account |-> GetAccountByIDAdmin, accountsOf |-> GetUserAccountsAdmin,
   allAccounts |-> GetAllAccounts, users |-> ListUsers, user |-> GetUserByID,
   health |-> HealthCheck, post |-> PerformTransaction, transfer |-> Transfer,
   transfers |-> GetTransferHistory, status |-> UpdateAccountStatus,
   close |-> CloseAccount, router |-> EchoRouter]

\* What a service modelled elsewhere may return to its handler.
Outcomes(kind) ==
  (DOMAIN Handlers[kind] \ Flaws) \union {"other", "panic"}

Init ==
  /\ LimiterInit
  /\ now = FirstInstant /\ deleted = {} /\ balance = FirstBalance
  /\ ledger = FirstLedger /\ posting = NoRow /\ events = 0
  /\ pc = [r \in Requests |-> "idle"]
  /\ call = [r \in Requests |-> NoCall(r)]
  /\ view = [r \in Requests |-> <<>>]
  /\ metrics = [r \in Requests |-> NoMetrics]
  /\ history = [r \in Requests |-> <<>>]
  /\ out = [r \in Requests |-> Unanswered]

Go(r, statement) == pc' = [pc EXCEPT ![r] = statement]
Send(r, writes) ==
  /\ Go(r, "done")
  /\ out' = [out EXCEPT ![r] = Response(writes)]
Fail(r, err) == Send(r, Writes(Handlers[K(r)], err)) /\ UNCHANGED <<view, metrics, history>>
Show(r, rows) ==
  /\ view' = [view EXCEPT ![r] = rows]
  /\ Send(r, Succeed)
  /\ UNCHANGED <<metrics, history>>
Then(r, statement) == Go(r, statement) /\ UNCHANGED <<view, metrics, history, out>>
\* A statement that may also fail.
Statement(r, name, Does) ==
  /\ pc[r] = name
  /\ Does \/ ("error" \in Faults /\ Fail(r, "other"))
  /\ UNCHANGED <<limiter, tables, events, call>>

-----------------------------------------------------------------------------
(* The call arrives: the rate limiter, the handler's own checks, and those  *)
(* of the services that come before their first statement.                  *)

\* What is wrong with the dates of the call, or "none".
PeriodError(c) ==
  IF c.kind # "statement" THEN "none"
  ELSE IF ~ValidatePeriod(c.type, c.number) THEN "invalidPeriod"
  ELSE IF ~ValidateNotFuture(CalculateDateRange(c.type, c.number).to) THEN "futurePeriod"
  ELSE "none"
ValidateAndNormalizeDateRange(c) ==
  IF c.kind # "metrics" THEN "none"
  ELSE IF EffectiveEnd(c) > now THEN "futureDate"
  ELSE IF EffectiveStart(c) >= EffectiveEnd(c) THEN "invalidDateRange"
  ELSE "none"
Refusal(c) ==
  IF c.flaw \notin LateFlaws \union {"none"} THEN c.flaw
  ELSE IF PeriodError(c) # "none" THEN PeriodError(c)
  ELSE ValidateAndNormalizeDateRange(c)

FirstStatement(kind) ==
  CASE kind \in {"statement", "summary"} -> "findUser"
    [] kind = "metrics" -> "metricsUser"
    [] kind \in OwnAccount -> "findAccount"
    [] kind \in {"activity", "myActivity"} -> "findActivity"
    [] OTHER -> "service"

CallsNow(r) ==
  Calls[r] \union IF now = FirstInstant /\ events = 0 THEN EarlyCalls[r] ELSE {}

Start(r, c, ip) ==
  /\ pc[r] = "idle"
  /\ call' = [call EXCEPT ![r] = IF c.kind # "metrics" THEN c
                                 ELSE [c EXCEPT !.from = EffectiveStart(c),
                                                !.to = EffectiveEnd(c)]]
  /\ \/ Deny(ip) /\ Send(r, SendError("SystemRateLimitExceeded")) /\ UNCHANGED events
     \/ /\ Allow(ip)
        /\ c.kind = "testData" => events < MaxEvents
        /\ events' = IF c.kind = "testData" THEN events + 1 ELSE events
        /\ IF Refusal(c) # "none" THEN Send(r, Writes(Handlers[c.kind], Refusal(c)))
           ELSE Go(r, FirstStatement(c.kind)) /\ UNCHANGED out
  /\ UNCHANGED <<tables, view, metrics, history>>

\* The response is sent, the goroutine takes another call.
Finish(r) ==
  /\ pc[r] = "done"
  /\ Go(r, "idle")
  /\ call' = [call EXCEPT ![r] = NoCall(r)]
  /\ view' = [view EXCEPT ![r] = <<>>]
  /\ metrics' = [metrics EXCEPT ![r] = NoMetrics]
  /\ out' = [out EXCEPT ![r] = Unanswered]
  /\ UNCHANGED <<limiter, tables, events, history>>

CallService(r) ==
  Statement(r, "service", \E err \in Outcomes(K(r)) : Fail(r, err))

-----------------------------------------------------------------------------
(* Statements, summaries and metrics *)

\* validateRequestor
FindUser(r) ==
  Statement(r, "findUser",
    IF U(r) \in deleted THEN Fail(r, "notFound")
    ELSE IF K(r) = "statement" THEN Then(r, "findAccount")
    ELSE IF call[r].target = U(r) THEN Then(r, "findAccounts")
    ELSE IF U(r) \notin Admins THEN Fail(r, "unauthorized")
    ELSE Then(r, "findTarget"))

\* validateTargetUser, fetchUserAccounts
FindTarget(r) ==
  Statement(r, "findTarget",
    IF call[r].target \in deleted THEN Fail(r, "notFound") ELSE Then(r, "findAccounts"))
FindAccounts(r) == Statement(r, "findAccounts", Fail(r, "ok"))

\* getAndAuthorizeAccount of both services, by the error it returns or
\* "none": a missing account is not the error the handler knows.
GetAndAuthorizeAccount(r) ==
  CASE A(r) \in deleted -> "other"
    [] A(r) \notin deleted /\ Owner[A(r)] # U(r) /\ U(r) \notin Admins -> "unauthorized"
    [] OTHER -> "none"

Period(r) == IF K(r) = "statement" THEN CalculateDateRange(call[r].type, call[r].number)
             ELSE [from |-> call[r].from, to |-> call[r].to]
ReadRows(r) ==
  Statement(r, "readRows",
    \E rows \in GetByDateRange(A(r), Period(r)) :
      /\ view' = [view EXCEPT ![r] = rows]
      /\ Go(r, "metricsUser")
      /\ UNCHANGED <<metrics, history, out>>)

\* GetAccountMetrics looks everything up again.  A statement is sent without
\* metrics when that fails.
MetricsError(r, err) == IF K(r) = "statement" THEN Fail(r, "ok") ELSE Fail(r, err)
MetricsStatement(r, name, Does) ==
  /\ pc[r] = name
  /\ Does \/ ("error" \in Faults /\ MetricsError(r, "other"))
  /\ UNCHANGED <<limiter, tables, events, call>>
MetricsUser(r) ==
  MetricsStatement(r, "metricsUser",
    IF U(r) \in deleted THEN MetricsError(r, "notFound") ELSE Then(r, "metricsAccount"))
MetricsAccount(r) ==
  MetricsStatement(r, "metricsAccount",
    IF GetAndAuthorizeAccount(r) = "none" THEN Then(r, "metricsRows")
    ELSE MetricsError(r, GetAndAuthorizeAccount(r)))
CalculateAccountMetrics(rows) == Completed(rows)
MetricsRows(r) ==
  MetricsStatement(r, "metricsRows",
    \E rows \in GetByDateRange(A(r), Period(r)) :
      /\ metrics' = [metrics EXCEPT ![r] = CalculateAccountMetrics(rows)]
      /\ Send(r, Succeed)
      /\ UNCHANGED <<view, history>>)

-----------------------------------------------------------------------------
(* The listings and the test data *)

FindActivity(r) ==
  Statement(r, "findActivity",
    Show(r, ActivityPage(IF K(r) = "activity" THEN call[r].target ELSE U(r),
                         call[r].number, call[r].span)))

\* The test data follow the balance read with the account.  No rows: the
\* generator has panicked.
GenerateTestData(r) ==
  LET count == AtLeast(1, AtMost(call[r].number, MaxTestRows))
      days == AtLeast(1, AtMost(call[r].span, MaxTestDays))
      histories ==
        GenerateHistoricalTransactions(now - days * Day, now, balance[A(r)], count)
  IN \/ histories = {} /\ Fail(r, "panic")
     \/ \E h \in histories :
          /\ history' = [history EXCEPT ![r] = h]
          /\ Go(r, "insert")
          /\ UNCHANGED <<view, metrics, out>>

\* The account of a statement, and of the handlers that only serve its owner.
FindAccount(r) ==
  Statement(r, "findAccount",
    IF K(r) = "statement"
    THEN IF GetAndAuthorizeAccount(r) = "none" THEN Then(r, "readRows")
         ELSE Fail(r, GetAndAuthorizeAccount(r))
    ELSE IF A(r) \in deleted THEN Fail(r, "accountNotFound")
    ELSE IF Owner[A(r)] # U(r) THEN Fail(r, "unauthorized")
    ELSE IF call[r].flaw \in LateFlaws THEN Fail(r, call[r].flaw)
    ELSE IF K(r) = "clear" THEN Fail(r, "ok")
    ELSE IF K(r) = "testData" THEN GenerateTestData(r)
    ELSE Then(r, K(r)))

\* A row that cannot be inserted is skipped.
InsertTestData(r) ==
  LET next == Head(history[r])
      row == [account |-> A(r), at |-> next.at, type |-> next.type,
              amount |-> next.amount, before |-> next.before, after |-> next.after,
              status |-> "completed", kept |-> now, by |-> r]
  IN /\ pc[r] = "insert"
     /\ \/ /\ ledger' = Append(ledger, row)
           /\ view' = [view EXCEPT ![r] =
                         Append(@, [id |-> Len(ledger) + 1, status |-> "completed"])]
        \/ "error" \in Faults /\ UNCHANGED <<ledger, view>>
     /\ history' = [history EXCEPT ![r] = Tail(@)]
     /\ IF Len(history[r]) = 1 THEN Send(r, Succeed) ELSE UNCHANGED <<pc, out>>
     /\ UNCHANGED <<limiter, now, deleted, balance, posting, events, call, metrics>>

ListTransactions(r) ==
  Statement(r, "transactions",
    \E rows \in GetWithFilters(call[r]) : Show(r, Page(call[r], rows)))
GetTransaction(r) ==
  LET id == call[r].row
  IN Statement(r, "transaction",
       IF id \notin DOMAIN ledger THEN Fail(r, "transactionNotFound")
       ELSE IF ledger[id].account # A(r) THEN Fail(r, "otherAccount")
       ELSE Show(r, <<[id |-> id, status |-> ledger[id].status]>>))

-----------------------------------------------------------------------------
(* The rest of the program *)

Advance ==
  /\ \E t \in Instants : t > now /\ now' = t
  /\ UNCHANGED <<limiter, deleted, balance, ledger, posting, events, pc, locals>>

\* The debit of ExecuteAtomicTransfer: its row gets its created_at before the
\* transaction commits.
Post ==
  /\ posting = NoRow /\ events < MaxEvents
  /\ \E a \in Accounts \ deleted, amount \in Amounts :
       /\ balance[a] >= amount
       /\ posting' = [account |-> a, at |-> now, type |-> "debit", amount |-> amount,
                      before |-> balance[a], after |-> balance[a] - amount]
  /\ events' = events + 1
  /\ UNCHANGED <<limiter, now, deleted, balance, ledger, pc, locals>>
Commit ==
  /\ posting # NoRow
  /\ ledger' = Append(ledger,
       [account |-> posting.account, at |-> posting.at, type |-> posting.type,
        amount |-> posting.amount, before |-> posting.before, after |-> posting.after,
        status |-> "completed", kept |-> now, by |-> "posting"])
  /\ balance' = [balance EXCEPT ![posting.account] = posting.after]
  /\ posting' = NoRow
  /\ UNCHANGED <<limiter, now, deleted, events, pc, locals>>

\* processTransaction of the queue completes a pending row, where its update
\* succeeds.  A row it fails is counted by no report, like one left pending.
Settle ==
  /\ \E i \in DOMAIN ledger :
       ledger[i].status = "pending" /\ ledger' = [ledger EXCEPT ![i].status = "completed"]
  /\ events < MaxEvents /\ events' = events + 1
  /\ UNCHANGED <<limiter, now, deleted, balance, posting, pc, locals>>

Delete ==
  /\ \E x \in Deletable \ deleted : deleted' = deleted \union {x}
  /\ events < MaxEvents /\ events' = events + 1
  /\ UNCHANGED <<limiter, now, balance, ledger, posting, pc, locals>>

\* A tick or a cleanup between two calls; no other statement sees the limiter.
LimiterStep ==
  /\ \A r \in Requests : pc[r] = "idle"
  /\ PassTick \/ Forget
  /\ UNCHANGED <<tables, events, pc, locals>>

Step(r) ==
  \/ \E c \in CallsNow(r), ip \in Addresses : Start(r, c, ip)
  \/ CallService(r)
  \/ FindUser(r) \/ FindTarget(r) \/ FindAccounts(r) \/ FindAccount(r)
  \/ ReadRows(r) \/ MetricsUser(r) \/ MetricsAccount(r) \/ MetricsRows(r)
  \/ FindActivity(r) \/ ListTransactions(r) \/ GetTransaction(r)
  \/ InsertTestData(r)
  \/ Finish(r)
Next ==
  \/ \E r \in Requests : Step(r)
  \/ Advance \/ Post \/ Commit \/ Settle \/ Delete
  \/ LimiterStep
Spec == Init /\ [][Next]_vars
=============================================================================
