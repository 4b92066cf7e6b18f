---------------------- MODULE LedgerReportsProperties ----------------------
(* What is true of the answers LedgerReports gives. *)
EXTENDS LedgerReports

(* The values of the variables, and of what is sent. *)
TypeOK ==
  /\ LimiterTypeOK
  /\ now \in Instants /\ deleted \subseteq Deletable /\ events \in 0..MaxEvents
  /\ balance \in [Accounts -> Nat]
  /\ \A i \in DOMAIN ledger : ledger[i] \in LedgerRow
  /\ \A r \in Requests :
       /\ call[r].kind \in Kinds
       /\ K(r) \notin {"activity", "myActivity"} => Ids(view[r]) \subseteq DOMAIN ledger
       /\ out[r].status \in {0, 200, 400, 401, 403, 404, 405, 409, 422, 429, 500, 503}

Answered(r) == pc[r] = "done" /\ out[r].status = 200
Statements == {r \in Requests : K(r) = "statement" /\ Answered(r)}
InPeriod(r, i) == ledger[i].account = A(r) /\ ledger[i].at \in Period(r).from..Period(r).to

\* A statement shows rows of its period only, and misses only rows committed
\* no earlier than the period's end: a posting stamped in the period but
\* committed later, or test data.  No other request has to wait for it.
StatementComplete ==
  \A r \in Statements :
    /\ \A i \in Ids(view[r]) : InPeriod(r, i)
    /\ \A i \in DOMAIN ledger :
         InPeriod(r, i) => i \in Ids(view[r]) \/ ledger[i].kept >= Period(r).to

\* The rows counted by the metrics of a statement and not by its summary were
\* shown as pending, or committed in between, when the period had ended.
SummaryMatchesMetrics ==
  \A r \in Statements : metrics[r] # NoMetrics =>
    /\ Completed(view[r]) \subseteq metrics[r]
    /\ \A i \in metrics[r] \ Completed(view[r]) :
         i \in Ids(view[r]) \/ ledger[i].kept >= Period(r).to

\* Two months share no row; a statement of one row adds up.
StatementsDisjoint ==
  \A r, q \in Statements :
    call[r].type = call[q].type /\ call[r].number # call[q].number =>
      Ids(view[r]) \intersect Ids(view[q]) = {}
OneRowAddsUp ==
  \A r \in Statements :
    Len(view[r]) = 1 /\ Completed(view[r]) # {} =>
      LET b0 == CalculateBalances(view[r], 0)
      IN b0.closing - b0.opening = CalculateSummary(view[r]).netChange

\* Only owners are served, and admins what the reports give them; an account
\* is said not to be found only if it, or a user involved, was deleted.
OwnersOnly ==
  \A r \in Requests : Answered(r) =>
    /\ K(r) \in OwnAccount => Owner[A(r)] = U(r)
    /\ K(r) \in AccountReports => Owner[A(r)] = U(r) \/ U(r) \in Admins
    /\ K(r) \in {"transactions", "transaction"} =>
         \A i \in Ids(view[r]) : ledger[i].account = A(r)
NotFoundIsTrue ==
  \A r \in Requests : pc[r] = "done" /\ out[r].bodies = <<"AccountNotFound">> =>
    /\ K(r) \in OwnAccount => A(r) \in deleted
    /\ K(r) \in AccountReports \union {"summary"} => {U(r), call[r].target} \intersect deleted # {}

(* What the reports of the ledger say is true although other requests      *)
(* write while several statements collect one answer.                      *)
AnswersAreTrue ==
  /\ StatementComplete /\ SummaryMatchesMetrics
  /\ StatementsDisjoint /\ OneRowAddsUp
  /\ OwnersOnly /\ NotFoundIsTrue

(* Test data are a history: in the order inserted the rows are in order of *)
(* date, each is the movement between its balances, a debit leaves the     *)
(* threshold, and unless an insert failed every row goes on where the one  *)
(* before it ended.                                                        *)
HistoryIsKept ==
  \A r \in Requests : K(r) = "testData" /\ Answered(r) =>
    LET row == [i \in DOMAIN view[r] |-> ledger[view[r][i].id]]
    IN \A i \in DOMAIN row :
         /\ row[i].by = r
         /\ row[i].after = CalculateNewBalance(row[i].before, row[i].type, row[i].amount)
         /\ row[i].type = "debit" => row[i].after >= Threshold
         /\ i > 1 => /\ row[i - 1].at <= row[i].at
                     /\ Len(row) = call[r].number => row[i - 1].after = row[i].before
=============================================================================
