-------------------------- MODULE MCLedgerReports --------------------------
(* An instance of LedgerReports for TLC. *)
EXTENDS LedgerReportsProperties, TLC

CONSTANTS ann, eve, root, a, b, r1, r2, home

MCOwner == (a :> ann) @@ (b :> root)
MCBalance == (a :> 4) @@ (b :> 0)
MCLog == (ann :> <<3, 2, 1>>) @@ (eve :> <<>>) @@ (root :> <<1>>)

Entry(x, at, type, amount, before, status) ==
  [account |-> x, at |-> at, type |-> type, amount |-> amount, before |-> before,
   after |-> CalculateNewBalance(before, type, amount), status |-> status,
   kept |-> at, by |-> "first"]
MCLedger == <<Entry(a, 2, "credit", 5, 0, "completed"), Entry(b, 2, "debit", 2, 2, "completed"),
              Entry(a, 12, "debit", 1, 5, "pending")>>

Ask(kind, u, x) ==
  [kind |-> kind, user |-> u, account |-> x, target |-> u, flaw |-> "none",
   type |-> "any", from |-> NoDate, to |-> NoDate, number |-> 1, span |-> 0, row |-> 0]
Refused(kind, flaw) == [Ask(kind, ann, a) EXCEPT !.flaw = flaw]
Month1(u) == [Ask("statement", u, a) EXCEPT !.type = "monthly"]
Month2(u) == [Month1(u) EXCEPT !.number = 2]
TestData(u, count) == [Ask("testData", u, a) EXCEPT !.number = count, !.span = 1]

ReportCalls ==
  {Month2(ann), Ask("metrics", ann, a),
   [Ask("summary", root, a) EXCEPT !.target = ann],
   [Ask("transactions", ann, a) EXCEPT !.row = 1, !.number = 5],
   [Ask("transaction", ann, a) EXCEPT !.row = 4], TestData(ann, 1)}
\* Calls whose answer does not depend on what other requests do.
Settled ==
  {Ask(kind, ann, a) : kind \in {k \in Kinds \ {"router"} : FirstStatement(k) = "service"}}
  \union UNION {{Refused(kind, flaw) : flaw \in DOMAIN Handlers[kind] \intersect Flaws} : kind \in Kinds}
  \union {[Ask("activity", root, a) EXCEPT !.target = ann, !.span = 1],
          [Ask("myActivity", ann, a) EXCEPT !.number = 2],
          [Month1(ann) EXCEPT !.type = "quarterly"], [Month1(ann) EXCEPT !.number = 13],
          [Ask("metrics", ann, a) EXCEPT !.from = 12, !.to = 12],
          [Ask("metrics", ann, a) EXCEPT !.from = 12, !.to = 18],
          [Ask("transactions", ann, a) EXCEPT !.type = "debit", !.from = 12, !.to = 12],
          Month1(eve), Month1(root), Ask("metrics", eve, a), [Ask("summary", eve, a) EXCEPT !.target = ann],
          Ask("transactions", eve, a), [Ask("transaction", ann, a) EXCEPT !.row = 2],
          Ask("summary", ann, a), Ask("transactions", ann, a), Ask("clear", ann, a), Ask("clear", eve, a)}
MCEarly == (r1 :> Settled) @@ (r2 :> {})
MCCalls == (r1 :> ReportCalls) @@ (r2 :> {Month1(ann), TestData(ann, 2)})

\* Those are served before anything else happens; and as requests that only
\* read do not see each other, two are served side by side only if one writes
\* or both are statements.
Busy(r) == pc[r] # "idle"
Reduced ==
  /\ \A r \in Requests : Busy(r) /\ call[r] \notin Calls[r] =>
       now = FirstInstant /\ events = 0 /\ \A q \in Requests \ {r} : ~Busy(q)
  /\ \A r, q \in Requests : r # q /\ Busy(r) /\ Busy(q) =>
       "testData" \in {K(r), K(q)} \/ {K(r), K(q)} = {"statement"}

=============================================================================
