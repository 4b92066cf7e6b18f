------------------------- MODULE MCCustomerAccounts -------------------------
(* An instance of CustomerAccounts for TLC. *)
EXTENDS CustomerAccountsProperties, TLC

CONSTANTS ann, root, eve, a1, a2, e1, e2, e3, n1, n2, n3, n4

Row(state, email) == [state |-> state, email |-> email, name |-> "old"]
MCUsers == (ann :> Row("live", e1)) @@ (root :> Row("live", e2)) @@ (eve :> Row("absent", e3))

\* ann has money in an inactive account; an account of root was deleted
MCAccounts ==
  (a1 :> [NewAccount(ann, "CHECKING", n1, "given", 1) EXCEPT !.status = "inactive"])
  @@ (a2 :> [NewAccount(root, "CHECKING", n2, "given", 0) EXCEPT !.deleted = TRUE])

\* AutoMigrate; the migrations up to 14; the types migration 15 means to admit
MCSchemas == {[types |-> Types, routingUnique |-> TRUE],
              [types |-> {}, routingUnique |-> FALSE],
              [types |-> {"CHECKING", "SAVINGS"}, routingUnique |-> FALSE]}

Ask(kind, u) == [kind |-> kind, user |-> u, to |-> root, email |-> e1, account |-> a1,
                 type |-> "CHECKING", number |-> n4, fields |-> "name"]
MCCalls ==
  {Ask(k, ann) : k \in Kinds \ {"createCustomer", "newAccounts"}}
  \union {[Ask("createCustomer", eve) EXCEPT !.email = e3], [Ask("updateProfile", ann) EXCEPT !.fields = "contact"],
          [Ask("updateEmail", ann) EXCEPT !.email = e3],
          [Ask("createFor", ann) EXCEPT !.type = "other"],
          [Ask("open", ann) EXCEPT !.type = "MONEY_MARKET"],
          [Ask("transfer", ann) EXCEPT !.to = ann],
          Ask("updateProfile", eve), Ask("newAccounts", root), Ask("transfer", root), Ask("account", root),
          [Ask("account", ann) EXCEPT !.account = a2]}

MCDeposits == {-1, 1}
RequestSymmetry == Permutations(Requests)
=============================================================================
