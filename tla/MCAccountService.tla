-------------------------- MODULE MCAccountService --------------------------
(* Instances of AccountService for TLC. *)
EXTENDS AccountServiceProperties, TLC

CONSTANTS a, b, ann, bob, k1, k2

MCOwner == (a :> ann) @@ (b :> bob)
MCOpening == (a :> 2) @@ (b :> 1)

\* Deposits and withdrawals against transfers in both directions.
MoneyCalls ==
  {Post(ann, "credit", a, 1), Post(ann, "debit", a, 2),
   Transfer(ann, a, b, 1, k1), Transfer(bob, b, a, 1, k2)}

\* The same without the deposit, with a transfer of nothing and one from
\* another's account.
AllCalls ==
  {Post(ann, "debit", a, 2), Transfer(ann, a, b, 1, k1), Transfer(bob, b, a, 1, k2),
   Transfer(ann, a, b, 0, k2), Transfer(bob, a, b, 1, k2)}

\* Status changes of b by its owner and by an administrator, against money
\* that arrives and leaves, and a withdrawal from another's account.
BookCalls ==
  {SetStatus(bob, b, "closed"), SetStatus(ann, b, "inactive"),
   SetStatus(ann, b, "active"), Post(bob, "credit", b, 1),
   Post(bob, "debit", b, 1), Post(bob, "debit", a, 1),
   Transfer(bob, b, a, 1, k1)}

RequestSymmetry == Permutations(Requests)
=============================================================================
