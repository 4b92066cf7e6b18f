---------------------- MODULE CustomerAccountsProperties ----------------------
(* What CustomerAccounts should satisfy. *)
EXTENDS CustomerAccounts

(* Uniqueness is looked up in one statement and relied on in a later one,  *)
(* and the lookups skip deleted rows; still no two users share an e-mail   *)
(* and no two accounts a number, deleted or not.                           *)
KeysAreUnique ==
  /\ \A u, v \in {w \in Users : users[w].state # "absent"} :
       users[u].email = users[v].email => u = v
  /\ \A a, b \in DOMAIN accounts : accounts[a].number = accounts[b].number => a = b

(* The values of the variables, keys included. *)
TypeOK ==
  /\ KeysAreUnique
  /\ schema \in Schemas
  /\ users \in [Users -> UserRow]
  /\ DOMAIN accounts \subseteq AccountIds
  /\ \A a \in DOMAIN accounts : accounts[a] \in AccountRow
  /\ call \in [Requests -> Call]
  /\ number \in [Requests -> Numbers]
  /\ deposit \in [Requests -> Int]
  /\ reply \in [Requests -> Codes \union {"none", "ok"}]

(* A live account of a deleted customer: the deletion has not reached the  *)
(* accounts yet or failed before it did (a retry is told the customer does *)
(* not exist); the account was inserted after the customer went, by a      *)
(* request that had found the customer; or AccountService saved a row it   *)
(* had read before the deletion.  No other account escapes, whatever is    *)
(* opened, posted, activated or closed before or during the deletion.      *)
OrphansExplained ==
  \A a \in LiveAccounts : users[accounts[a].owner].state = "deleted" =>
    \/ a \in late \union restored
    \/ \E r \in Requests : /\ call[r].kind = "delete" /\ U(r) = accounts[a].owner
                           /\ \/ pc[r] = "deleteAccounts"
                              \/ reply[r] = "SystemInternalError"

(* No active account is deleted with money in it unless the money came, or *)
(* the account was activated or opened, while its owner was being deleted. *)
(* (Of an account deleted before the requests arrive nothing is said.)     *)
MoneyLostOnlyByRace ==
  \A a \in DOMAIN accounts \ DeletedBefore : accounts[a].deleted =>
    accounts[a].balance = 0 \/ accounts[a].status # "active" \/ a \in raced

(* What a caller is told is so: a customer reported missing or deleted is  *)
(* gone or never was, a created account exists and belongs to its          *)
(* customer, a new user told nothing of a failure has both accounts, a     *)
(* refused opening left none, and nobody but its owner or an admin is      *)
(* shown an account.                                                       *)
RepliesAreTrue ==
  \A r \in Requests :
    LET kind == call[r].kind
        mine == {a \in DOMAIN accounts \ DOMAIN FirstAccounts : a[1] = r}
    IN /\ kind = "delete" /\ reply[r] = "ok" => users[U(r)].state = "deleted"
       /\ reply[r] = "CustomerNotFound" /\ kind # "transfer" => ~Live(U(r))
       /\ kind \in {"open", "createFor"} =>
            /\ reply[r] = "ok" => \E a \in mine : accounts[a].owner = U(r)
            /\ reply[r] \notin {"none", "ok"} => mine = {}
       /\ kind = "newAccounts" /\ reply[r] = "ok" => Cardinality(mine) = 2
       /\ kind = "account" =>
            \A a \in shown[r] : accounts[a].owner = U(r) \/ U(r) \in Admins

(* "Cannot delete customers with non-zero account balances" (the route's   *)
(* description): money is deleted with an account only when it came while  *)
(* the deletion was under way.                                             *)
NoMoneyIsDeleted ==
  \A a \in DOMAIN accounts : accounts[a].deleted => accounts[a].balance = 0 \/ a \in raced
=============================================================================
