---------------------------- MODULE MoneyMovement ----------------------------
(***************************************************************************)
(* What the account service keeps about money although its SELECTs take no *)
(* lock: an account never holds anything but what some call read in it,    *)
(* changed by that call's own movement; a movement takes place at one      *)
(* instant and at most once, a transfer debits and credits together, an    *)
(* idempotency key moves money at most once, and nothing is overdrawn.     *)
(* What it does not keep is that the balance read is still the balance     *)
(* when it is replaced.                                                    *)
(***************************************************************************)
EXTENDS Integers

CONSTANTS Accounts, Requests, Operations, NoOperation, Unread, OpeningBalance

VARIABLES
  balance,  \* balance[a]: what account a holds
  effect,   \* effect[r]: the call request r has carried out, if any
  read      \* read[r][a]: the balance of a that r is about to replace

\* What call o does to the balance of account a
Delta(o, a) ==
  CASE o.kind = "transfer" /\ a = o.from -> -o.amount
    [] o.kind = "transfer" /\ a = o.to -> o.amount
    [] o.kind = "debit" /\ a = o.from -> -o.amount
    [] o.kind = "credit" /\ a = o.from -> o.amount
    [] OTHER -> 0

\* The accounts whose balance call o replaces
Touched(o) == {o.from} \union (IF o.kind = "transfer" THEN {o.to} ELSE {})

SpendsKey(o, k) == o.kind = "transfer" /\ o.key = k

Nothing == [a \in Accounts |-> Unread]

Init ==
  /\ balance = OpeningBalance
  /\ effect = [r \in Requests |-> NoOperation]
  /\ read = [r \in Requests |-> Nothing]

Read(r, a) ==
  /\ read' = [read EXCEPT ![r][a] = balance[a]]
  /\ UNCHANGED <<balance, effect>>

\* Requests that are refused, fail or die write nothing.
Forget(R) ==
  /\ read' = [r \in Requests |-> IF r \in R THEN Nothing ELSE read[r]]
  /\ UNCHANGED <<balance, effect>>

\* The accounts in A take the values r read there, changed by call o.
Write(r, A, o) ==
  /\ \A a \in A : read[r][a] # Unread /\ read[r][a] + Delta(o, a) >= 0
  /\ balance' = [a \in Accounts |->
                   IF a \in A THEN read[r][a] + Delta(o, a) ELSE balance[a]]
  /\ read' = [read EXCEPT ![r] = Nothing]

Move(r, o) ==
  /\ o.kind # "status"
  /\ effect[r] = NoOperation
  /\ o.kind = "transfer" =>
       \A q \in Requests : ~SpendsKey(effect[q], o.key)
  /\ Write(r, Touched(o), o)
  /\ effect' = [effect EXCEPT ![r] = o]

\* A status call saves the balance it read with the new status.
Restore(r, o) ==
  /\ o.kind = "status"
  /\ effect[r] = NoOperation
  /\ Write(r, Touched(o), o)
  /\ UNCHANGED effect

Next ==
  \/ \E r \in Requests, a \in Accounts : Read(r, a)
  \/ \E R \in SUBSET Requests : Forget(R)
  \/ \E r \in Requests, o \in Operations : Move(r, o) \/ Restore(r, o)

Spec == Init /\ [][Next]_<<balance, effect, read>>

=============================================================================
