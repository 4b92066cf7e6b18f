CONSTANTS
  ann = ann
  root = root
  eve = eve
  a1 = a1
  a2 = a2
  e1 = e1
  e2 = e2
  e3 = e3
  n1 = n1
  n2 = n2
  n3 = n3
  n4 = n4
  Users = {ann, root, eve}
  Admins = {root}
  Emails = {e1, e2, e3}
  Numbers = {n1, n2, n3, n4}
  Requests = {r1, r2}
  Calls <- MCCalls
  FirstUsers <- MCUsers
  FirstAccounts <- MCAccounts
  Schemas <- MCSchemas
  Deposits <- MCDeposits
  Balances = {0, 1}
  Faults = {}
SPECIFICATION Spec
SYMMETRY RequestSymmetry
INVARIANT NoMoneyIsDeleted
