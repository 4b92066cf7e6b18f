CONSTANTS
  ann = ann
  root = root
  eve = eve
  s1 = s1
  s0 = s0
  right = right
  other = other
  weak = weak
  temp = temp
  Emails = {ann, root, eve}
  Admins = {root}
  Requests = {r1, r2, r3}
  Sessions = {s1, s0}
  HolderOf <- MCHolder
  Passwords = {right, other, weak, temp}
  WeakPasswords = {weak}
  Temporary = temp
  Calls <- MCCalls
  FirstRows <- MCRows
  Perishable <- MCPerishable
  Faults = {"error"}
SPECIFICATION Spec
SYMMETRY RequestSymmetry
INVARIANTS TypeOK LockMatchesCounter SignedOutIsOut RepliesAndAuditAgree
PROPERTIES LockLiftedOnlyBy
