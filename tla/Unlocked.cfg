CONSTANTS
  a = a
  b = b
  ann = ann
  bob = bob
  k1 = k1
  k2 = k2
  Accounts = {a, b}
  Users = {ann, bob}
  Admins = {ann}
  Owner <- MCOwner
  Keys = {k1, k2}
  NoKey = NoKey
  Nobody = Nobody
  Requests = {r1, r2, r3}
  Operations <- AllCalls
  OpeningBalance <- MCOpening
  WritesBack = FALSE
  Faults = {"crash", "error", "ackLost"}
SPECIFICATION Spec
SYMMETRY RequestSymmetry
INVARIANTS KeyMovesOnce CompletedMeansMoved ReplyIsTrue AuditIsTrue BooksExplained
PROPERTY MovesMoney
