CONSTANTS
  a = a
  b = b
  ann = ann
  bob = bob
  k1 = k1
  k2 = k2
  Accounts = {a, b}
  Users = {ann, bob}
  Admins = {ann}
  Owner <- MCOwner
  Keys = {k1, k2}
  NoKey = NoKey
  Nobody = Nobody
  Requests = {r1, r2}
  Operations <- MoneyCalls
  OpeningBalance <- MCOpening
  WritesBack = TRUE
  Faults = {}
SPECIFICATION Spec
PROPERTY NoLostUpdate
