CONSTANTS
  ann = ann
  eve = eve
  root = root
  a = a
  b = b
  r1 = r1
  r2 = r2
  home = home
  Addresses = {home}
  Rate = 1
  Burst = 2
  IdleLimit = 2
  Hour = 2
  HoursInDay = 3
  BusinessHours = {2}
  Minutes = {0}
  Threshold = 1
  Amounts = {1}
  Incomes = {2}
  Users = {ann, eve, root}
  Admins = {root}
  Accounts = {a, b}
  Owner <- MCOwner
  Requests = {r1, r2}
  Calls <- MCCalls
  EarlyCalls <- MCEarly
  Instants = {13, 23}
  FirstInstant = 13
  Second = 2
  Month = 12
  DefaultPageLimit = 2
  MaxTestRows = 3
  MaxTestDays = 1
  ActivityLog <- MCLog
  MaxActivity = 3
  DefaultActivity = 2
  FirstLedger <- MCLedger
  FirstBalance <- MCBalance
  Deletable = {ann, a}
  MaxEvents = 2
  Faults = {"error"}
SPECIFICATION Spec
CONSTRAINT Reduced
INVARIANTS TypeOK WithinRate AnswersAreTrue HistoryIsKept
