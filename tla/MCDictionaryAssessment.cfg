SPECIFICATION Spec
CONSTANTS
  Procs <- MCProcs
  Sets = {1, 2, 3, 4}
  UserSets = {1, 2, 3}
  Accounts = {"p1", "p2", "p3", "users", "import"}
  AccountOf <- MCAccountOf
  Limit <- MCLimit
  Programs <- MCPrograms
  Bytes = 3
  LeaseBytes = 1
  MaxBorrowers = 2
  NoSet = NoSet
  NoProc = NoProc
  ImportAccount = "import"
CHECK_DEADLOCK FALSE
INVARIANTS
  AccountsExact
  ReadersKeepData
  CallsLeaveCacheOnly
PROPERTIES
  EveryCallReturns
