SPECIFICATION FairSpec
CONSTANTS
  ann = ann  bob = bob  gm = gm
  a1 = a1  a2 = a2  b1 = b1  g1 = g1
  c1 = c1  c2 = c2  c3 = c3
  NoSession = NoSession
  NoChar = NoChar
  Accounts = {ann, bob, gm}
  Sessions = {a1, b1}
  Chars = {}
  AccountOf <- AccountOfInstance
  OwnerOf <- OwnerOfInstance
  SkipQueue = {gm}
  Limits = {1, 2}
  InitialLimit = 1
  Tolerance = 1
  ExpireTicks = 1
  MaxAttempts = 2
  LateFailure = FALSE
  MaxTime = 1
  MaxLogins = 2
INVARIANT QueueCanMove
PROPERTY AdmittedIsTold
