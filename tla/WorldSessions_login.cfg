SPECIFICATION FairSpec
CONSTANTS
  ann = ann  bob = bob  gm = gm
  a1 = a1  a2 = a2  b1 = b1  g1 = g1
  c1 = c1  c2 = c2  c3 = c3
  NoSession = NoSession
  NoChar = NoChar
  Accounts = {ann, bob, gm}
  Sessions = {a1, a2}
  Chars = {c1, c2, c3}
  AccountOf <- AccountOfInstance
  OwnerOf <- OwnerOfInstance
  SkipQueue = {gm}
  Limits = {}
  InitialLimit = 0
  Tolerance = 0
  ExpireTicks = 2
  MaxAttempts = 2
  LateFailure = FALSE
  MaxTime = 0
  MaxLogins = 2
INVARIANT OneOnlineCharacter
INVARIANT ShutdownUnloadsPlayers
PROPERTY LostSessionIsRemoved
