SPECIFICATION Spec
CONSTANTS
  w1 = w1  w2 = w2  x1 = x1  x2 = x2  c1 = c1  c2 = c2  t1 = t1  t2 = t2  t3 = t3  t4 = t4  t5 = t5  s1 = s1
  Workers = {w1}
  Callers = {}
  SyncConnections = {c1}
  Transactions = {t1, t2}
  Statements = {s1}
  Size <- Sizes
  Nothing = Nothing
  ConnectionsBreak = FALSE
  FirstStart = FALSE
INVARIANT SavedAtShutdown
