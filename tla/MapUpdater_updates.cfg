SPECIFICATION FairSpec
CONSTANTS
  m1 = m1  m2 = m2  m3 = m3  m4 = m4
  w1 = w1  w2 = w2  w3 = w3
  Maps = {m1, m2, m3, m4}
  Workers = {w1, w2, w3}
  NoRequest = NoRequest
INVARIANT TypeOK
INVARIANT Barrier
INVARIANT OneUpdater
INVARIANT NullNotCalled
PROPERTY ImplementsTick
PROPERTY UpdateEnds
PROPERTY DeactivateEnds
