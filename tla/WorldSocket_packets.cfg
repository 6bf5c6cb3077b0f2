SPECIFICATION FairSpec
CONSTANTS
  Threads = {network, world_, map}
  Consumer = network
  World = world_
  Nodes = {1, 2, 3}
  Dummy = dummy
  NoNode = null
  Large = {2}
  BufferSize = 2
  MaxReads = 3
  MaxBlocks = 1
CHECK_DEADLOCK FALSE
INVARIANTS
  TypeOK
  WireInOrder
  UsesLiveSession
PROPERTIES
  ImplementsQueue
  PacketsWritten
  ClosesAfterWriting
