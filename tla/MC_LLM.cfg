\* Safety of the local lock manager: one lock id, two track addresses, three callers.
CONSTANTS
  t1 = t1
  t2 = t2
  t3 = t3
  lockA = lockA
  lockB = lockB
  k1 = k1
  k2 = k2
  k3 = k3
  NoTrack = NoTrack
  NoThread = NoThread
  Threads <- MCThreads
  Locks <- MCOneLock
  TrackIds <- MCTwoTrackIds
  MaxOwnerList = 3
SYMMETRY Symmetry
SPECIFICATION Spec
INVARIANT TypeOK
INVARIANT TrackMatchesHolders
INVARIANT NoPanic
INVARIANT TryNeverBlocks
PROPERTY GrantsInFifoOrder
PROPERTY RWLockRefined
