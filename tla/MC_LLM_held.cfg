\* isLockHeld against what the caller really holds: one lock id, two callers.
CONSTANTS
  t1 = t1
  t2 = t2
  t3 = t3
  lockA = lockA
  lockB = lockB
  k1 = k1
  k2 = k2
  k3 = k3
  NoTrack = NoTrack
  NoThread = NoThread
  Threads <- MCTwoThreads
  Locks <- MCOneLock
  TrackIds <- MCTwoTrackIds
  MaxOwnerList = 3

SPECIFICATION Spec
INVARIANT IsLockHeldAccurate
