\* The lock table walked by one caller at a time: up to three locks.
CONSTANTS
  c1 = c1
  c2 = c2
  p1 = p1
  p2 = p2
  e1 = e1
  e2 = e2
  e3 = e3
  e4 = e4
  NoElem = NoElem
  Callers <- MCOneCaller
  Pids <- MCPids
  Starts <- MCStarts
  Lens <- MCLens
  W = 3
  ElemIds <- MCElemIds3
SPECIFICATION Spec
INVARIANT TypeOK
INVARIANT NoConflictingLocks
INVARIANT SortedByStart
INVARIANT GrantRecorded
