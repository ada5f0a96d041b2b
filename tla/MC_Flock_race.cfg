\* Two concurrent Flock calls on one inode walking the same list.
CONSTANTS
  c1 = c1
  c2 = c2
  p1 = p1
  p2 = p2
  e1 = e1
  e2 = e2
  e3 = e3
  e4 = e4
  NoElem = NoElem
  Callers <- MCTwoCallers
  Pids <- MCPids
  Starts <- MCStarts
  Lens <- MCLens
  W = 3
  ElemIds <- MCElemIds4
SPECIFICATION Spec
INVARIANT NoConflictingLocks
