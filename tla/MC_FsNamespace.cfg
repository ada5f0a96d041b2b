\* Two concurrent callers running any of the namespace operations on a
\* small volume: the namespace stays connected, directories are never
\* hard-linked, no call leaks a lock, and no call waits on itself.
CONSTANTS
  Callers = {c1, c2}
  Inodes <- MCInodes
  Root = "r"
  NoInode = "none"
  Names <- MCNames
  NameOrder <- MCNameOrder
  InitKind <- MCInitKind
  InitEnt <- MCInitEnt
  NewIds <- MCNewIdsSafety
  Denied = {}
  Streams = {"s"}
  Ops <- MCOps
SPECIFICATION Spec
INVARIANT TypeOK
INVARIANT NamespaceConnected
INVARIANT NoLeakedLocks
INVARIANT NoWaitCycle
SYMMETRY CallerSymmetry
PROPERTY NoChangeAfterDestroy
