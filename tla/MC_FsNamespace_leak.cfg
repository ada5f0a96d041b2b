\* Rmdir of b racing a Rename into b: the Rename meets a destroyed directory.
CONSTANTS
  Callers <- MCCallers
  Inodes <- MCInodes
  Root = "r"
  NoInode = "none"
  Names <- MCNames
  NameOrder <- MCNameOrder
  InitKind <- MCInitKind
  InitEnt <- MCInitEnt
  NewIds <- MCNewIds
  Denied = {}
  Streams = {"s"}
  Ops <- MCOpsRmdirRename
SPECIFICATION Spec
INVARIANT NoLeakedLocks
