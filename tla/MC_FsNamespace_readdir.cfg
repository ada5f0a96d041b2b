\* Readdir of a directory racing Unlink of its entry in the parent.
CONSTANTS
  Callers <- MCCallers
  Inodes <- MCInodes
  Root = "r"
  NoInode = "none"
  Names <- MCNames
  NameOrder <- MCNameOrder
  InitKind <- MCInitKind
  InitEnt <- MCInitEnt
  NewIds <- MCNewIds
  Denied = {}
  Streams = {"s"}
  Ops <- MCOpsReaddirUnlink
SPECIFICATION Spec
INVARIANT NoWaitCycle
