\* Every call but Rename returns, each caller step weakly fair.
CONSTANTS
  Callers <- MCCallers
  Inodes <- MCInodes
  Root = "r"
  NoInode = "none"
  Names <- MCNames
  NameOrder <- MCNameOrder
  InitKind <- MCInitKind
  InitEnt <- MCInitEnt
  NewIds <- MCNewIds
  Denied = {}
  Streams = {"s"}
  Ops <- MCOpsLive
SPECIFICATION FairSpec
PROPERTY OpCompletes
