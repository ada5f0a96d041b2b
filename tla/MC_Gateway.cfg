\* An object PUT over an existing object: the old file is unlinked, and
\* Destroy is called on the shadowed obstacleInodeNumber, 0, instead.
CONSTANTS
  Callers <- MCCallers
  Inodes <- MCInodes
  Root = "r"
  NoInode = "none"
  Names <- MCNames
  NameOrder <- MCNameOrder
  InitKind <- MCInitKind
  InitEnt <- MCInitEnt
  NewIds <- MCNewIds
  Denied = {}
  Streams = {"s", "m"}
  MiddlewareStream = "m"
  Target <- MCTarget
  Absolute = {}
  Ops <- MCOpsPut
INIT GwInit
NEXT GwNext
INVARIANT NamespaceConnected
