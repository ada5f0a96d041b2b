\* A relative symlink to ".." makes a resolver lock the parent while it
\* holds the child; against a resolver going down, the two wait on each
\* other.
CONSTANTS
  Callers <- MCCallers
  Inodes <- MCInodes
  Root = "r"
  NoInode = "none"
  Names <- MCNames
  Entries <- MCEntriesUp
  Kind <- MCKind
  Target <- MCTarget
  Absolute <- MCAbsolute
  Paths <- MCPathsUp
  MaxSymlinks = 2
SPECIFICATION Spec
INVARIANT NoWaitCycle
