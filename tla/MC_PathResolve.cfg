\* Two concurrent resolvers over the namespace without "..", under weak
\* fairness of their steps: the result, the locks held at every step, the
\* absence of wait cycles, and that every resolution returns.
CONSTANTS
  Callers <- MCCallers
  Inodes <- MCInodes
  Root = "r"
  NoInode = "none"
  Names <- MCNames
  Entries <- MCEntries
  Kind <- MCKind
  Target <- MCTarget
  Absolute <- MCAbsolute
  Paths <- MCPaths
  MaxSymlinks = 2
SPECIFICATION FairSpec
INVARIANT TypeOK
INVARIANT ResolvesCorrectly
INVARIANT NoLeakedLocks
INVARIANT NoWaitCycle
PROPERTY ResolveCompletes
