\* Every tree over eight nodes, three markers, two prefixes, maxEntries 1..4.
CONSTANTS
  Nodes <- MCNodes
  MarkerSet <- MCMarkers
  PrefixSet <- MCPrefixes
  MaxEntries = 4
SPECIFICATION Spec
INVARIANT ListingIsReference
