\* Pages of two files or three entries, directories one level deep, one answer lost;
\* the second directory may fail to open.
SPECIFICATION Spec
CONSTANTS
  Names <- MCNames
  Paths <- MCPaths
  Flaky <- MCFlaky
  MaxEntries = 3
  MaxFiles = 2
  MaxDepth = 3
  MaxLost = 1
INVARIANTS TypeOK CursorAccepted
PROPERTIES KeepsPromise ListingEnds
CHECK_DEADLOCK FALSE
