SPECIFICATION AllocSpec
CONSTANTS
  SizeFirstPage = 5
  SizeAdditionalPage = 4
  MaxRequest = 3
  MaxPages = 2
  Bases <- MCBases
INVARIANTS AllocTypeOK NoOverlap InsidePages LastListUsed
 CountersExact
