SPECIFICATION CcSpec
CONSTANTS
  NbVar = 4
  NbClause = 3
  MaxCalls = 2
INVARIANTS CcTypeOK ComponentsExact
PROPERTIES Returns
CHECK_DEADLOCK FALSE
