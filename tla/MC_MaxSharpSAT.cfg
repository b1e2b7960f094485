SPECIFICATION MaxSpec
CONSTANTS
  NbVar = 6
  Problems <- MCProblems
  Weight <- MCWeight
  LimitClause = 3
  Assumptions = {}
  Tasks <- MCTasks
INVARIANTS MaxTypeOK MaxExact BoundSound
