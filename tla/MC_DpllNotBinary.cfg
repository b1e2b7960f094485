SPECIFICATION DnnfSpec
CONSTANTS
  NbVar = 4
  Problems <- MCNotBinary
  Weight <- MCWeight
  LimitClause = 3
  Assumptions <- MCAssumptions
  Compiled = {}
  Skolemized = {}
  Queries = {}
  MaxQueries = 0
INVARIANT CountExact
