SPECIFICATION DnnfSpec
CONSTANTS
  NbVar = 4
  Problems <- MCProblems
  Weight <- MCWeight
  LimitClause = 3
  Assumptions <- MCAssumptions
  Compiled <- MCCompiled
  Skolemized <- MCSkolemized
  Queries <- MCQueries
  MaxQueries = 2
INVARIANTS DpllTypeOK CountExact HitExact InStep Descends QueryExact SkolemExact
