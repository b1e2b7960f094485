SPECIFICATION SolverSpec
CONSTANTS
  NbVar = 7
  Inputs <- MCInputs
  Queries = {}
  CountCalls <- MCCountCalls
  MaxRestart = 1
INVARIANT AnswerTrusted
CONSTRAINT OnTheWay
