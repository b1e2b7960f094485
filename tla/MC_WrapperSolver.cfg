SPECIFICATION SolverSpec
CONSTANTS
  NbVar = 4
  Inputs <- MCInputs
  Queries <- MCQueries
  CountCalls <- MCCountCalls
  MaxRestart = 1
INVARIANTS SolverTypeOK AnswerRight UnitsRight PushSafe
PROPERTY SolveReturns
