SPECIFICATION KeySpec
CONSTANTS
  NbVarCnf = 16
  Problems <- MCProblems
  Orders <- MCOrders
  LimitNbVarSym = 3
  LimitNbVarIndex = 3
  MaxCalls = 1
INVARIANTS WritesInside
