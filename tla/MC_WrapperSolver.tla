-------------------------- MODULE MC_WrapperSolver --------------------------
EXTENDS WrapperSolver

(* Two components and a clause to learn; a unit clause; a long clause to     *)
(* learn, which reduceDB may remove; no model, found when the clauses are    *)
(* added or by search.                                                       *)
MCProblems ==
  { [clauses |-> << {1, 2, 3}, {-1, -2}, {2, -3}, {3, 4} >>, maxCalls |-> 5],
    [clauses |-> << {4}, {-4, 1, 2}, {1, -2}, {-1, 3, 2} >>, maxCalls |-> 3],
    [clauses |-> << {1, 3, 4}, {2, 3, -4} >>, maxCalls |-> 1],
    [clauses |-> << {-1, 2}, {-1, -2}, {1} >>, maxCalls |-> 4],
    [clauses |-> << {1, 2}, {1, -2}, {-1, 2}, {-1, -2} >>, maxCalls |-> 4] }

MCInputs ==
  { [clauses |-> p.clauses, maxCalls |-> p.maxCalls, core |-> core] :
      p \in MCProblems, core \in {"glucose", "minisat"} }

MCQueries == { << 1, -3 >> }

MCCountCalls == { [assums |-> << 3 >>, vars |-> {1, 2, 4}] }
=============================================================================
