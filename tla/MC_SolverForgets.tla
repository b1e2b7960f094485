-------------------------- MODULE MC_SolverForgets --------------------------
EXTENDS WrapperSolver

(* Under 1 and 2 the literal 3 is false, which takes a learnt clause to see, *)
(* and 4 is then true, which takes another search to see.                    *)
MCInputs ==
  { [clauses |-> << {3, 4, 5}, {3, 4, -5}, {-1, -2, -3, 6, 7}, {-1, -2, -3, 6, -7},
                    {-1, -2, -3, -6, 7}, {-1, -2, -3, -6, -7} >>,
     maxCalls |-> 4, core |-> "glucose"] }

MCCountCalls == { [assums |-> << 1, 2 >>, vars |-> 3 .. 7] }

(* The part of the behaviours looked at: up to the last call the search      *)
(* decides on the first variable left, with a phase that finds a model, and  *)
(* does not restart; then count branches on -4.                              *)
Decisions == {x \in DOMAIN trail : trail[x].why = {} /\ trail[x].level > 0}
OnTheWay ==
  /\ calls < 4 =>
       /\ \A x, y \in Decisions : x < y => VarOf(trail[x].lit) < VarOf(trail[y].lit)
       /\ \A x \in Decisions :
            trail[x].lit \in (IF calls < 3 THEN {1, -2, 3, 4, 5, 6, 7} ELSE 1 .. 7)
       /\ restarts = 0
  /\ Len(frames) <= 2
  /\ Len(frames) = 2 => -4 \in ToSet(pending) \cup ToSet(assumption)

(***************************************************************************)
(* What the comment on WrapperGlucose::solve says it returns: true if the  *)
(* problem is satisfiable under the assumptions, and false otherwise.      *)
(***************************************************************************)
AnswerTrusted == pc = "answered" => (answer <=> Satisfiable(assumption))
=============================================================================
