--------------------------- MODULE MC_MaxSharpSAT ---------------------------
(***************************************************************************)
(* Instances of MaxSharpSAT for TLC.                                       *)
(***************************************************************************)
EXTENDS MaxSharpSAT

MCProblem(clauses, decision) ==
  [clauses |-> clauses, decision |-> decision, mode |-> "not-touched",
   largeArity |-> FALSE, maxCalls |-> 1]

(* Two components whatever the value of 1, each with a max variable.       *)
MCSplit == MCProblem({{1, 2, 4}, {-1, -2, 4}, {1, 3, 5}, {-1, -3, 5}}, {4, 5, 6})
MCLinked == MCProblem({{1, 2, 4}, {-1, -2, 4}, {2, 3, -4}}, {4, 5, 6})
MCUnit == MCProblem({{1}, {-1, 2, 3}, {-2, 4}}, {3, 4, 5, 6})
MCUnsat == MCProblem({{1, 2}, {-1, 2}, {1, -2}, {-1, -2}}, {4, 5, 6})
MCProblems == {MCSplit, MCLinked, MCUnit, MCUnsat}

MCTask(p, max, min, dig, greedyInit, threshold) ==
  [problem |-> p, max |-> max, min |-> min, digOnAnd |-> dig,
   greedyInit |-> greedyInit, threshold |-> threshold]
MCTasks ==
  {MCTask(MCSplit, {1, 2, 3}, FALSE, dig, FALSE, -1) : dig \in BOOLEAN}
    \cup {MCTask(MCSplit, {1, 2, 3}, FALSE, TRUE, FALSE, 4)}
    \cup {MCTask(p, {1, 2}, min, FALSE, FALSE, -1) :
            p \in {MCLinked, MCUnit, MCUnsat}, min \in BOOLEAN}
    \cup {MCTask(p, {1, 2}, FALSE, TRUE, TRUE, 2) : p \in {MCLinked, MCUnit}}
    \cup {MCTask(MCSplit, {1, 2, 3}, TRUE, FALSE, FALSE, -1)}

(* One literal, of a variable in no clause, weighs nothing. *)
MCWeight ==
  [l \in Lit |-> IF l = 1 THEN 2 ELSE IF l = -5 THEN 3 ELSE IF l = -6 THEN 0 ELSE 1]
=============================================================================
