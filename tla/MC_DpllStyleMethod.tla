------------------------ MODULE MC_DpllStyleMethod ------------------------
(***************************************************************************)
(* Instances of DpllStyleMethod and DecisionDNNF for TLC.                  *)
(***************************************************************************)
EXTENDS DecisionDNNF

Problem(clauses, decision, mode, largeArity, maxCalls) ==
  [clauses |-> clauses, decision |-> decision, mode |-> mode,
   largeArity |-> largeArity, maxCalls |-> maxCalls]

(* They split under some decisions; the last one has no model. *)
MCFormulas ==
  { {{1, 2, 3}, {-1, 4}, {-2, -4, 3}},
    {{1, 2}, {3, 4}, {-1, -3, 2}},
    {{1, 2}, {-1, 2}, {1, -2}, {-1, -2}} }
(* The same component comes back under several assignments. *)
MCReuse == {{1, 2, 3}, {-1, 2, 3}, {1, -2}, {2, 4}}
MCProjected == { {{1, 2, 3}, {1, 2, -3}, {-1, 2, 3}}, {{1, 3, 4}, {2, -3, -4}} }
MCLarge == { {{1, 2, 3}, {-1, 4}, {-2, -4, 3}}, {{1, 2, 3, 4}, {-1, -2, -3}} }

(* Compiled: components that come back or split, a list of literals to      *)
(* branch on, and projected problems, two of them with Skolem assignments.  *)
MCSkolemized ==
  {Problem(f, {1, 3}, "not-touched", FALSE, 1) :
     f \in {{{1, 2, 4}, {-1, -2}, {3, -4}}, {{1, 2, 4}, {-1, -2, -4}, {3, 2}}}}
MCCompiled ==
  MCSkolemized
    \cup {Problem(f, Var, "all", FALSE, 1) :
            f \in {{{1, 2, 3}, {-1, 2, 3}}, {{1, 2}, {3, 4}},
                   {{1, 2}, {-1, 4}, {-4, 3}}, {{1}, {-1}}}}
    \cup {Problem({{1, 2, 3}, {-1, -2, 3}}, Var, "not-touched", FALSE, 1),
          Problem({{1, 2, 3}, {-1, -2, 4}}, Var, "all", TRUE, 1),
          Problem({{1, 2, 4}, {3, -2, -4}, {-1, 2}}, {1, 3}, "not-touched", FALSE, 1)}
MCQueries == {{}, {-3}, {2}, {-1, 3}}

MCProblems ==
  MCCompiled
    \cup {Problem(f, Var, "not-touched", FALSE, 1) : f \in MCFormulas}
    \cup {Problem(f, {1, 2}, "not-touched", FALSE, 2) : f \in MCProjected}
    \cup {Problem(f, d, "not-touched", TRUE, 1) : f \in MCLarge, d \in {Var, {1, 2}}}
    \cup {Problem(MCReuse, Var, "all", FALSE, 2)}

MCNotBinary == {Problem(f, Var, "not-binary", FALSE, 1) : f \in MCFormulas}

MCAssumptions == {{}, {1}, {-1}, {4}, {-2}}
MCWeight == [l \in Lit |-> IF l = 1 THEN 2 ELSE IF l = -3 THEN 3 ELSE 1]
===========================================================================
