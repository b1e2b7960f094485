---------------------------- MODULE MC_BucketKey ----------------------------
(***************************************************************************)
(* Instances of BucketKey for TLC.                                         *)
(***************************************************************************)
EXTENDS BucketKey, TLC

(* Literals from signed variables. *)
Clause(c) == {IF x > 0 THEN 2 * x ELSE 1 - 2 * x : x \in c}
Formula(cs) == [idx \in DOMAIN cs |-> Clause(cs[idx])]

(* Residual clauses come out equal once 3 is false or 2 is true. *)
MCEqual == 0 :> {1, 2, 3} @@ 1 :> {1, 2, -4} @@ 2 :> {-1, -2, 3}
             @@ 256 :> {-1, 4, 8} @@ 257 :> {1, 4, -8}
(* The last variables 7, 8, 9 and 16: as a list and as an array of bits. *)
MCWide == 0 :> {1, 2, 8} @@ 1 :> {1, -7, 8} @@ 2 :> {2, 7, -16}
             @@ 256 :> {-1, 2, 16} @@ 257 :> {7, 8}

MCProblem(f, m, r) == [clauses |-> Formula(f), mode |-> m, representation |-> r]
MCProblems ==
  {MCProblem(f, "not-touched", "clause") : f \in {MCEqual, MCWide}}
    \cup {MCProblem(MCWide, "all", r) : r \in {"clause", "sym", "index"}}
    \cup {MCProblem(MCEqual, "all", r) : r \in {"sym", "combi"}}
MCOrders == {<< 0, 1, 2, 256, 257 >>, << 257, 2, 0, 256, 1 >>}
=============================================================================
