---------------------------- MODULE ResidualGraph ----------------------------
(***************************************************************************)
(* The residual formula as the component searches of CnfManager see it:    *)
(* the clauses that are not satisfied, each as the set of its variables    *)
(* without a value.  CnfManagerDyn shows that the occurrence lists give    *)
(* exactly these.  The variables of setOfVar that have a value, which the  *)
(* searches skip, are left out.                                            *)
(***************************************************************************)
EXTENDS Integers, FiniteSets, Sequences

CONSTANTS
  NbVar,     \* setOfVar is 1, 2, ..., NbVar
  NbClause   \* the clauses that may be left

ASSUME GraphAssumption == NbVar \in Nat /\ NbClause \in Nat

Var == 1 .. NbVar
Clause == 1 .. NbClause

(* Every way to leave clauses; {} is one that is satisfied. *)
Residuals == [Clause -> {s \in SUBSET Var : Cardinality(s) # 1}]

(* The clauses a variable occurs in, getVecIdxClause of both literals. *)
ClausesOf(g, v) == {c \in Clause : v \in g[c]}

(* Sets of variables that no clause crosses. *)
Closed(g) == {s \in SUBSET Var : \A c \in Clause : g[c] \cap s = {} \/ g[c] \subseteq s}

Connected(g, v, w) == \A s \in Closed(g) : v \in s <=> w \in s

(* The reference: the classes of the variables that still occur. *)
Components(g) ==
  {{w \in Var : Connected(g, v, w)} : v \in {u \in Var : ClausesOf(g, u) # {}}}
==============================================================================
