------------------------- MODULE ConnectedComponent -------------------------
(***************************************************************************)
(* CnfManager::computeConnectedComponent, src/src/formulaManager/cnf/      *)
(* CnfManager.cpp: union-find with path halving over variables and         *)
(* clauses, one iteration of a loop at a time.  The tables are fields of   *)
(* the manager and are used again by the next call, on another residual    *)
(* formula.                                                                *)
(***************************************************************************)
EXTENDS ResidualGraph

CONSTANT MaxCalls  \* bound: calls of computeConnectedComponent

(* With an empty setOfVar neither loop of the call runs. *)
ASSUME ClusterAssumption == NbVar > 0 /\ MaxCalls \in Nat

VARIABLES
  pc,        \* "visit", "find", "collect", "root" or "done"
  graph,     \* the residual formula
  v,         \* the variable of setOfVar the outer loop is at
  left,      \* the clauses of v the inner loop has still to visit
  rootV,
  rootW,
  parent,    \* m_infoCluster[.].parent, of variables and of clauses
  size,      \* m_infoCluster[.].size
  pos,       \* m_infoCluster[.].pos
  m_markView,
  varCo,
  freeVar,
  calls

ccVars == << pc, graph, v, left, rootV, rootW, parent, size, pos,
             m_markView, varCo, freeVar, calls >>

(* Clause c is the node idx + m_nbVar + 1 of the table. *)
Node == 1 .. (NbVar + NbClause)
Of(c) == NbVar + c

(* The state every call starts with, on the residual formula g. *)
Start(g) ==
  /\ pc' = "visit"
  /\ graph' = g
  /\ v' = 1
  /\ left' = ClausesOf(g, 1)
  /\ rootV' = 1
  /\ varCo' = << >>
  /\ freeVar' = {}
  /\ parent' = [n \in Node |-> IF n \in Var THEN n ELSE parent[n]]
  /\ size' = [n \in Node |-> IF n \in Var THEN 1 ELSE size[n]]

CcInit ==
  /\ graph \in Residuals
  /\ pc = "visit"
  /\ v = 1
  /\ left = ClausesOf(graph, 1)
  /\ rootV = 1
  /\ rootW = 1
  /\ parent = [n \in Node |-> IF n \in Var THEN n ELSE 0]
  /\ size = [n \in Node |-> IF n \in Var THEN 1 ELSE 0]
  /\ pos = [n \in Node |-> -1]
  /\ m_markView = {}
  /\ varCo = << >>
  /\ freeVar = {}
  /\ calls = 1

(* A clause seen for the first time joins the cluster of the variable. *)
VisitNew(c) ==
  /\ pc = "visit"
  /\ c \in left \ m_markView
  /\ m_markView' = m_markView \cup {c}
  /\ parent' = [parent EXCEPT ![Of(c)] = rootV]
  /\ size' = [size EXCEPT ![rootV] = @ + 1]
  /\ left' = left \ {c}
  /\ UNCHANGED << pc, graph, v, rootV, rootW, pos, varCo, freeVar, calls >>

(* One seen before: look for its root. *)
VisitSeen(c) ==
  /\ pc = "visit"
  /\ c \in left \cap m_markView
  /\ rootW' = parent[Of(c)]
  /\ pc' = "find"
  /\ left' = left \ {c}
  /\ UNCHANGED << graph, v, rootV, parent, size, pos, m_markView, varCo,
                  freeVar, calls >>

(* Mutant of NextRoot: the root found for the variable before is kept. *)
NextRootKept == rootV

(* Every variable starts as the root of its own cluster. *)
NextRoot == v + 1

(* Mutant of Halve: the link is shortened but not followed. *)
HalveInPlace ==
  /\ rootW # parent[rootW]
  /\ parent' = [parent EXCEPT ![rootW] = parent[parent[rootW]]]
  /\ UNCHANGED rootW

(* One step of path halving, from rootW. *)
Halve ==
  /\ rootW # parent[rootW]
  /\ parent' = [parent EXCEPT ![rootW] = parent[parent[rootW]]]
  /\ rootW' = parent'[rootW]

FindStep ==
  /\ pc = "find"
  /\ Halve
  /\ UNCHANGED << pc, graph, v, left, rootV, size, pos, m_markView, varCo,
                  freeVar, calls >>

(* The smaller of two clusters hangs on the root of the other. *)
Union ==
  IF size[rootV] < size[rootW]
  THEN /\ size' = [size EXCEPT ![rootW] = @ + size[rootV]]
       /\ parent' = [parent EXCEPT ![rootV] = parent[rootW]]
       /\ rootV' = rootW
  ELSE /\ size' = [size EXCEPT ![rootV] = @ + size[rootW]]
       /\ parent' = [parent EXCEPT ![rootW] = parent[rootV]]
       /\ UNCHANGED rootV

(* Nothing to do for two nodes of one cluster. *)
Merge == IF rootV = rootW THEN UNCHANGED << size, parent, rootV >> ELSE Union

FindEnd ==
  /\ pc = "find"
  /\ rootW = parent[rootW]
  /\ Merge
  /\ pc' = "visit"
  /\ UNCHANGED << graph, v, left, rootW, pos, m_markView, varCo, freeVar,
                  calls >>

(* The outer loop goes on, and then the components are collected. *)
NextVisit ==
  /\ pc = "visit"
  /\ left = {}
  /\ \/ /\ v < NbVar
        /\ v' = v + 1
        /\ left' = ClausesOf(graph, v + 1)
        /\ rootV' = NextRoot
        /\ UNCHANGED pc
     \/ /\ v = NbVar
        /\ v' = 1
        /\ pc' = "collect"
        /\ UNCHANGED << left, rootV >>
  /\ UNCHANGED << graph, rootW, parent, size, pos, m_markView, varCo,
                  freeVar, calls >>

------------------------------------------------------------------------------
(* A root whose cluster has nothing else in it, not even a clause. *)
IsFree(u) == parent[u] = u /\ size[u] = 1

(* The end: marks and positions are put back for the next call. *)
Restore ==
  /\ m_markView' = {}
  /\ pos' = [n \in Node |-> -1]

Collect ==
  /\ pc = "collect"
  /\ v <= NbVar
  /\ \/ /\ IsFree(v)
        /\ freeVar' = freeVar \cup {v}
        /\ v' = v + 1
        /\ UNCHANGED << pc, rootW >>
     \/ /\ ~IsFree(v)
        /\ rootW' = parent[v]
        /\ pc' = "root"
        /\ UNCHANGED << v, freeVar >>
  /\ UNCHANGED << graph, left, rootV, parent, size, pos, m_markView,
                  varCo, calls >>

RootStep ==
  /\ pc = "root"
  /\ Halve
  /\ UNCHANGED << pc, graph, v, left, rootV, size, pos, m_markView, varCo,
                  freeVar, calls >>

(* The variable goes to the component of its root, a new one if need be. *)
RootEnd ==
  /\ pc = "root"
  /\ rootW = parent[rootW]
  /\ \/ /\ pos[rootW] = -1
        /\ pos' = [pos EXCEPT ![rootW] = Len(varCo)]
        /\ varCo' = Append(varCo, {v})
     \/ /\ pos[rootW] # -1
        /\ varCo' = [varCo EXCEPT ![pos[rootW] + 1] = @ \cup {v}]
        /\ UNCHANGED pos
  /\ v' = v + 1
  /\ pc' = "collect"
  /\ UNCHANGED << graph, left, rootV, rootW, parent, size, m_markView,
                  freeVar, calls >>

CollectEnd ==
  /\ pc = "collect"
  /\ v > NbVar
  /\ Restore
  /\ pc' = "done"
  /\ UNCHANGED << graph, v, left, rootV, rootW, parent, size, varCo,
                  freeVar, calls >>

(* The search calls again, on another residual formula. *)
CallAgain ==
  /\ pc = "done"
  /\ calls < MaxCalls
  /\ calls' = calls + 1
  /\ \E g \in Residuals : Start(g)
  /\ UNCHANGED << rootW, pos, m_markView >>

CcStep ==
  \/ \E c \in left : VisitNew(c) \/ VisitSeen(c)
  \/ FindStep
  \/ FindEnd
  \/ NextVisit
  \/ Collect
  \/ RootStep
  \/ RootEnd
  \/ CollectEnd

CcNext == CcStep \/ CallAgain

(* A call is plain sequential code: it goes on until it returns. *)
CcSpec == CcInit /\ [][CcNext]_ccVars /\ WF_ccVars(CcStep)

------------------------------------------------------------------------------
CcTypeOK ==
  /\ pc \in {"visit", "find", "collect", "root", "done"}
  /\ v \in 1 .. (NbVar + 1)
  /\ left \subseteq Clause
  /\ rootV \in Var
  /\ rootW \in Var
  /\ parent \in [Node -> 0 .. NbVar]
  /\ size \in [Node -> 0 .. (NbVar + NbClause)]
  /\ pos \in [Node -> -1 .. (NbVar - 1)]
  /\ freeVar \subseteq Var
  /\ varCo \in Seq(SUBSET Var)

(***************************************************************************)
(* What is returned: the variables that occur in no clause are free, the   *)
(* others are split exactly along the clauses, each component once.        *)
(***************************************************************************)
ComponentsExact ==
  pc = "done" =>
    /\ freeVar = {u \in Var : ClausesOf(graph, u) = {}}
    /\ {varCo[k] : k \in DOMAIN varCo} = Components(graph)
    /\ Len(varCo) = Cardinality(Components(graph))

(* Every call returns: path halving never runs in a circle. *)
Returns == pc # "done" ~> pc = "done"
=============================================================================
