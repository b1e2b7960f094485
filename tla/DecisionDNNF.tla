---------------------------- MODULE DecisionDNNF ----------------------------
(***************************************************************************)
(* Compilation into a decision-DNNF: the search of DpllStyleMethod with    *)
(* the operations of DecisionDNNFOperation.hpp, which build nodes where    *)
(* CountingOperation.hpp multiplies and adds, and the traversals of        *)
(* nnf/NodeManager.hpp that answer queries on the result.                  *)
(*                                                                         *)
(* The search never looks at the values it combines, so both operations    *)
(* run side by side: an action of the search, and what it does to nodes.   *)
(***************************************************************************)
EXTENDS DpllStyleMethod

CONSTANTS
  Compiled,    \* the problems whose operation is DecisionDNNFOperation
  Skolemized,  \* those among them with the option skolemize
  Queries,     \* the assumptions of the queries
  MaxQueries   \* bound: traversals after the search

(***************************************************************************)
(* The compiler calls run once.  Unit literals of variables that are not   *)
(* counted stay in the nodes of manageTop and of skolemize, with their     *)
(* weight: it has to be 1.                                                 *)
(***************************************************************************)
ASSUME DnnfAssumption ==
  /\ Skolemized \subseteq Compiled
  /\ Compiled \subseteq Problems
  /\ \A p \in Compiled :
       /\ p.maxCalls = 1
       /\ \A l \in Lit : VarOf(l) \notin p.decision => Weight[l] = 1
  /\ \A A \in Queries : A \subseteq Lit /\ \A l \in A : -l \notin A
  /\ MaxQueries \in Nat

VARIABLES
  nodes,      \* the nodes in the memory pages, sons before fathers
  tabs,       \* beside stack: the nodes or branches its frames hold so far
  nodeCache,  \* beside cache: the nodes its entries point to
  root,       \* what compute returns, 0 before it does
  stamp,      \* m_globalStamp
  marks,      \* header.stamp and nbModels of the nodes visited once
  answer      \* the last query with its answer

dagVars == << nodes, tabs, nodeCache, root, stamp, marks, answer >>
dnnfVars == << dpllVars, dagVars >>

Compiling == problem \in Compiled
Skolemize == problem \in Skolemized

------------------------------------------------------------------------------
(* NodeManager. *)

BranchTo(d, units, free) == [d |-> d, units |-> units, free |-> free]
MakeNode(type, branches) == [type |-> type, sons |-> branches]

TrueNode == 1
FalseNode == 2

(* makeDecomposableAndNode. *)
DecomposableAnd(tab) ==
  MakeNode("and", [x \in DOMAIN tab |-> BranchTo(tab[x], {}, {})])

(* The nodes after manageDeterministOr(elts, size); the last one is its value. *)
DeterministOr(ns, elts) ==
  IF Len(elts) = 1 THEN Append(ns, MakeNode("unary", elts))
  ELSE FoldLeft(LAMBDA acc, e :
                  Append(acc, MakeNode("ite", << BranchTo(Len(acc), {}, {}), e >>)),
                Append(ns, MakeNode("ite", SubSeq(elts, 1, 2))),
                SubSeq(elts, 3, Len(elts)))

DnnfInit ==
  /\ DpllInit
  /\ nodes = << MakeNode("true", << >>), MakeNode("false", << >>) >>
  /\ tabs = << >>
  /\ nodeCache = << >>
  /\ root = 0
  /\ stamp = 0
  /\ marks = << >>
  /\ answer = << >>

------------------------------------------------------------------------------
(* The operations, one for each place where the search has a value. *)

(* The value x of a component, given the nodes ns. *)
Hold(ns, x, rest) ==
  /\ nodes' = ns
  /\ tabs' = [rest EXCEPT ![1] = Append(@, x)]
  /\ UNCHANGED << root, stamp, marks, answer >>

(* compute_ returns the branch b: to computeDecisionNode, or to compute,   *)
(* which calls manageBranch.                                               *)
ReturnBranch(ns, b, rest) ==
  \/ /\ rest # << >>
     /\ Hold(ns, b, rest)
  \/ /\ rest = << >>
     /\ nodes' = Append(ns, MakeNode("unary", << b >>))
     /\ root' = Len(ns) + 1
     /\ tabs' = rest
     /\ UNCHANGED << stamp, marks, answer >>

(* manageBottom; compute also calls it itself when warmStart finds out. *)
DnnfBottom ==
  /\ ComputeBottom
  /\ \/ ReturnBranch(nodes, BranchTo(FalseNode, {}, {}), tabs)
     \/ /\ stack = << >>
        /\ root' = FalseNode
        /\ UNCHANGED << nodes, tabs, stamp, marks, answer >>
  /\ UNCHANGED nodeCache

(* A new frame of compute_, or of computeDecisionNode. *)
DnnfFrame ==
  /\ ComputeUnits \/ Decide
  /\ tabs' = << << >> >> \o tabs
  /\ UNCHANGED << nodes, nodeCache, root, stamp, marks, answer >>

(* The value of a component found in the cache. *)
DnnfHit ==
  /\ CacheHit
  /\ Hold(nodes, nodeCache[Key(NextComp)], tabs)
  /\ UNCHANGED nodeCache

(* addInCache, with the entry of the count; a lost entry with the same key   *)
(* is still there or not.                                                    *)
AddNodeInCache(key, x) ==
  \E kept \in {nodeCache, << >>} :
    nodeCache' = [k \in DOMAIN cache' |->
                    IF k = key /\ (k \notin DOMAIN kept) THEN x ELSE nodeCache[k]]

(* What m_solver finds on a component without decision variables, when the  *)
(* manager has assigned all the units it knew of: units learnt since.       *)
LearntUnits(comp) ==
  SUBSET {l \in Backbone : VarOf(l) \in comp}

(* The component's part of the model that solve(component) leaves. *)
ComponentModels(comp) == Models({Residual(c) : c \in ClausesIn(comp)}, comp)

(* manageTop, or manageSolution: units, and the values in the model. *)
TopUnits(comp) == IF Skolemize THEN ComponentModels(comp) ELSE LearntUnits(comp)

DnnfTop ==
  /\ DecideNothing
  /\ \E units \in TopUnits(NextComp) :
       LET branch == BranchTo(TrueNode, units, {}) IN
       \/ /\ units = {}
          /\ Hold(nodes, TrueNode, tabs)
          /\ AddNodeInCache(Key(NextComp), TrueNode)
       \/ /\ units # {}
          /\ Hold(Append(nodes, MakeNode("unary", << branch >>)), Len(nodes) + 1, tabs)
          /\ AddNodeInCache(Key(NextComp), Len(nodes) + 1)

(* Mutant of KeptUnits: skolemize keeps the decision literals only. *)
KeptUnitsDecision(units) == {l \in units : VarOf(l) \in Decision}

(* expelNoDecisionLit. *)
KeptUnits(units) == {l \in units : Skolemize \/ VarOf(l) \in Decision}

(* compute_ returns manageDecomposableAnd(tab), or createTop. *)
DnnfAnd ==
  /\ AndReturn
  /\ LET tab == tabs[1]
         to(d) == BranchTo(d, KeptUnits(stack[1].units), stack[1].free \cap Decision)
     IN CASE Len(tab) = 0 -> ReturnBranch(nodes, to(TrueNode), Tail(tabs))
          [] Len(tab) = 1 -> ReturnBranch(nodes, to(tab[1]), Tail(tabs))
          [] OTHER -> ReturnBranch(Append(nodes, DecomposableAnd(tab)),
                                   to(Len(nodes) + 1), Tail(tabs))
  /\ UNCHANGED nodeCache

(* computeDecisionNode returns manageDeterministOr(b, nb). *)
DnnfOr ==
  /\ OrReturn
  /\ LET ns == DeterministOr(nodes, tabs[1]) IN
       /\ Hold(ns, Len(ns), Tail(tabs))
       /\ AddNodeInCache(stack[1].key, Len(ns))

------------------------------------------------------------------------------
(* The traversals: computeNbModels, isSAT and printNNF of the nodes. *)

Mark(n) == IF n \in DOMAIN marks THEN marks[n] ELSE [stamp |-> 0, nbModels |-> 0]

(* Mutant of NewStamp: the stamp of the traversal before. *)
NewStampSame == IF stamp = 0 THEN 1 ELSE stamp

(* m_globalStamp++. *)
NewStamp == stamp + 1

Leaf(n) == n \in {TrueNode, FalseNode}
Stamped(n) == ~Leaf(n) /\ Mark(n).stamp = NewStamp

(* The weight of a free variable. *)
FreeWeight(v, fixed) ==
  CASE -v \in fixed -> Weight[-v]
    [] v \in fixed -> Weight[v]
    [] OTHER -> Weight[v] + Weight[-v]

(* Branch: computeNbModels and isSAT, below which d has the value below. *)
BranchValue(kind, b, fixed, below) ==
  IF \E l \in b.units : -l \in fixed THEN 0
  ELSE IF kind = "sat" THEN below
  ELSE below * Product(b.units)
             * ProductOver(LAMBDA v : FreeWeight(v, fixed), b.free)

(* The values the nodes return; isSAT returns 0 or 1. *)
ValueOf(kind, fixed) ==
  LET val[n \in DOMAIN nodes] ==
        LET of(b) == BranchValue(kind, b, fixed, val[b.d])
            sons == nodes[n].sons
        IN CASE n = TrueNode -> 1
             [] n = FalseNode -> 0
             [] Stamped(n) -> Mark(n).nbModels
             [] nodes[n].type = "and" -> FoldLeft(LAMBDA a, b : a * of(b), 1, sons)
             [] kind = "sat" -> IF \E x \in DOMAIN sons : of(sons[x]) = 1 THEN 1 ELSE 0
             [] OTHER -> FoldLeft(LAMBDA a, b : a + of(b), 0, sons)
  IN val

(* The traversal ends with the x-th son of n: a product is zero, or one     *)
(* branch is satisfiable.                                                   *)
Ends(kind, n, b, fixed, val) ==
  LET of == BranchValue(kind, b, fixed, val[b.d]) IN
  \/ nodes[n].type = "and" /\ of = 0
  \/ nodes[n].type = "ite" /\ kind = "sat" /\ of = 1

(* The sons the traversal calls from n. *)
CalledFrom(kind, n, fixed, val) ==
  LET sons == nodes[n].sons IN
  {sons[x].d : x \in {y \in DOMAIN sons :
                        /\ \A l \in sons[y].units : -l \notin fixed
                        /\ \A z \in 1 .. y - 1 : ~Ends(kind, n, sons[z], fixed, val)}}

(* The nodes it goes into. *)
VisitedBy(kind, fixed, val) ==
  LET into[n \in DOMAIN nodes] ==
        /\ ~Leaf(n)
        /\ ~Stamped(n)
        /\ \/ n = root
           \/ \E m \in n + 1 .. Len(nodes) :
                n \in CalledFrom(kind, m, fixed, val) /\ into[m]
  IN {n \in DOMAIN nodes : into[n]}

(* The traversal leaves its stamp and its value in the nodes. *)
Traverse(visited, val) ==
  /\ stamp' = NewStamp
  /\ marks' = [n \in DOMAIN marks \cup visited |->
                 IF n \in visited THEN [stamp |-> NewStamp, nbModels |-> val[n]]
                 ELSE marks[n]]
  /\ UNCHANGED << dpllVars, nodes, tabs, nodeCache, root >>

AfterSearch ==
  /\ Compiling
  /\ pc = "done"
  /\ stamp < MaxQueries

(* count(root, assum), and isSAT with fixedValue, of assumptions on the     *)
(* variables that are counted.                                              *)
Query(kind) ==
  /\ AfterSearch
  /\ \E fixed \in {A \in Queries : VarsOf(A) \subseteq Decision} :
       LET val == ValueOf(kind, fixed) IN
       /\ Traverse(VisitedBy(kind, fixed, val), val)
       /\ answer' = [kind |-> kind, fixed |-> fixed, value |-> val[root]]

(* The nodes reached from the root, which printNNF prints once each. *)
Reachable ==
  LET from[n \in DOMAIN nodes] ==
        \/ n = root
        \/ \E m \in n + 1 .. Len(nodes) :
             from[m] /\ \E x \in DOMAIN nodes[m].sons : nodes[m].sons[x].d = n
  IN {n \in DOMAIN nodes : from[n]}

(* printNNF numbers the nodes in nbModels, the root first. *)
PrintNNF ==
  /\ AfterSearch
  /\ Traverse(Reachable, [n \in DOMAIN nodes |->
                            Cardinality({m \in Reachable : m >= n})])
  /\ UNCHANGED answer

------------------------------------------------------------------------------
(* The steps of the search that make no node. *)
DnnfSearch ==
  /\ ComputeComponents \/ Branch \/ Finished
  /\ UNCHANGED dagVars

DnnfNext ==
  \/ ~Compiling /\ DpllNext /\ UNCHANGED dagVars
  \/ Compiling /\ DnnfBottom
  \/ Compiling /\ DnnfFrame
  \/ Compiling /\ DnnfHit
  \/ Compiling /\ DnnfTop
  \/ Compiling /\ DnnfAnd
  \/ Compiling /\ DnnfOr
  \/ Compiling /\ DnnfSearch
  \/ Query("count")
  \/ Query("sat")
  \/ PrintNNF

DnnfSpec == DnnfInit /\ [][DnnfNext]_dnnfVars

------------------------------------------------------------------------------
(***************************************************************************)
(* A query on the compiled problem is answered right: count returns the    *)
(* weighted number of models under the assumptions and isSAT whether there *)
(* is one, whatever the traversals before left in the nodes.               *)
(***************************************************************************)
QueryExact ==
  answer # << >> =>
    answer.value =
      LET under == formula \cup {{l} : l \in answer.fixed} IN
      IF answer.kind = "count" THEN CountOf(under, Var)
      ELSE IF Models(under, Var) # {} THEN 1 ELSE 0

(* The literals on the branches that agree with the assignment D. *)
Assigned(D) ==
  LET val == ValueOf("sat", D)
      lits[n \in DOMAIN nodes] ==
        UNION {nodes[n].sons[x].units \cup lits[nodes[n].sons[x].d] :
                 x \in {y \in DOMAIN nodes[n].sons :
                          LET b == nodes[n].sons[y] IN
                          BranchValue("sat", b, D, val[b.d]) = 1}}
  IN lits[root]

(***************************************************************************)
(* skolemize: under every assignment of the projected variables that       *)
(* extends to a model, the literals of the compiled problem assign the     *)
(* others so that every clause is satisfied, whatever the variables that   *)
(* are left get.                                                           *)
(***************************************************************************)
SkolemExact ==
  pc = "done" /\ Skolemize /\ stamp = 0 =>
    \A D \in Assignments(Decision) :
      (\E M \in ModelsOf[problem] : D \subseteq M) =>
        /\ \A l \in Assigned(D) : -l \notin Assigned(D) \cup D
        /\ \A c \in formula : c \cap (D \cup Assigned(D)) # {}
=============================================================================
