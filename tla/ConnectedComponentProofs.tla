---------------------- MODULE ConnectedComponentProofs ----------------------
(***************************************************************************)
(* computeConnectedComponent returns exactly the components, for every     *)
(* residual formula with any number of variables and clauses, and however  *)
(* often it is called on the same tables.                                  *)
(*                                                                         *)
(* The parents alone do not say which nodes are in one cluster.  The       *)
(* invariant says that there is a function rep, from nodes to the root of  *)
(* their cluster, which the parents follow.  The sizes grow towards the    *)
(* root, so path halving never makes a root of a node that is none.        *)
(***************************************************************************)
EXTENDS ConnectedComponent, TLAPS, FiniteSetTheorems

------------------------------------------------------------------------------
(* The inductive invariant. *)

Class(rep, r) == {n \in Node : rep[n] = r}

(* A clause not yet seen is in no cluster. *)
Clauses(rep) ==
  \A c \in Clause :
     IF c \in m_markView
     THEN parent[Of(c)] \in Var /\ rep[Of(c)] = rep[parent[Of(c)]]
     ELSE rep[Of(c)] = 0

Forest(rep) ==
  /\ rep \in [Node -> 0 .. NbVar]
  /\ \A u \in Var :
        /\ rep[u] \in Var
        /\ parent[u] \in Var
        /\ rep[parent[u]] = rep[u]
        /\ parent[rep[u]] = rep[u]
        /\ parent[u] = u => rep[u] = u /\ size[u] = Cardinality(Class(rep, u))
        /\ parent[u] # u => size[u] < size[parent[u]]
  /\ Clauses(rep)

(* Only what is connected is in one cluster. *)
Sound(rep) ==
  /\ \A u \in Var : Connected(graph, u, rep[u])
  /\ \A c \in m_markView :
        graph[c] # {} /\ \A u \in graph[c] : Connected(graph, u, rep[Of(c)])

Linked(rep, u, c) == c \in m_markView /\ rep[Of(c)] = rep[u]

(* The first loop has done the variables before v and some clauses of v. *)
Visiting(rep) ==
  /\ v \in Var
  /\ rootV = rep[v]
  /\ left \subseteq ClausesOf(graph, v)
  /\ \A u \in 1 .. (v - 1) : \A c \in ClausesOf(graph, u) : Linked(rep, u, c)
  /\ \A u \in (v + 1) .. NbVar : Class(rep, u) = {u}
  /\ freeVar = {} /\ varCo = << >> /\ pos = [n \in Node |-> -1]
  /\ pc = "visit" => \A c \in ClausesOf(graph, v) \ left : Linked(rep, v, c)
  /\ pc = "find" =>
       \E d \in m_markView \cap ClausesOf(graph, v) :
          /\ rep[rootW] = rep[Of(d)]
          /\ \A c \in ClausesOf(graph, v) \ (left \cup {d}) : Linked(rep, v, c)

AllLinked(rep) ==
  \A u \in Var : \A c \in ClausesOf(graph, u) : Linked(rep, u, c)

(* What the second loop has put into the component of the root r. *)
Gathered(rep, r, n) ==
  {u \in Var : u < n /\ rep[u] = r /\ ClausesOf(graph, u) # {}}

UsedRoots == {r \in Var : pos[r] # -1}

Placed(rep) ==
  /\ \A r \in Var : pos[r] = -1 <=> Gathered(rep, r, v) = {}
  /\ \A r \in UsedRoots :
        pos[r] + 1 \in DOMAIN varCo /\ varCo[pos[r] + 1] = Gathered(rep, r, v)
  /\ \A k \in DOMAIN varCo : \E r \in UsedRoots : pos[r] + 1 = k
  /\ Len(varCo) = Cardinality(UsedRoots)

Collecting(rep) ==
  /\ AllLinked(rep)
  /\ freeVar = {u \in Var : u < v /\ ClausesOf(graph, u) = {}}
  /\ Placed(rep)
  /\ pc = "root" => v \in Var /\ rep[rootW] = rep[v] /\ ClausesOf(graph, v) # {}

CallRight ==
  IF pc = "done"
  THEN /\ ComponentsExact
       /\ m_markView = {}
       /\ pos = [n \in Node |-> -1]
  ELSE \E rep \in [Node -> 0 .. NbVar] :
          /\ Forest(rep)
          /\ Sound(rep)
          /\ IF pc \in {"visit", "find"} THEN Visiting(rep) ELSE Collecting(rep)

CcInv ==
  /\ CcTypeOK
  /\ graph \in Residuals
  /\ m_markView \subseteq Clause
  /\ CallRight
------------------------------------------------------------------------------
(* The graph. *)

(* Variables and clauses are nodes, and no clause is a variable. *)
LEMMA NodeFacts ==
  /\ NbVar \in Nat /\ NbVar > 0 /\ NbClause \in Nat
  /\ Var \subseteq Node /\ Var \subseteq Nat /\ Var \subseteq 0 .. NbVar
  /\ \A c \in Clause : Of(c) \in Node /\ Of(c) \notin Var
  /\ \A c, d \in Clause : Of(c) = Of(d) => c = d
  /\ \A n \in Node : n \in Var \/ \E c \in Clause : n = Of(c)
<1>1. NbVar \in Nat /\ NbVar > 0 /\ NbClause \in Nat
  BY GraphAssumption, ClusterAssumption
<1>2. \A n \in Node : n \in Var \/ \E c \in Clause : n = Of(c)
  <2> SUFFICES ASSUME NEW n \in Node, n \notin Var PROVE \E c \in Clause : n = Of(c)
    OBVIOUS
  <2>1. n - NbVar \in Clause /\ n = Of(n - NbVar)
    BY <1>1 DEF Node, Var, Clause, Of
  <2> QED
    BY <2>1
<1>3. \A c \in Clause : Of(c) \in Node /\ Of(c) \notin Var
  BY <1>1 DEF Node, Var, Clause, Of
<1>4. \A c, d \in Clause : Of(c) = Of(d) => c = d
  BY <1>1 DEF Clause, Of
<1> QED
  BY <1>1, <1>2, <1>3, <1>4 DEF Node, Var

(* A set of nodes is finite, and no larger than the table. *)
LEMMA NodesFinite ==
  ASSUME NEW S \in SUBSET Node
  PROVE  IsFiniteSet(S) /\ Cardinality(S) \in Nat /\ Cardinality(S) <= NbVar + NbClause
<1>1. NbVar + NbClause \in Nat
  BY NodeFacts
<1>2. IsFiniteSet(Node) /\ Cardinality(Node) = NbVar + NbClause
  BY <1>1, FS_Interval, NodeFacts DEF Node
<1>3. IsFiniteSet(S) /\ Cardinality(S) <= Cardinality(Node)
  BY <1>2, FS_Subset
<1> QED
  BY <1>2, <1>3, FS_CardinalityType

(* To be connected is an equivalence. *)
LEMMA ConnectedEquiv ==
  ASSUME NEW g
  PROVE  /\ \A u : Connected(g, u, u)
         /\ \A u, w : Connected(g, u, w) => Connected(g, w, u)
         /\ \A u, w, x : Connected(g, u, w) /\ Connected(g, w, x) => Connected(g, u, x)
  BY DEF Connected

(* The variables of one clause are connected. *)
LEMMA SameClause ==
  ASSUME NEW g, NEW c \in Clause, NEW u \in g[c], NEW w \in g[c]
  PROVE  Connected(g, u, w)
  BY DEF Connected, Closed

(* A variable without a clause is connected to no other. *)
LEMMA FreeAlone ==
  ASSUME NEW g, NEW u \in Var, NEW w, ClausesOf(g, u) = {}, Connected(g, u, w)
  PROVE  w = u
<1>1. \A c \in Clause : u \notin g[c]
  BY DEF ClausesOf
<1>2. {u} \in Closed(g)
  BY <1>1 DEF Closed
<1> QED
  BY <1>2 DEF Connected

------------------------------------------------------------------------------
(* What the tables do to the clusters. *)

(* Path halving leads upwards inside the cluster and leaves it as it is. *)
LEMMA HalveStep ==
  ASSUME CcTypeOK, NEW CONSTANT rep, Forest(rep), Halve,
         size' = size, m_markView' = m_markView
  PROVE  /\ Forest(rep)'
         /\ rootW' \in Var /\ rep[rootW'] = rep[rootW]
         /\ parent' \in [Node -> 0 .. NbVar]
<1> DEFINE p == parent[rootW]
           q == parent[p]
<1>1. rootW \in Var /\ parent \in [Node -> 0 .. NbVar] /\ rootW \in Node
  BY NodeFacts DEF CcTypeOK
<1>2. p \in Var /\ q \in Var /\ rep[p] = rep[rootW] /\ rep[q] = rep[rootW]
  BY <1>1 DEF Forest
<1>3. rootW # p /\ parent' = [parent EXCEPT ![rootW] = q] /\ rootW' = parent'[rootW]
  BY DEF Halve
<1>4. parent'[rootW] = q /\ \A n \in Node : n # rootW => parent'[n] = parent[n]
  BY <1>1, <1>3
<1>5. rootW' = q /\ parent' \in [Node -> 0 .. NbVar]
  BY <1>1, <1>2, <1>3, <1>4 DEF Var
<1>6. \A u \in Var : size[u] \in Nat
  BY NodeFacts DEF CcTypeOK
<1>7. size[rootW] < size[q] /\ q # rootW
  <2>1. size[rootW] < size[p]
    BY <1>1, <1>3 DEF Forest
  <2>2. q = p \/ size[p] < size[q]
    BY <1>2 DEF Forest
  <2> QED
    BY <2>1, <2>2, <1>1, <1>2, <1>6
<1>8. parent[rep[rootW]] = rep[rootW] /\ rep[rootW] # rootW
  BY <1>1, <1>3 DEF Forest
<1>9. Clauses(rep)'
  <2>1. \A c \in Clause : parent'[Of(c)] = parent[Of(c)]
    BY <1>1, <1>4, NodeFacts
  <2> QED
    BY <2>1 DEF Forest, Clauses
<1>10. ASSUME NEW u \in Var
       PROVE  /\ rep[u] \in Var
              /\ parent'[u] \in Var
              /\ rep[parent'[u]] = rep[u]
              /\ parent'[rep[u]] = rep[u]
              /\ parent'[u] = u => rep[u] = u /\ size[u] = Cardinality(Class(rep, u))
              /\ parent'[u] # u => size[u] < size[parent'[u]]
  <2>1. rep[u] \in Var /\ rep[u] \in Node /\ u \in Node
    BY NodeFacts DEF Forest
  <2>2. rep[u] # rootW
    BY <1>3, <2>1 DEF Forest
  <2>3. parent'[rep[u]] = rep[u]
    BY <1>4, <2>1, <2>2 DEF Forest
  <2>4. CASE u = rootW
    BY <1>2, <1>4, <1>7, <2>1, <2>3, <2>4
  <2>5. CASE u # rootW
    BY <1>4, <2>1, <2>3, <2>5 DEF Forest
  <2> QED
    BY <2>4, <2>5
<1>11. Forest(rep)'
  BY <1>9, <1>10 DEF Forest, Class
<1> QED
  BY <1>2, <1>5, <1>11

(* A clause seen for the first time adds one node to the cluster of a root. *)
LEMMA JoinStep ==
  ASSUME CcTypeOK, NEW CONSTANT rep, Forest(rep), NEW CONSTANT r \in Var, parent[r] = r,
         m_markView \subseteq Clause,
         NEW CONSTANT c \in Clause, c \notin m_markView, m_markView' = m_markView \cup {c},
         parent' = [parent EXCEPT ![Of(c)] = r],
         size' = [size EXCEPT ![r] = @ + 1],
         NEW CONSTANT new, new = [rep EXCEPT ![Of(c)] = r]
  PROVE  /\ Forest(new)'
         /\ parent' \in [Node -> 0 .. NbVar]
         /\ size' \in [Node -> 0 .. (NbVar + NbClause)]
<1>1. /\ r \in Node /\ Of(c) \in Node /\ Of(c) \notin Var
      /\ parent \in [Node -> 0 .. NbVar]
      /\ size \in [Node -> 0 .. (NbVar + NbClause)]
      /\ rep \in [Node -> 0 .. NbVar]
      /\ r \in 0 .. NbVar
  BY NodeFacts DEF CcTypeOK, Forest
<1>2. parent'[Of(c)] = r /\ \A n \in Node : n # Of(c) => parent'[n] = parent[n]
  BY <1>1
<1>3. new[Of(c)] = r /\ \A n \in Node : n # Of(c) => new[n] = rep[n]
  BY <1>1
<1>4. size'[r] = size[r] + 1 /\ \A n \in Node : n # r => size'[n] = size[n]
  BY <1>1
<1>5. parent' \in [Node -> 0 .. NbVar] /\ new \in [Node -> 0 .. NbVar]
  BY <1>1
<1>6. \A u \in Var : u \in Node /\ u # Of(c) /\ new[u] = rep[u] /\ parent'[u] = parent[u]
  BY <1>1, <1>2, <1>3, NodeFacts
<1>7. rep[Of(c)] = 0 /\ 0 \notin Var
  BY DEF Forest, Clauses, Var
<1>8. Class(new, r) = Class(rep, r) \cup {Of(c)} /\ Of(c) \notin Class(rep, r)
  BY <1>1, <1>3, <1>7 DEF Class
<1>9. \A u \in Var : u # r => Class(new, u) = Class(rep, u)
  BY <1>1, <1>3, <1>7 DEF Class
<1>10. IsFiniteSet(Class(rep, r)) /\ Cardinality(Class(new, r)) <= NbVar + NbClause
  BY NodesFinite DEF Class
<1>11. Cardinality(Class(new, r)) = Cardinality(Class(rep, r)) + 1
  BY <1>8, <1>10, FS_AddElement
<1>12. size'[r] = Cardinality(Class(new, r))
  BY <1>4, <1>11 DEF Forest
<1>13. size' \in [Node -> 0 .. (NbVar + NbClause)]
  <2>1. size[r] \in Nat /\ NbVar + NbClause \in Nat
    BY <1>1, NodeFacts
  <2>2. size[r] + 1 \in 0 .. (NbVar + NbClause)
    BY <1>4, <1>10, <1>12, <2>1
  <2> QED
    BY <1>1, <2>2
<1>14. Clauses(new)'
  <2> SUFFICES ASSUME NEW d \in Clause
               PROVE  IF d \in m_markView'
                      THEN parent'[Of(d)] \in Var /\ new[Of(d)] = new[parent'[Of(d)]]
                      ELSE new[Of(d)] = 0
    BY DEF Clauses
  <2>1. CASE d = c
    BY <1>2, <1>3, <1>6, <2>1 DEF Forest
  <2>2. CASE d # c
    <3>1. Of(d) \in Node /\ Of(d) # Of(c)
      BY <2>2, NodeFacts
    <3>2. parent'[Of(d)] = parent[Of(d)] /\ new[Of(d)] = rep[Of(d)]
      BY <1>2, <1>3, <3>1
    <3>3. IF d \in m_markView
          THEN parent[Of(d)] \in Var /\ rep[Of(d)] = rep[parent[Of(d)]]
          ELSE rep[Of(d)] = 0
      BY DEF Forest, Clauses
    <3> QED
      BY <1>6, <2>2, <3>2, <3>3
  <2> QED
    BY <2>1, <2>2
<1>15. ASSUME NEW u \in Var
       PROVE  /\ new[u] \in Var
              /\ parent'[u] \in Var
              /\ new[parent'[u]] = new[u]
              /\ parent'[new[u]] = new[u]
              /\ parent'[u] = u => new[u] = u /\ size'[u] = Cardinality(Class(new, u))
              /\ parent'[u] # u => size'[u] < size'[parent'[u]]
  <2>1. /\ rep[u] \in Var /\ parent[u] \in Var /\ rep[parent[u]] = rep[u]
        /\ parent[rep[u]] = rep[u]
        /\ parent[u] = u => rep[u] = u /\ size[u] = Cardinality(Class(rep, u))
        /\ parent[u] # u => size[u] < size[parent[u]]
    BY DEF Forest
  <2>2. parent'[u] = u => size'[u] = Cardinality(Class(new, u))
    BY <1>4, <1>6, <1>9, <1>12, <2>1
  <2>3. parent'[u] # u => size'[u] < size'[parent'[u]]
    <3> SUFFICES ASSUME parent[u] # u PROVE size'[u] < size'[parent[u]]
      BY <1>6
    <3>1. u # r /\ size[u] < size[parent[u]] /\ size'[u] = size[u]
      BY <1>4, <1>6, <2>1
    <3>2. size[parent[u]] \in Nat /\ size[u] \in Nat
      BY <1>1, <1>6, <2>1
    <3> QED
      BY <1>4, <1>6, <2>1, <3>1, <3>2
  <2> QED
    BY <1>6, <2>1, <2>2, <2>3
<1>16. Forest(new)'
  BY <1>5, <1>14, <1>15 DEF Forest, Class
<1> QED
  BY <1>5, <1>13, <1>16

(* The root A of a cluster hangs on the root B of one that is not smaller. *)
Hang(A, B) ==
  /\ A # B /\ parent[A] = A /\ parent[B] = B /\ size[A] <= size[B]
  /\ parent' = [parent EXCEPT ![A] = B]
  /\ size' = [size EXCEPT ![B] = @ + size[A]]

(* The two clusters are one then. *)
LEMMA MergeStep ==
  ASSUME CcTypeOK, NEW CONSTANT rep, Forest(rep), m_markView \subseteq Clause,
         NEW CONSTANT A \in Var, NEW CONSTANT B \in Var, Hang(A, B),
         m_markView' = m_markView,
         NEW CONSTANT new, new = [n \in Node |-> IF rep[n] = A THEN B ELSE rep[n]]
  PROVE  /\ Forest(new)'
         /\ parent' \in [Node -> 0 .. NbVar]
         /\ size' \in [Node -> 0 .. (NbVar + NbClause)]
<1> USE DEF Hang
<1>1. /\ A \in Node /\ B \in Node
      /\ parent \in [Node -> 0 .. NbVar]
      /\ size \in [Node -> 0 .. (NbVar + NbClause)]
      /\ rep \in [Node -> 0 .. NbVar]
      /\ A \in 0 .. NbVar /\ B \in 0 .. NbVar
  BY NodeFacts DEF CcTypeOK, Forest
<1>2. parent'[A] = B /\ \A n \in Node : n # A => parent'[n] = parent[n]
  BY <1>1
<1>3. \A n \in Node : new[n] = IF rep[n] = A THEN B ELSE rep[n]
  OBVIOUS
<1>4. size'[B] = size[B] + size[A] /\ \A n \in Node : n # B => size'[n] = size[n]
  BY <1>1
<1>5. parent' \in [Node -> 0 .. NbVar] /\ new \in [Node -> 0 .. NbVar]
  BY <1>1
<1>6. rep[A] = A /\ rep[B] = B /\ size[A] = Cardinality(Class(rep, A))
      /\ size[B] = Cardinality(Class(rep, B))
  BY DEF Forest
<1>7. Class(new, B) = Class(rep, A) \cup Class(rep, B)
      /\ Class(rep, A) \cap Class(rep, B) = {}
  BY <1>3 DEF Class
<1>8. \A u \in Var : u # A /\ u # B => Class(new, u) = Class(rep, u)
  BY <1>3 DEF Class
<1>9. /\ IsFiniteSet(Class(rep, A)) /\ IsFiniteSet(Class(rep, B))
      /\ Cardinality(Class(rep, A)) \in Nat /\ Cardinality(Class(rep, B)) \in Nat
      /\ Cardinality(Class(new, B)) <= NbVar + NbClause
  BY NodesFinite DEF Class
<1>10. size'[B] = Cardinality(Class(new, B))
  <2>1. Cardinality(Class(new, B)) =
          Cardinality(Class(rep, A)) + Cardinality(Class(rep, B)) - Cardinality({})
    BY <1>7, <1>9, FS_Union
  <2> QED
    BY <1>4, <1>6, <1>9, <2>1, FS_EmptySet
<1>11. size[A] \in Nat /\ size[A] > 0
  <2>1. A \in Class(rep, A)
    BY <1>1, <1>6 DEF Class
  <2>2. Cardinality(Class(rep, A)) # 0
    BY <1>9, <2>1, FS_EmptySet
  <2> QED
    BY <1>6, <1>9, <2>2
<1>12. size' \in [Node -> 0 .. (NbVar + NbClause)]
  <2>1. size[B] \in Nat /\ NbVar + NbClause \in Nat
    BY <1>1, NodeFacts
  <2>2. size[B] + size[A] \in 0 .. (NbVar + NbClause)
    BY <1>4, <1>9, <1>10, <1>11, <2>1
  <2> QED
    BY <1>1, <2>2
<1>13. Clauses(new)'
  <2> SUFFICES ASSUME NEW d \in Clause
               PROVE  IF d \in m_markView
                      THEN parent'[Of(d)] \in Var /\ new[Of(d)] = new[parent'[Of(d)]]
                      ELSE new[Of(d)] = 0
    BY DEF Clauses
  <2>1. Of(d) \in Node /\ Of(d) # A /\ parent'[Of(d)] = parent[Of(d)] /\ 0 # A
    BY <1>2, NodeFacts DEF Var
  <2>2. IF d \in m_markView
        THEN parent[Of(d)] \in Var /\ rep[Of(d)] = rep[parent[Of(d)]]
        ELSE rep[Of(d)] = 0
    BY DEF Forest, Clauses
  <2> QED
    BY <1>3, <2>1, <2>2, NodeFacts
<1>14. ASSUME NEW u \in Var
       PROVE  /\ new[u] \in Var
              /\ parent'[u] \in Var
              /\ new[parent'[u]] = new[u]
              /\ parent'[new[u]] = new[u]
              /\ parent'[u] = u => new[u] = u /\ size'[u] = Cardinality(Class(new, u))
              /\ parent'[u] # u => size'[u] < size'[parent'[u]]
  <2>1. /\ rep[u] \in Var /\ parent[u] \in Var /\ rep[parent[u]] = rep[u]
        /\ parent[rep[u]] = rep[u]
        /\ parent[u] = u => rep[u] = u /\ size[u] = Cardinality(Class(rep, u))
        /\ parent[u] # u => size[u] < size[parent[u]]
    BY DEF Forest
  <2>2. u \in Node /\ rep[u] \in Node /\ parent[u] \in Node
    BY <2>1, NodeFacts
  <2>3. size[u] \in Nat /\ size[parent[u]] \in Nat /\ size[B] \in Nat
    BY <1>1, <2>2
  <2>4. new[u] \in Var /\ parent'[new[u]] = new[u]
    BY <1>2, <1>3, <1>1, <2>1, <2>2
  <2>5. CASE u = A
    BY <1>2, <1>3, <1>4, <1>6, <1>1, <1>11, <2>3, <2>4, <2>5
  <2>6. CASE u # A
    <3>1. parent'[u] = parent[u] /\ new[parent[u]] = new[u]
      BY <1>2, <1>3, <2>1, <2>2, <2>6
    <3>2. parent[u] = u => new[u] = u /\ size'[u] = Cardinality(Class(new, u))
      BY <1>3, <1>4, <1>8, <1>10, <2>1, <2>2, <2>6
    <3>3. parent[u] # u => size'[u] < size'[parent[u]]
      <4> SUFFICES ASSUME parent[u] # u PROVE size'[u] < size'[parent[u]]
        OBVIOUS
      <4>1. u # B /\ size'[u] = size[u]
        BY <1>4, <2>2
      <4> QED
        BY <1>4, <1>11, <2>1, <2>2, <2>3, <4>1
    <3> QED
      BY <2>1, <2>4, <3>1, <3>2, <3>3
  <2> QED
    BY <2>5, <2>6
<1>15. Forest(new)'
  BY <1>5, <1>13, <1>14 DEF Forest, Class
<1> QED
  BY <1>5, <1>12, <1>15

------------------------------------------------------------------------------
(* The first loop. *)

(* The state a call starts in, wherever the tables of clauses come from. *)
Starting ==
  /\ pc = "visit" /\ v = 1 /\ left = ClausesOf(graph, 1) /\ rootV = 1
  /\ m_markView = {} /\ varCo = << >> /\ freeVar = {} /\ pos = [n \in Node |-> -1]
  /\ \A u \in Var : parent[u] = u /\ size[u] = 1

(* Every variable is the root of its own cluster when a call starts. *)
LEMMA StartRight == Starting => CallRight
<1> SUFFICES ASSUME Starting PROVE CallRight
  OBVIOUS
<1>1. PICK rep : rep = [n \in Node |-> IF n \in Var THEN n ELSE 0]
  OBVIOUS
<1>2. rep \in [Node -> 0 .. NbVar]
  BY <1>1, NodeFacts
<1>3. /\ \A u \in Var : rep[u] = u
      /\ \A c \in Clause : rep[Of(c)] = 0
      /\ \A u \in Var : Class(rep, u) = {u}
  <2>1. \A u \in Var : u \in Node /\ u # 0
    BY NodeFacts DEF Var
  <2> QED
    BY <1>1, <2>1, NodeFacts DEF Class
<1>4. Forest(rep)
  BY <1>2, <1>3, FS_Singleton DEF Starting, Forest, Clauses
<1>5. Sound(rep)
  BY <1>3, ConnectedEquiv DEF Sound, Starting
<1>6. 1 \in Var /\ \A u \in 2 .. NbVar : u \in Var
  BY NodeFacts DEF Var
<1>7. Visiting(rep)
  BY <1>3, <1>6 DEF Starting, Visiting
<1> QED
  BY <1>2, <1>4, <1>5, <1>7 DEF Starting, CallRight

(* Init. *)
LEMMA CcInitInv == CcInit => CcInv
<1> SUFFICES ASSUME CcInit PROVE CcInv
  OBVIOUS
<1>1. /\ graph \in Residuals /\ pc = "visit" /\ v = 1 /\ rootV = 1 /\ rootW = 1
      /\ parent = [n \in Node |-> IF n \in Var THEN n ELSE 0]
      /\ size = [n \in Node |-> IF n \in Var THEN 1 ELSE 0]
      /\ pos = [n \in Node |-> -1]
      /\ left = ClausesOf(graph, 1)
      /\ m_markView = {} /\ varCo = << >> /\ freeVar = {}
  BY DEF CcInit
<1>2. /\ NbVar \in Nat /\ NbVar > 0 /\ NbClause \in Nat /\ 1 \in Var
      /\ Var \subseteq Node /\ Var \subseteq 0 .. NbVar
  BY NodeFacts DEF Var
<1>3. Starting
  BY <1>1, <1>2 DEF Starting
<1>4. parent \in [Node -> 0 .. NbVar]
  BY <1>1, <1>2
<1>5. size \in [Node -> 0 .. (NbVar + NbClause)]
  BY <1>1, <1>2
<1>6. pos \in [Node -> -1 .. (NbVar - 1)]
  BY <1>1, <1>2
<1>7. CcTypeOK
  BY <1>1, <1>2, <1>4, <1>5, <1>6 DEF CcTypeOK, ClausesOf
<1> QED
  BY <1>1, <1>3, <1>7, StartRight DEF CcInv

(* The call in progress: what CallRight says of the first loop. *)
LEMMA VisitFacts ==
  ASSUME CcInv, pc \in {"visit", "find"}
  PROVE  \E rep \in [Node -> 0 .. NbVar] : Forest(rep) /\ Sound(rep) /\ Visiting(rep)
  BY DEF CcInv, CallRight

(* A clause seen for the first time. *)
LEMMA VisitNewInv ==
  ASSUME CcInv, NEW c \in left, VisitNew(c)
  PROVE  CcInv'
<1>1. PICK rep \in [Node -> 0 .. NbVar] : Forest(rep) /\ Sound(rep) /\ Visiting(rep)
  BY VisitFacts DEF VisitNew
<1>2. PICK r : r = rootV
  OBVIOUS
<1>3. /\ c \in ClausesOf(graph, v) /\ c \in Clause /\ c \notin m_markView
      /\ v \in Var /\ r = rep[v] /\ r \in Var /\ parent[r] = r
  BY <1>1, <1>2 DEF Visiting, VisitNew, Forest, ClausesOf
<1>4. PICK new : new = [rep EXCEPT ![Of(c)] = r]
  OBVIOUS
<1>5. /\ m_markView' = m_markView \cup {c}
      /\ parent' = [parent EXCEPT ![Of(c)] = r]
      /\ size' = [size EXCEPT ![r] = @ + 1]
      /\ left' = left \ {c}
      /\ pc = "visit"
      /\ UNCHANGED << pc, graph, v, rootV, rootW, pos, varCo, freeVar, calls >>
  BY <1>2 DEF VisitNew
<1>6. /\ Forest(new)'
      /\ parent' \in [Node -> 0 .. NbVar]
      /\ size' \in [Node -> 0 .. (NbVar + NbClause)]
  BY <1>1, <1>3, <1>4, <1>5, JoinStep DEF CcInv
<1>7. /\ new \in [Node -> 0 .. NbVar]
      /\ new[Of(c)] = r
      /\ \A n \in Node : n # Of(c) => new[n] = rep[n]
  BY <1>3, <1>4, NodeFacts
<1>8. \A u \in Var : u \in Node /\ new[u] = rep[u]
  BY <1>3, <1>7, NodeFacts
<1>9. \A d \in m_markView : d \in Clause /\ new[Of(d)] = rep[Of(d)]
  BY <1>3, <1>7, NodeFacts DEF CcInv
<1>10. Sound(new)'
  <2>1. \A u \in Var : Connected(graph, u, new[u])
    BY <1>1, <1>8 DEF Sound
  <2>2. \A d \in m_markView :
          graph[d] # {} /\ \A u \in graph[d] : Connected(graph, u, new[Of(d)])
    BY <1>1, <1>9 DEF Sound
  <2>3. v \in graph[c]
    BY <1>3 DEF ClausesOf
  <2>4. \A u \in graph[c] : Connected(graph, u, r)
    BY <1>1, <1>3, <2>3, SameClause, ConnectedEquiv DEF Sound
  <2> QED
    BY <1>5, <1>7, <2>1, <2>2, <2>3, <2>4 DEF Sound
<1>11. Visiting(new)'
  <2>1. rootV = new[v] /\ left' \subseteq ClausesOf(graph, v)
    BY <1>1, <1>2, <1>3, <1>5, <1>8 DEF Visiting
  <2>2. ASSUME NEW u \in Var, NEW d, Linked(rep, u, d)
        PROVE  Linked(new, u, d)'
    BY <1>5, <1>8, <1>9, <2>2 DEF Linked
  <2>3. Linked(new, v, c)'
    BY <1>3, <1>5, <1>7, <1>8 DEF Linked
  <2>4. \A u \in 1 .. (v - 1) : u \in Var
    BY <1>3, NodeFacts DEF Var
  <2>5. ASSUME NEW u \in (v + 1) .. NbVar
        PROVE  Class(new, u) = {u}
    <3>1. Class(rep, u) = {u} /\ u # v /\ u \in Var /\ v \in Node
      BY <1>1, <1>3, NodeFacts DEF Visiting, Var
    <3>2. u # r
      BY <1>3, <3>1 DEF Class
    <3>3. rep[Of(c)] # u
      BY <1>3, <3>1, NodeFacts DEF Class
    <3> QED
      BY <1>7, <3>1, <3>2, <3>3, NodeFacts DEF Class
  <2>6. \A u \in 1 .. (v - 1) : \A d \in ClausesOf(graph, u) : Linked(new, u, d)'
    BY <1>1, <2>2, <2>4 DEF Visiting
  <2>7. \A d \in ClausesOf(graph, v) \ left' : Linked(new, v, d)'
    BY <1>1, <1>3, <1>5, <2>2, <2>3 DEF Visiting
  <2> QED
    BY <1>1, <1>3, <1>5, <2>1, <2>5, <2>6, <2>7 DEF Visiting, Class
<1>12. CallRight'
  BY <1>5, <1>6, <1>7, <1>10, <1>11 DEF CallRight
<1>13. CcTypeOK' /\ graph' \in Residuals /\ m_markView' \subseteq Clause
  BY <1>3, <1>5, <1>6 DEF CcInv, CcTypeOK
<1> QED
  BY <1>12, <1>13 DEF CcInv

(* A clause seen before: its parent is in its cluster. *)
LEMMA VisitSeenInv ==
  ASSUME CcInv, NEW c \in left, VisitSeen(c)
  PROVE  CcInv'
<1>1. PICK rep \in [Node -> 0 .. NbVar] : Forest(rep) /\ Sound(rep) /\ Visiting(rep)
  BY VisitFacts DEF VisitSeen
<1>2. /\ pc = "visit" /\ pc' = "find" /\ rootW' = parent[Of(c)] /\ left' = left \ {c}
      /\ UNCHANGED << graph, v, rootV, parent, size, pos, m_markView, varCo,
                      freeVar, calls >>
      /\ c \in m_markView /\ c \in ClausesOf(graph, v) /\ c \in Clause
  BY <1>1 DEF VisitSeen, Visiting, ClausesOf
<1>3. rootW' \in Var /\ rep[rootW'] = rep[Of(c)]
  BY <1>1, <1>2 DEF Forest, Clauses
<1>4. Forest(rep)' /\ Sound(rep)'
  BY <1>1, <1>2 DEF Forest, Sound, Clauses
<1>5. \A d \in ClausesOf(graph, v) \ (left' \cup {c}) : Linked(rep, v, d)
  BY <1>1, <1>2 DEF Visiting
<1>6. Visiting(rep)'
  BY <1>1, <1>2, <1>3, <1>5 DEF Visiting, Linked
<1>7. CallRight'
  BY <1>2, <1>4, <1>6 DEF CallRight
<1> QED
  BY <1>2, <1>3, <1>7 DEF CcInv, CcTypeOK

(* A step towards the root of the clause. *)
LEMMA FindStepInv ==
  ASSUME CcInv, FindStep
  PROVE  CcInv'
<1>1. PICK rep \in [Node -> 0 .. NbVar] : Forest(rep) /\ Sound(rep) /\ Visiting(rep)
  BY VisitFacts DEF FindStep
<1>2. /\ pc = "find" /\ Halve
      /\ UNCHANGED << pc, graph, v, left, rootV, size, pos, m_markView, varCo,
                      freeVar, calls >>
  BY DEF FindStep
<1>3. /\ Forest(rep)' /\ rootW' \in Var /\ rep[rootW'] = rep[rootW]
      /\ parent' \in [Node -> 0 .. NbVar]
  BY <1>1, <1>2, HalveStep DEF CcInv
<1>4. Sound(rep)'
  BY <1>1, <1>2 DEF Sound
<1>5. Visiting(rep)'
  BY <1>1, <1>2, <1>3 DEF Visiting, Linked
<1>6. CallRight'
  BY <1>2, <1>3, <1>4, <1>5 DEF CallRight
<1> QED
  BY <1>2, <1>3, <1>6 DEF CcInv, CcTypeOK

(***************************************************************************)
(* Two roots become one: A hangs on B.  The clause d of v is what connects *)
(* them, so the cluster made is sound, and d is linked to v from now on.   *)
(***************************************************************************)
LEMMA UnionStep ==
  ASSUME CcInv, NEW CONSTANT rep, Forest(rep), Sound(rep), Visiting(rep),
         rep \in [Node -> 0 .. NbVar],
         pc = "find", pc' = "visit",
         NEW CONSTANT A, NEW CONSTANT B, {A, B} = {rootV, rootW}, Hang(A, B), rootV' = B,
         UNCHANGED << graph, v, left, rootW, pos, m_markView, varCo, freeVar, calls >>
  PROVE  CcInv'
<1>1. PICK d \in m_markView \cap ClausesOf(graph, v) :
         /\ rep[rootW] = rep[Of(d)]
         /\ \A c \in ClausesOf(graph, v) \ (left \cup {d}) : Linked(rep, v, c)
  BY DEF Visiting
<1>2. PICK x : x = rootV
  OBVIOUS
<1>3. PICK y : y = rootW
  OBVIOUS
<1>4. /\ v \in Var /\ v \in Node /\ x \in Var /\ y \in Var /\ rep[v] = x
      /\ parent[x] = x /\ parent[y] = y /\ rep[x] = x /\ rep[y] = y
      /\ d \in Clause /\ rep[Of(d)] = y /\ Of(d) \in Node /\ v \in graph[d]
  <2>1. v \in Var /\ rep[v] = x /\ y \in Var /\ d \in Clause /\ v \in graph[d]
    BY <1>1, <1>2, <1>3 DEF Visiting, CcInv, CcTypeOK, ClausesOf
  <2> QED
    BY <1>1, <1>2, <1>3, <2>1, NodeFacts DEF Forest, Hang
<1>5. /\ A \in Var /\ B \in Var
      /\ (A = x /\ B = y) \/ (A = y /\ B = x)
  BY <1>2, <1>3, <1>4
<1>6. PICK new : new = [n \in Node |-> IF rep[n] = A THEN B ELSE rep[n]]
  OBVIOUS
<1>7. /\ Forest(new)'
      /\ parent' \in [Node -> 0 .. NbVar]
      /\ size' \in [Node -> 0 .. (NbVar + NbClause)]
  <2>1. CcTypeOK /\ m_markView \subseteq Clause /\ m_markView' = m_markView
    BY DEF CcInv
  <2> QED
    BY <1>5, <1>6, <2>1, MergeStep
<1>8. \A n \in Node : new[n] = IF rep[n] = A THEN B ELSE rep[n]
  BY <1>6
<1>9. new \in [Node -> 0 .. NbVar]
  BY <1>5, <1>6, NodeFacts
<1>10. new[v] = B /\ new[Of(d)] = B
  BY <1>4, <1>5, <1>8
<1>11. Connected(graph, A, B)
  <2>1. Connected(graph, v, x) /\ Connected(graph, v, y)
    BY <1>1, <1>4 DEF Sound
  <2> QED
    BY <1>5, <2>1, ConnectedEquiv
<1>12. ASSUME NEW u, NEW n \in Node, Connected(graph, u, rep[n])
       PROVE  Connected(graph, u, new[n])
  BY <1>8, <1>11, <1>12, ConnectedEquiv
<1>13. Sound(new)'
  <2>1. \A u \in Var : Connected(graph, u, new[u])
    BY <1>12, NodeFacts DEF Sound
  <2>2. \A c \in m_markView :
          graph[c] # {} /\ \A u \in graph[c] : Connected(graph, u, new[Of(c)])
    BY <1>12, NodeFacts DEF Sound, CcInv
  <2> QED
    BY <2>1, <2>2 DEF Sound
<1>14. Visiting(new)'
  <2>1. ASSUME NEW u \in Var, NEW c, Linked(rep, u, c)
        PROVE  Linked(new, u, c)
    <3>1. c \in m_markView /\ Of(c) \in Node /\ u \in Node /\ rep[Of(c)] = rep[u]
      BY <2>1, NodeFacts DEF Linked, CcInv
    <3> QED
      BY <1>8, <3>1 DEF Linked
  <2>2. \A u \in 1 .. (v - 1) : u \in Var
    BY <1>4, NodeFacts DEF Var
  <2>3. \A u \in 1 .. (v - 1) : \A c \in ClausesOf(graph, u) : Linked(new, u, c)
    BY <2>1, <2>2 DEF Visiting
  <2>4. \A c \in ClausesOf(graph, v) \ left : Linked(new, v, c)
    BY <1>1, <1>4, <1>10, <2>1 DEF Linked
  <2>5. ASSUME NEW u \in (v + 1) .. NbVar
        PROVE  Class(new, u) = {u}
    <3>1. Class(rep, u) = {u} /\ u # v /\ u \in Var
      BY <1>4, NodeFacts DEF Visiting, Var
    <3>2. u # x /\ u # y
      BY <1>4, <3>1, NodeFacts DEF Class
    <3> QED
      BY <1>5, <1>8, <3>1, <3>2 DEF Class
  <2> QED
    BY <1>4, <1>10, <2>3, <2>4, <2>5 DEF Visiting, Linked, Class
<1>15. CallRight'
  BY <1>7, <1>9, <1>13, <1>14 DEF CallRight
<1>16. CcTypeOK' /\ graph' \in Residuals /\ m_markView' \subseteq Clause
  BY <1>5, <1>7 DEF CcInv, CcTypeOK
<1> QED
  BY <1>15, <1>16 DEF CcInv

(* The root of the clause is found and joined with that of the variable. *)
LEMMA FindEndInv ==
  ASSUME CcInv, FindEnd
  PROVE  CcInv'
<1>1. PICK rep \in [Node -> 0 .. NbVar] : Forest(rep) /\ Sound(rep) /\ Visiting(rep)
  BY VisitFacts DEF FindEnd
<1>2. /\ pc = "find" /\ pc' = "visit" /\ parent[rootW] = rootW /\ Merge
      /\ UNCHANGED << graph, v, left, rootW, pos, m_markView, varCo, freeVar, calls >>
  BY DEF FindEnd
<1>3. CASE rootV = rootW
  <2>1. UNCHANGED << size, parent, rootV >>
    BY <1>2, <1>3 DEF Merge
  <2>2. PICK d \in m_markView \cap ClausesOf(graph, v) :
           /\ rep[rootW] = rep[Of(d)]
           /\ \A c \in ClausesOf(graph, v) \ (left \cup {d}) : Linked(rep, v, c)
    BY <1>1, <1>2 DEF Visiting
  <2>3. rep[Of(d)] = rep[v]
    BY <1>1, <1>2, <1>3, <2>2 DEF Visiting, Forest
  <2>4. \A c \in ClausesOf(graph, v) \ left : Linked(rep, v, c)
    BY <2>2, <2>3 DEF Linked
  <2>5. Forest(rep)' /\ Sound(rep)'
    BY <1>1, <1>2, <2>1 DEF Forest, Sound, Clauses
  <2>6. Visiting(rep)'
    BY <1>1, <1>2, <2>1, <2>4 DEF Visiting, Linked
  <2>7. CallRight'
    BY <1>1, <1>2, <2>5, <2>6 DEF CallRight
  <2> QED
    BY <1>2, <2>1, <2>7 DEF CcInv, CcTypeOK
<1>4. CASE rootV # rootW
  <2>1. PICK x : x = rootV
    OBVIOUS
  <2>2. PICK y : y = rootW
    OBVIOUS
  <2>3. parent[x] = x /\ size[x] \in Nat /\ size[y] \in Nat
    <3>1. rootV \in Var /\ rootW \in Var
      BY DEF CcInv, CcTypeOK
    <3> QED
      BY <1>1, <2>1, <2>2, <3>1, NodeFacts DEF Visiting, Forest, CcInv, CcTypeOK
  <2>4. CASE size[x] < size[y]
    <3>1. /\ size' = [size EXCEPT ![y] = @ + size[x]]
          /\ parent' = [parent EXCEPT ![x] = y]
          /\ rootV' = y
      BY <1>2, <1>4, <2>1, <2>2, <2>4 DEF Merge, Union
    <3>2. Hang(x, y) /\ {x, y} = {rootV, rootW}
      BY <1>2, <1>4, <3>1, <2>1, <2>2, <2>3, <2>4 DEF Hang
    <3> QED
      BY <1>1, <1>2, <3>1, <3>2, UnionStep
  <2>5. CASE ~(size[x] < size[y])
    <3>1. /\ size' = [size EXCEPT ![x] = @ + size[y]]
          /\ parent' = [parent EXCEPT ![y] = x]
          /\ rootV' = x
      BY <1>2, <1>4, <2>1, <2>2, <2>3, <2>5 DEF Merge, Union
    <3>2. Hang(y, x) /\ {y, x} = {rootV, rootW}
      BY <1>2, <1>4, <3>1, <2>1, <2>2, <2>3, <2>5 DEF Hang
    <3> QED
      BY <1>1, <1>2, <3>1, <3>2, UnionStep
  <2> QED
    BY <2>4, <2>5
<1> QED
  BY <1>3, <1>4

(* On to the next variable, and after the last to the second loop. *)
LEMMA NextVisitInv ==
  ASSUME CcInv, NextVisit
  PROVE  CcInv'
<1>1. PICK rep \in [Node -> 0 .. NbVar] : Forest(rep) /\ Sound(rep) /\ Visiting(rep)
  BY VisitFacts DEF NextVisit
<1>2. /\ pc = "visit" /\ left = {}
      /\ UNCHANGED << graph, rootW, parent, size, pos, m_markView, varCo, freeVar, calls >>
  BY DEF NextVisit
<1>3. Forest(rep)' /\ Sound(rep)'
  BY <1>1, <1>2 DEF Forest, Sound, Clauses
<1>4. v \in Var /\ v \in Nat /\ NbVar \in Nat /\ v <= NbVar
  BY <1>1, NodeFacts DEF Visiting, Var
<1>5. \A u \in 1 .. v : \A c \in ClausesOf(graph, u) : Linked(rep, u, c)
  <2>1. \A u \in 1 .. v : u = v \/ u \in 1 .. (v - 1)
    BY <1>4
  <2>2. \A c \in ClausesOf(graph, v) : Linked(rep, v, c)
    BY <1>1, <1>2 DEF Visiting
  <2>3. \A u \in 1 .. (v - 1) : \A c \in ClausesOf(graph, u) : Linked(rep, u, c)
    BY <1>1 DEF Visiting
  <2> QED
    BY <2>1, <2>2, <2>3
<1>6. freeVar = {} /\ varCo = << >> /\ pos = [n \in Node |-> -1]
  BY <1>1 DEF Visiting
<1>7. CASE v < NbVar
  <2>1. /\ v' = v + 1 /\ left' = ClausesOf(graph, v + 1) /\ rootV' = v + 1 /\ pc' = pc
    BY <1>4, <1>7 DEF NextVisit, NextRoot
  <2>2. v + 1 \in Var /\ rep[v + 1] = v + 1
    <3>1. v + 1 \in (v + 1) .. NbVar /\ v + 1 \in Var
      BY <1>4, <1>7 DEF Var
    <3>2. v + 1 \in Class(rep, v + 1)
      BY <1>1, <3>1 DEF Visiting
    <3> QED
      BY <3>1, <3>2 DEF Class
  <2>3. \A u \in (v + 2) .. NbVar : Class(rep, u) = {u}
    <3>1. \A u \in (v + 2) .. NbVar : u \in (v + 1) .. NbVar
      BY <1>4
    <3> QED
      BY <1>1, <3>1 DEF Visiting
  <2>4. v' - 1 = v /\ v' + 1 = v + 2
    BY <1>4, <2>1
  <2>5. Visiting(rep)'
    BY <1>2, <1>5, <1>6, <2>1, <2>2, <2>3, <2>4 DEF Visiting, Linked, Class
  <2>6. CallRight'
    BY <1>1, <1>2, <1>3, <2>1, <2>5 DEF CallRight
  <2>7. v + 1 \in 1 .. (NbVar + 1) /\ ClausesOf(graph, v + 1) \subseteq Clause
    BY <1>4, <1>7 DEF ClausesOf
  <2> QED
    BY <1>2, <2>1, <2>2, <2>6, <2>7 DEF CcInv, CcTypeOK
<1>8. CASE v = NbVar
  <2>1. v' = 1 /\ pc' = "collect" /\ left' = left /\ rootV' = rootV
    BY <1>4, <1>8 DEF NextVisit
  <2>2. \A u \in Var : ~(u < 1)
    BY DEF Var
  <2>3. AllLinked(rep)'
    BY <1>2, <1>5, <1>8 DEF AllLinked, Var, Linked
  <2>4. UsedRoots' = {} /\ \A r \in Var : pos'[r] = -1
    BY <1>2, <1>6, NodeFacts DEF UsedRoots
  <2>5. \A r \in Var : Gathered(rep, r, v)' = {}
    BY <2>1, <2>2 DEF Gathered
  <2>6. varCo' = << >> /\ Len(varCo') = 0 /\ DOMAIN varCo' = {}
    BY <1>2, <1>6
  <2>7. Placed(rep)'
    BY <2>4, <2>5, <2>6, FS_EmptySet DEF Placed
  <2>8. freeVar' = {u \in Var : u < v' /\ ClausesOf(graph', u) = {}}
    BY <1>2, <1>6, <2>1, <2>2
  <2>9. Collecting(rep)'
    BY <2>1, <2>3, <2>7, <2>8 DEF Collecting
  <2>10. CallRight'
    BY <1>1, <1>3, <2>1, <2>9 DEF CallRight
  <2>11. 1 \in 1 .. (NbVar + 1)
    BY <1>4
  <2> QED
    BY <1>2, <2>1, <2>10, <2>11 DEF CcInv, CcTypeOK
<1> QED
  BY <1>4, <1>7, <1>8

------------------------------------------------------------------------------
(* The second loop. *)

(* What CallRight says of the second loop. *)
LEMMA CollectFacts ==
  ASSUME CcInv, pc \in {"collect", "root"}
  PROVE  \E rep \in [Node -> 0 .. NbVar] : Forest(rep) /\ Sound(rep) /\ Collecting(rep)
  BY DEF CcInv, CallRight

(* The clauses hold variables. *)
LEMMA GraphType ==
  ASSUME graph \in Residuals, NEW c \in Clause
  PROVE  graph[c] \subseteq Var
  BY DEF Residuals

(* The test on the size of a cluster finds the variables without a clause. *)
LEMMA FreeRight ==
  ASSUME CcInv, NEW CONSTANT rep, Forest(rep), Sound(rep), AllLinked(rep), NEW u \in Var
  PROVE  IsFree(u) <=> ClausesOf(graph, u) = {}
<1>1. u \in Node /\ IsFiniteSet(Class(rep, u)) /\ m_markView \subseteq Clause
  BY NodeFacts, NodesFinite DEF Class, CcInv
<1>2. ASSUME IsFree(u), NEW c \in ClausesOf(graph, u) PROVE FALSE
  <2>1. rep[u] = u /\ Cardinality(Class(rep, u)) = 1
    BY <1>2 DEF IsFree, Forest
  <2>2. PICK x : Class(rep, u) = {x}
    BY <1>1, <2>1, FS_Singleton
  <2>3. c \in Clause /\ rep[Of(c)] = u
    BY <1>2, <2>1 DEF AllLinked, Linked, ClausesOf
  <2>4. u \in Class(rep, u) /\ Of(c) \in Class(rep, u) /\ Of(c) # u
    BY <1>1, <2>1, <2>3, NodeFacts DEF Class
  <2> QED
    BY <2>2, <2>4
<1>3. ASSUME ClausesOf(graph, u) = {} PROVE IsFree(u)
  <2>1. rep[u] = u
    BY <1>3, FreeAlone DEF Sound
  <2>2. parent[u] = u /\ size[u] = Cardinality(Class(rep, u))
    BY <2>1 DEF Forest
  <2>3. \A w \in Var : rep[w] = u => w = u
    BY <1>3, FreeAlone, ConnectedEquiv DEF Sound
  <2>4. ASSUME NEW c \in Clause, rep[Of(c)] = u PROVE FALSE
    <3>1. c \in m_markView
      BY <2>4 DEF Forest, Clauses, Var
    <3>2. PICK w \in graph[c] : Connected(graph, w, u)
      BY <2>4, <3>1 DEF Sound
    <3>3. w = u
      BY <1>3, <3>2, FreeAlone, ConnectedEquiv
    <3> QED
      BY <1>3, <2>4, <3>2, <3>3 DEF ClausesOf
  <2>5. Class(rep, u) = {u}
    <3>1. \A n \in Node : rep[n] = u => n = u
      BY <2>3, <2>4, NodeFacts
    <3> QED
      BY <1>1, <2>1, <3>1 DEF Class
  <2> QED
    BY <2>2, <2>5, FS_Singleton DEF IsFree
<1> QED
  BY <1>2, <1>3

(* The clusters are the components once every clause is linked. *)
LEMMA ClusterIsComponent ==
  ASSUME CcInv, NEW CONSTANT rep, Forest(rep), Sound(rep), AllLinked(rep),
         NEW u \in Var, NEW w \in Var
  PROVE  Connected(graph, u, w) <=> rep[u] = rep[w]
<1>1. ASSUME rep[u] = rep[w] PROVE Connected(graph, u, w)
  BY <1>1, ConnectedEquiv DEF Sound
<1>2. ASSUME Connected(graph, u, w) PROVE rep[u] = rep[w]
  <2> DEFINE S == {x \in Var : rep[x] = rep[u]}
  <2>1. ASSUME NEW c \in Clause, NEW x \in graph[c], x \in S, NEW y \in graph[c]
        PROVE  y \in S
    <3>1. x \in Var /\ y \in Var /\ c \in ClausesOf(graph, x) /\ c \in ClausesOf(graph, y)
      BY <2>1, GraphType DEF ClausesOf, CcInv
    <3> QED
      BY <2>1, <3>1 DEF AllLinked, Linked
  <2>2. S \in Closed(graph)
    BY <2>1 DEF Closed
  <2>3. u \in S
    OBVIOUS
  <2> QED
    BY <1>2, <2>2, <2>3 DEF Connected
<1> QED
  BY <1>1, <1>2

(* The second loop is past one more variable. *)
LEMMA GatheredNext ==
  ASSUME NEW rep, NEW n \in Var, NEW r
  PROVE  Gathered(rep, r, n + 1) =
           IF rep[n] = r /\ ClausesOf(graph, n) # {}
           THEN Gathered(rep, r, n) \cup {n}
           ELSE Gathered(rep, r, n)
<1>1. \A u \in Var : u < n + 1 <=> (u < n \/ u = n)
  BY NodeFacts
<1> QED
  BY <1>1 DEF Gathered

(* The components made so far, when the loop does not go on. *)
LEMMA PlacedKept ==
  ASSUME NEW CONSTANT rep, UNCHANGED << graph, v, pos, varCo >>, Placed(rep)
  PROVE  Placed(rep)'
<1>1. UsedRoots' = UsedRoots /\ \A r : Gathered(rep, r, v)' = Gathered(rep, r, v)
  BY DEF UsedRoots, Gathered
<1> QED
  BY <1>1 DEF Placed

(* A free variable is set aside, of any other the root is looked for. *)
LEMMA CollectInv ==
  ASSUME CcInv, Collect
  PROVE  CcInv'
<1>1. PICK rep \in [Node -> 0 .. NbVar] : Forest(rep) /\ Sound(rep) /\ Collecting(rep)
  BY CollectFacts DEF Collect
<1>2. /\ pc = "collect" /\ v \in Var /\ v \in Nat /\ NbVar \in Nat /\ v <= NbVar
      /\ UNCHANGED << graph, left, rootV, parent, size, pos, m_markView, varCo, calls >>
  BY NodeFacts DEF Collect, CcInv, CcTypeOK, Var
<1>3. Forest(rep)' /\ Sound(rep)' /\ AllLinked(rep)'
  BY <1>1, <1>2 DEF Forest, Sound, Clauses, Collecting, AllLinked, Linked
<1>4. IsFree(v) <=> ClausesOf(graph, v) = {}
  BY <1>1, <1>2, FreeRight DEF Collecting
<1>5. CASE IsFree(v)
  <2>1. freeVar' = freeVar \cup {v} /\ v' = v + 1 /\ pc' = pc /\ rootW' = rootW
    BY <1>5 DEF Collect
  <2>2. \A u \in Var : u < v + 1 <=> (u < v \/ u = v)
    BY <1>2, NodeFacts
  <2>3. freeVar' = {u \in Var : u < v' /\ ClausesOf(graph', u) = {}}
    BY <1>1, <1>2, <1>4, <1>5, <2>1, <2>2 DEF Collecting
  <2>4. \A r : Gathered(rep, r, v)' = Gathered(rep, r, v)
    <3>1. \A r : Gathered(rep, r, v + 1) = Gathered(rep, r, v)
      BY <1>2, <1>4, <1>5, GatheredNext
    <3> QED
      BY <1>2, <2>1, <3>1 DEF Gathered
  <2>5. Placed(rep)'
    BY <1>1, <1>2, <2>4 DEF Placed, Collecting, UsedRoots
  <2>6. Collecting(rep)'
    BY <1>2, <1>3, <2>1, <2>3, <2>5 DEF Collecting
  <2>7. CallRight'
    BY <1>1, <1>2, <1>3, <2>1, <2>6 DEF CallRight
  <2>8. v + 1 \in 1 .. (NbVar + 1) /\ freeVar \cup {v} \subseteq Var
    BY <1>2 DEF CcInv, CcTypeOK
  <2> QED
    BY <1>2, <2>1, <2>7, <2>8 DEF CcInv, CcTypeOK
<1>6. CASE ~IsFree(v)
  <2>1. rootW' = parent[v] /\ pc' = "root" /\ v' = v /\ freeVar' = freeVar
    BY <1>6 DEF Collect
  <2>2. rootW' \in Var /\ rep[rootW'] = rep[v] /\ ClausesOf(graph, v) # {}
    BY <1>1, <1>2, <1>4, <1>6, <2>1 DEF Forest
  <2>3. Placed(rep)'
    BY <1>1, <1>2, <2>1, PlacedKept DEF Collecting
  <2>4. Collecting(rep)'
    BY <1>1, <1>2, <1>3, <2>1, <2>2, <2>3 DEF Collecting
  <2>5. CallRight'
    BY <1>1, <1>2, <1>3, <2>1, <2>4 DEF CallRight
  <2> QED
    BY <1>2, <2>1, <2>2, <2>5 DEF CcInv, CcTypeOK
<1> QED
  BY <1>5, <1>6

(* A step towards the root of the variable. *)
LEMMA RootStepInv ==
  ASSUME CcInv, RootStep
  PROVE  CcInv'
<1>1. PICK rep \in [Node -> 0 .. NbVar] : Forest(rep) /\ Sound(rep) /\ Collecting(rep)
  BY CollectFacts DEF RootStep
<1>2. /\ pc = "root" /\ Halve
      /\ UNCHANGED << pc, graph, v, left, rootV, size, pos, m_markView, varCo,
                      freeVar, calls >>
  BY DEF RootStep
<1>3. /\ Forest(rep)' /\ rootW' \in Var /\ rep[rootW'] = rep[rootW]
      /\ parent' \in [Node -> 0 .. NbVar]
  BY <1>1, <1>2, HalveStep DEF CcInv
<1>4. Sound(rep)'
  BY <1>1, <1>2 DEF Sound
<1>5. Collecting(rep)'
  BY <1>1, <1>2, <1>3, PlacedKept DEF Collecting, AllLinked, Linked
<1>6. CallRight'
  BY <1>2, <1>3, <1>4, <1>5 DEF CallRight
<1> QED
  BY <1>2, <1>3, <1>6 DEF CcInv, CcTypeOK

(* The variable is put into the component of its root. *)
LEMMA RootEndInv ==
  ASSUME CcInv, RootEnd
  PROVE  CcInv'
<1>1. PICK rep \in [Node -> 0 .. NbVar] : Forest(rep) /\ Sound(rep) /\ Collecting(rep)
  BY CollectFacts DEF RootEnd
<1>2. /\ pc = "root" /\ pc' = "collect" /\ v' = v + 1 /\ parent[rootW] = rootW
      /\ UNCHANGED << graph, left, rootV, rootW, parent, size, m_markView, freeVar, calls >>
  BY DEF RootEnd
<1>3. PICK r : r = rootW
  OBVIOUS
<1>4. /\ v \in Var /\ v \in Nat /\ NbVar \in Nat /\ v <= NbVar
      /\ r \in Var /\ r \in Node /\ rep[v] = r
      /\ ClausesOf(graph, v) # {}
  BY <1>1, <1>2, <1>3, NodeFacts DEF Collecting, Forest, CcInv, CcTypeOK, Var
<1>5. Forest(rep)' /\ Sound(rep)' /\ AllLinked(rep)'
  BY <1>1, <1>2 DEF Forest, Sound, Clauses, Collecting, AllLinked, Linked
<1>6. freeVar' = {u \in Var : u < v' /\ ClausesOf(graph', u) = {}}
  <2>1. \A u \in Var : u < v + 1 <=> (u < v \/ u = v)
    BY <1>4, NodeFacts
  <2> QED
    BY <1>1, <1>2, <1>4, <2>1 DEF Collecting
<1>7. /\ \A s : s # r => Gathered(rep, s, v)' = Gathered(rep, s, v)
      /\ Gathered(rep, r, v)' = Gathered(rep, r, v) \cup {v}
  <2>1. \A s : Gathered(rep, s, v)' = Gathered(rep, s, v + 1)
    BY <1>2 DEF Gathered
  <2> QED
    BY <1>4, <2>1, GatheredNext
<1>8. /\ \A s \in Var : pos[s] = -1 <=> Gathered(rep, s, v) = {}
      /\ \A s \in UsedRoots :
            pos[s] + 1 \in DOMAIN varCo /\ varCo[pos[s] + 1] = Gathered(rep, s, v)
      /\ \A k \in DOMAIN varCo : \E s \in UsedRoots : pos[s] + 1 = k
      /\ Len(varCo) = Cardinality(UsedRoots)
  BY <1>1 DEF Collecting, Placed
<1>9. /\ varCo \in Seq(SUBSET Var) /\ pos \in [Node -> -1 .. (NbVar - 1)]
      /\ Len(varCo) \in Nat /\ DOMAIN varCo = 1 .. Len(varCo)
      /\ \A s \in Var : s \in Node /\ pos[s] \in Int
  <2>1. varCo \in Seq(SUBSET Var) /\ pos \in [Node -> -1 .. (NbVar - 1)]
    BY DEF CcInv, CcTypeOK
  <2>2. \A s \in Var : s \in Node
    BY NodeFacts
  <2>3. \A s \in Var : pos[s] \in Int
    BY <1>4, <2>1, <2>2
  <2> QED
    BY <2>1, <2>2, <2>3
<1>10. CASE pos[r] = -1
  <2>1. pos' = [pos EXCEPT ![r] = Len(varCo)] /\ varCo' = Append(varCo, {v})
    BY <1>3, <1>10 DEF RootEnd
  <2>2. pos'[r] = Len(varCo) /\ \A s \in Var : s # r => pos'[s] = pos[s]
    BY <1>4, <1>9, <2>1
  <2>3. UsedRoots' = UsedRoots \cup {r} /\ r \notin UsedRoots
    <3>1. Len(varCo) # -1
      BY <1>9
    <3> QED
      BY <1>4, <1>10, <2>2, <3>1 DEF UsedRoots
  <2>4. IsFiniteSet(UsedRoots) /\ Cardinality(UsedRoots \cup {r}) <= NbVar
    <3>1. IsFiniteSet(Var) /\ Cardinality(Var) = NbVar
      BY <1>4, FS_Interval DEF Var
    <3>2. UsedRoots \subseteq Var /\ UsedRoots \cup {r} \subseteq Var
      BY <1>4 DEF UsedRoots
    <3> QED
      BY <3>1, <3>2, FS_Subset
  <2>5. Cardinality(UsedRoots') = Len(varCo) + 1 /\ Len(varCo) <= NbVar - 1
    <3>1. Cardinality(UsedRoots') = Cardinality(UsedRoots) + 1
      BY <2>3, <2>4, FS_AddElement
    <3>2. Cardinality(UsedRoots') <= NbVar /\ Cardinality(UsedRoots) = Len(varCo)
      BY <1>8, <2>3, <2>4
    <3> QED
      BY <1>4, <1>9, <3>1, <3>2
  <2>6. /\ Len(varCo') = Len(varCo) + 1 /\ DOMAIN varCo' = 1 .. (Len(varCo) + 1)
        /\ varCo'[Len(varCo) + 1] = {v}
        /\ \A k \in DOMAIN varCo : varCo'[k] = varCo[k]
        /\ varCo' \in Seq(SUBSET Var)
    BY <1>4, <1>9, <2>1
  <2>7. Gathered(rep, r, v)' = {v}
    BY <1>4, <1>7, <1>8, <1>10
  <2>8. \A s \in Var : pos'[s] = -1 <=> Gathered(rep, s, v)' = {}
    <3>1. pos'[r] # -1 /\ Gathered(rep, r, v)' # {}
      BY <1>9, <2>2, <2>7
    <3>2. \A s \in Var : s # r =>
            pos'[s] = pos[s] /\ Gathered(rep, s, v)' = Gathered(rep, s, v)
      BY <1>7, <2>2
    <3> QED
      BY <1>8, <3>1, <3>2
  <2>9. \A s \in UsedRoots' :
          pos'[s] + 1 \in DOMAIN varCo' /\ varCo'[pos'[s] + 1] = Gathered(rep, s, v)'
    <3> SUFFICES ASSUME NEW s \in UsedRoots \cup {r}
                 PROVE  /\ pos'[s] + 1 \in DOMAIN varCo'
                        /\ varCo'[pos'[s] + 1] = Gathered(rep, s, v)'
      BY <2>3
    <3>1. CASE s = r
      <4>1. Len(varCo) + 1 \in DOMAIN varCo'
        BY <1>9, <2>6
      <4>2. varCo'[Len(varCo) + 1] = Gathered(rep, r, v)'
        BY <2>6, <2>7
      <4> QED
        BY <2>2, <3>1, <4>1, <4>2
    <3>2. CASE s # r
      <4>1. s \in UsedRoots /\ s \in Var
        BY <3>2 DEF UsedRoots
      <4>2. pos'[s] = pos[s] /\ pos[s] + 1 \in DOMAIN varCo
        BY <1>8, <2>2, <3>2, <4>1
      <4>3. pos[s] + 1 \in DOMAIN varCo'
        BY <1>9, <2>6, <4>2
      <4> QED
        BY <1>7, <1>8, <2>6, <3>2, <4>1, <4>2, <4>3
    <3> QED
      BY <3>1, <3>2
  <2>10. \A k \in DOMAIN varCo' : \E s \in UsedRoots' : pos'[s] + 1 = k
    <3> SUFFICES ASSUME NEW k \in DOMAIN varCo'
                 PROVE  \E s \in UsedRoots \cup {r} : pos'[s] + 1 = k
      BY <2>3
    <3>1. CASE k = Len(varCo) + 1
      BY <2>2, <3>1
    <3>2. CASE k # Len(varCo) + 1
      <4>1. k \in DOMAIN varCo
        BY <1>9, <2>6, <3>2
      <4>2. PICK s \in UsedRoots : pos[s] + 1 = k
        BY <1>8, <4>1
      <4> QED
        BY <2>2, <2>3, <4>2 DEF UsedRoots
    <3> QED
      BY <3>1, <3>2
  <2>11. Placed(rep)'
    BY <2>5, <2>6, <2>8, <2>9, <2>10 DEF Placed
  <2>12. pos' \in [Node -> -1 .. (NbVar - 1)]
    <3>1. Len(varCo) \in -1 .. (NbVar - 1)
      BY <1>4, <1>9, <2>5
    <3> QED
      BY <1>9, <2>1, <3>1
  <2>13. Collecting(rep)'
    BY <1>2, <1>5, <1>6, <2>11 DEF Collecting
  <2>14. CallRight'
    BY <1>1, <1>2, <1>5, <2>13 DEF CallRight
  <2>15. v + 1 \in 1 .. (NbVar + 1)
    BY <1>4
  <2> QED
    BY <1>2, <2>6, <2>12, <2>14, <2>15 DEF CcInv, CcTypeOK
<1>11. CASE pos[r] # -1
  <2>1. PICK i : i = pos[r] + 1
    OBVIOUS
  <2>2. pos' = pos /\ varCo' = [varCo EXCEPT ![i] = @ \cup {v}]
    BY <1>3, <1>11, <2>1 DEF RootEnd
  <2>3. r \in UsedRoots /\ UsedRoots' = UsedRoots
    BY <1>4, <1>11, <2>2 DEF UsedRoots
  <2>4. i \in DOMAIN varCo /\ varCo[i] = Gathered(rep, r, v)
    BY <1>8, <2>1, <2>3
  <2>5. /\ Len(varCo') = Len(varCo) /\ DOMAIN varCo' = DOMAIN varCo
        /\ varCo'[i] = varCo[i] \cup {v}
        /\ \A k \in DOMAIN varCo : k # i => varCo'[k] = varCo[k]
    BY <1>9, <2>2, <2>4
  <2>6. varCo' \in Seq(SUBSET Var)
    <3>1. varCo[i] \cup {v} \in SUBSET Var
      BY <1>4, <1>9, <2>4
    <3> QED
      BY <1>9, <2>2, <2>4, <3>1
  <2>7. \A s \in Var : pos'[s] = -1 <=> Gathered(rep, s, v)' = {}
    BY <1>7, <1>8, <1>11, <2>2
  <2>8. ASSUME NEW s \in UsedRoots
        PROVE  pos[s] + 1 \in DOMAIN varCo /\ varCo'[pos[s] + 1] = Gathered(rep, s, v)'
    <3>1. CASE s = r
      BY <1>7, <2>1, <2>4, <2>5, <3>1
    <3>2. CASE s # r
      <4>1. /\ pos[s] + 1 \in DOMAIN varCo /\ varCo[pos[s] + 1] = Gathered(rep, s, v)
            /\ Gathered(rep, s, v) # {}
        BY <1>8 DEF UsedRoots
      <4>2. pos[s] + 1 # i
        BY <2>4, <3>2, <4>1 DEF Gathered
      <4> QED
        BY <1>7, <2>5, <3>2, <4>1, <4>2
    <3> QED
      BY <3>1, <3>2
  <2>9. Placed(rep)'
    BY <1>8, <2>2, <2>3, <2>5, <2>7, <2>8 DEF Placed
  <2>10. Collecting(rep)'
    BY <1>2, <1>5, <1>6, <2>9 DEF Collecting
  <2>11. CallRight'
    BY <1>1, <1>2, <1>5, <2>10 DEF CallRight
  <2>12. v + 1 \in 1 .. (NbVar + 1)
    BY <1>4
  <2> QED
    BY <1>2, <2>2, <2>6, <2>11, <2>12 DEF CcInv, CcTypeOK
<1> QED
  BY <1>10, <1>11

(* The end of a call: the components collected are those of the formula. *)
LEMMA CollectEndInv ==
  ASSUME CcInv, CollectEnd
  PROVE  CcInv'
<1>1. PICK rep \in [Node -> 0 .. NbVar] : Forest(rep) /\ Sound(rep) /\ Collecting(rep)
  BY CollectFacts DEF CollectEnd
<1>2. /\ pc = "collect" /\ pc' = "done" /\ v > NbVar
      /\ m_markView' = {} /\ pos' = [n \in Node |-> -1]
      /\ UNCHANGED << graph, v, left, rootV, rootW, parent, size, varCo, freeVar, calls >>
  BY DEF CollectEnd, Restore
<1>3. v \in Nat /\ NbVar \in Nat /\ \A u \in Var : u \in Nat /\ u < v
  BY <1>2, NodeFacts DEF CcInv, CcTypeOK, Var
<1>4. PICK Occurring : Occurring = {u \in Var : ClausesOf(graph, u) # {}}
  OBVIOUS
<1>5. \A u, w \in Var : Connected(graph, u, w) <=> rep[u] = rep[w]
  BY <1>1, ClusterIsComponent DEF Collecting
<1>6. ASSUME NEW u \in Occurring
      PROVE  {w \in Var : Connected(graph, u, w)} = Gathered(rep, rep[u], v)
  <2>1. \A w \in Var : Connected(graph, u, w) => ClausesOf(graph, w) # {}
    BY <1>4, <1>6, FreeAlone, ConnectedEquiv
  <2> QED
    BY <1>3, <1>4, <1>5, <2>1 DEF Gathered
<1>7. Components(graph) = {Gathered(rep, rep[u], v) : u \in Occurring}
  <2>1. Components(graph) = {{w \in Var : Connected(graph, u, w)} : u \in Occurring}
    BY <1>4 DEF Components
  <2> QED
    BY <1>6, <2>1
<1>8. ASSUME NEW r \in UsedRoots
      PROVE  \E u \in Occurring : rep[u] = r
  BY <1>1, <1>4 DEF Collecting, Placed, UsedRoots, Gathered
<1>9. ASSUME NEW u \in Occurring
      PROVE  rep[u] \in UsedRoots
  <2>1. u \in Var /\ rep[u] \in Var /\ u \in Gathered(rep, rep[u], v)
    BY <1>1, <1>3, <1>4 DEF Forest, Gathered
  <2> QED
    BY <1>1, <2>1 DEF Collecting, Placed, UsedRoots
<1>10. Components(graph) = {Gathered(rep, r, v) : r \in UsedRoots}
  BY <1>7, <1>8, <1>9
<1>11. {varCo[k] : k \in DOMAIN varCo} = Components(graph)
  BY <1>1, <1>10 DEF Collecting, Placed
<1>12. Len(varCo) = Cardinality(Components(graph))
  <2> DEFINE f == [r \in UsedRoots |-> Gathered(rep, r, v)]
  <2>1. IsFiniteSet(UsedRoots)
    <3>1. IsFiniteSet(Var)
      BY <1>3, FS_Interval DEF Var
    <3> QED
      BY <3>1, FS_Subset DEF UsedRoots
  <2>2. f \in Surjection(UsedRoots, Components(graph))
    BY <1>10 DEF Surjection
  <2>3. \A r, s \in UsedRoots : Gathered(rep, r, v) = Gathered(rep, s, v) => r = s
    BY <1>1 DEF Collecting, Placed, UsedRoots, Gathered
  <2>4. f \in Injection(UsedRoots, Components(graph))
    BY <2>2, <2>3 DEF Injection, Surjection, IsInjective
  <2>5. Cardinality(Components(graph)) = Cardinality(UsedRoots)
    BY <2>1, <2>2, <2>4, FS_Surjection
  <2> QED
    BY <1>1, <2>5 DEF Collecting, Placed
<1>13. freeVar = {u \in Var : ClausesOf(graph, u) = {}}
  BY <1>1, <1>3 DEF Collecting
<1>14. ComponentsExact'
  BY <1>2, <1>11, <1>12, <1>13 DEF ComponentsExact
<1>15. CallRight'
  BY <1>2, <1>14 DEF CallRight
<1>16. pos' \in [Node -> -1 .. (NbVar - 1)]
  BY <1>2, NodeFacts
<1> QED
  BY <1>2, <1>15, <1>16 DEF CcInv, CcTypeOK

------------------------------------------------------------------------------
(* Another call, and the theorems. *)

(* Another call starts on tables that the one before has put back. *)
LEMMA CallAgainInv ==
  ASSUME CcInv, CallAgain
  PROVE  CcInv'
<1>1. pc = "done" /\ m_markView = {} /\ pos = [n \in Node |-> -1]
  BY DEF CallAgain, CcInv, CallRight
<1>2. PICK g \in Residuals : Start(g)
  BY DEF CallAgain
<1>3. /\ pc' = "visit" /\ graph' = g /\ v' = 1 /\ left' = ClausesOf(g, 1) /\ rootV' = 1
      /\ varCo' = << >> /\ freeVar' = {}
      /\ parent' = [n \in Node |-> IF n \in Var THEN n ELSE parent[n]]
      /\ size' = [n \in Node |-> IF n \in Var THEN 1 ELSE size[n]]
      /\ UNCHANGED << rootW, pos, m_markView >>
  BY <1>2 DEF Start, CallAgain
<1>4. /\ NbVar \in Nat /\ NbVar > 0 /\ NbClause \in Nat /\ 1 \in Var
      /\ Var \subseteq Node /\ Var \subseteq 0 .. NbVar
  BY NodeFacts DEF Var
<1>5. Starting'
  BY <1>1, <1>3, <1>4 DEF Starting
<1>6. CallRight'
  BY <1>5, StartRight, PTL
<1>7. parent' \in [Node -> 0 .. NbVar]
  <2>1. parent \in [Node -> 0 .. NbVar]
    BY DEF CcInv, CcTypeOK
  <2> QED
    BY <1>3, <1>4, <2>1
<1>8. size' \in [Node -> 0 .. (NbVar + NbClause)]
  <2>1. size \in [Node -> 0 .. (NbVar + NbClause)] /\ 1 \in 0 .. (NbVar + NbClause)
    BY <1>4 DEF CcInv, CcTypeOK
  <2> QED
    BY <1>3, <2>1
<1>9. 1 \in 1 .. (NbVar + 1) /\ ClausesOf(g, 1) \subseteq Clause
  BY <1>4 DEF ClausesOf
<1> QED
  BY <1>1, <1>2, <1>3, <1>4, <1>6, <1>7, <1>8, <1>9 DEF CcInv, CcTypeOK

(* Every step keeps CcInv. *)
LEMMA CcNextInv ==
  ASSUME CcInv, [CcNext]_ccVars
  PROVE  CcInv'
<1>1. CASE UNCHANGED ccVars
  <2>1. UNCHANGED << pc, graph, v, left, rootV, rootW, parent, size, pos, m_markView,
                     varCo, freeVar, calls >>
    BY <1>1 DEF ccVars
  <2>2. CcTypeOK' /\ graph' \in Residuals /\ m_markView' \subseteq Clause
    BY <2>1 DEF CcInv, CcTypeOK
  <2>3. CASE pc = "done"
    BY <2>1, <2>2, <2>3 DEF CcInv, CallRight, ComponentsExact
  <2>4. CASE pc \in {"visit", "find"}
    <3>1. PICK rep \in [Node -> 0 .. NbVar] : Forest(rep) /\ Sound(rep) /\ Visiting(rep)
      BY <2>4, VisitFacts
    <3>2. Forest(rep)' /\ Sound(rep)'
      BY <2>1, <3>1 DEF Forest, Sound, Clauses
    <3>3. Visiting(rep)'
      BY <2>1, <3>1 DEF Visiting, Linked
    <3> QED
      BY <2>1, <2>2, <2>4, <3>2, <3>3 DEF CcInv, CallRight
  <2>5. CASE pc \in {"collect", "root"}
    <3>1. PICK rep \in [Node -> 0 .. NbVar] : Forest(rep) /\ Sound(rep) /\ Collecting(rep)
      BY <2>5, CollectFacts
    <3>2. Forest(rep)' /\ Sound(rep)'
      BY <2>1, <3>1 DEF Forest, Sound, Clauses
    <3>3. Collecting(rep)'
      BY <2>1, <3>1, PlacedKept DEF Collecting, AllLinked, Linked
    <3> QED
      BY <2>1, <2>2, <2>5, <3>2, <3>3 DEF CcInv, CallRight
  <2> QED
    BY <2>3, <2>4, <2>5 DEF CcInv, CcTypeOK
<1> QED
  BY <1>1, VisitNewInv, VisitSeenInv, FindStepInv, FindEndInv, NextVisitInv, CollectInv,
     RootStepInv, RootEndInv, CollectEndInv, CallAgainInv DEF CcNext, CcStep

(***************************************************************************)
(* At every moment of computeConnectedComponent the parents describe       *)
(* clusters, of connected nodes only, and whatever the loops have been     *)
(* through is in the right one.                                            *)
(***************************************************************************)
THEOREM CcInvariant == CcSpec => []CcInv
<1>1. CcInit => CcInv
  BY CcInitInv
<1>2. CcInv /\ [CcNext]_ccVars => CcInv'
  BY CcNextInv
<1> QED
  BY <1>1, <1>2, PTL DEF CcSpec

(* Type correctness: roots are variables, and no size, parent or position of
   m_infoCluster leaves its range. *)
THEOREM CcTypeCorrect == CcSpec => []CcTypeOK
<1>1. CcInv => CcTypeOK
  BY DEF CcInv
<1> QED
  BY <1>1, CcInvariant, PTL

(* computeConnectedComponent returns exactly the components and the free
   variables of the residual formula, in every call. *)
THEOREM CcComponentsExact == CcSpec => []ComponentsExact
<1>1. CcInv => ComponentsExact
  BY DEF CcInv, CallRight, ComponentsExact
<1> QED
  BY <1>1, CcInvariant, PTL

=============================================================================
