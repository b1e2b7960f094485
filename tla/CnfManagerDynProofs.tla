------------------------- MODULE CnfManagerDynProofs -------------------------
(***************************************************************************)
(* The residual formula is right for all formulas, all variables that are  *)
(* counted and any depth of the search, with each of the three managers.   *)
(*                                                                         *)
(* postUpdate goes back to a state that the invariant must still describe, *)
(* so the invariant speaks of every state postUpdate can reach: there is a *)
(* history of snapshots, the present one first, each the one before it     *)
(* with one level undone, and all of them are right.                       *)
(***************************************************************************)
EXTENDS CnfManagerDynBlockedCl, TLAPS, FiniteSetTheorems, SequenceTheorems

------------------------------------------------------------------------------
(* The inductive invariant. *)

(* What postUpdate restores. *)
Snapshots ==
  [occ : [Lit -> SUBSET Idx], sat : SUBSET Idx, unsat : [Idx -> 0 .. NbVar],
   value : SUBSET Lit]

Present ==
  [occ |-> m_occurrence, sat |-> isSat, unsat |-> nbUnsat, value |-> m_currentValue]

(* postUpdate with the level L in the snapshot h. *)
Undone(h, L) ==
  [occ |-> [l \in Lit |-> IF l \in DOMAIN L.occs THEN L.occs[l] ELSE h.occ[l]],
   sat |-> {c \in Idx : IF c \in DOMAIN L.clauses THEN L.clauses[c].isSat
                                                  ELSE c \in h.sat},
   unsat |-> [c \in Idx |-> IF c \in DOMAIN L.clauses THEN L.clauses[c].nbUnsat
                                                      ELSE h.unsat[c]],
   value |-> h.value \ L.lits]

Free(v, l) == l \notin v /\ -l \notin v

(* The literals of v made true in the assignment A. *)
Impose(A, v) == {l \in A : -l \notin v} \cup v

(* The watch, the counters and the satisfied clauses of a snapshot. *)
CountsRight(h) ==
  /\ \A l \in h.value : -l \notin h.value
  /\ \A c \in Idx : LitsOf(c) \cap h.value # {} => c \in h.sat
  /\ \A c \in Idx \ h.sat :
        /\ Free(h.value, m_clauses[c][1])
        /\ Len(m_clauses[c]) = 2 => \A l \in LitsOf(c) : Free(h.value, l)
        /\ h.unsat[c] = Cardinality({l \in LitsOf(c) : -l \in h.value})

(* The clauses outside of sat have the models of the formula with the literals
   of v, as seen on the variables that are counted. *)
ModelsRight(v, sat) ==
  /\ \A A \in Models(Idx, OnCounted(v)) : Impose(A, v) \in Models(Idx \ sat, v)
  /\ \A B \in Models(Idx \ sat, v) :
        \E A \in Models(Idx, OnCounted(v)) : OnCounted(A) = OnCounted(B)

(* Its lists hold the clauses outside of S. *)
ListsRight(h, S) ==
  \A l \in Lit : Free(h.value, l) =>
     h.occ[l] = {c \in Idx \ S : l \in LitsOf(c)}

(* The clauses the lists are without: blocked ones leave them at the end. *)
Unlisted ==
  IF manager = "blocked" /\ pc = "inprocessing" THEN isSat \ gone ELSE isSat

History(hist) ==
  /\ hist[1] = Present
  /\ \A k \in 1 .. Len(levels) : hist[k + 1] = Undone(hist[k], levels[k])
  /\ \A k \in 1 .. (Len(levels) + 1) :
        /\ CountsRight(hist[k])
        /\ ModelsRight(hist[k].value, hist[k].sat)
        /\ \A j \in 1 .. k : hist[k].value \subseteq hist[j].value
        /\ k > 1 => ListsRight(hist[k], hist[k].sat)

SavedOccs == UNION {[D -> SUBSET Idx] : D \in SUBSET Lit}
SavedClauses ==
  UNION {[D -> [isSat : BOOLEAN, nbUnsat : 0 .. NbVar]] : D \in SUBSET Idx}
Levels == [lits : SUBSET Lit, occs : SavedOccs, clauses : SavedClauses]

ClausesRight ==
  /\ m_clauses \in Seq(Seq(Lit))
  /\ \A c \in Idx :
        /\ Len(m_clauses[c]) >= 2
        /\ \A i, j \in DOMAIN m_clauses[c] :
              i # j => VarOf(m_clauses[c][i]) # VarOf(m_clauses[c][j])

ControlRight ==
  /\ manager \in {"dyn", "pure", "blocked"}
  /\ pc \in {"idle", "inprocessing"}
  /\ manager = "dyn" => pc = "idle"
  /\ pc = "inprocessing" => levels # << >>
  /\ levels \in Seq(Levels)

WatchesRight ==
  /\ gone \subseteq Idx
  /\ todo \subseteq DOMAIN watch
  /\ \A b \in DOMAIN watch : b[1] \in Idx /\ b[2] \in Blockable(m_clauses, b[1])

PastRight == \E hist \in [1 .. (Len(levels) + 1) -> Snapshots] : History(hist)

CnfInv ==
  /\ ClausesRight
  /\ ControlRight
  /\ WatchesRight
  /\ ListsRight(Present, Unlisted)
  /\ PastRight

------------------------------------------------------------------------------
(* Literals and clauses. *)

(* Literals are numbers other than 0, and negation is an involution on them. *)
LEMMA LitFacts ==
  /\ NbVar \in Nat
  /\ Lit \subseteq Int /\ 0 \notin Lit
  /\ \A l \in Lit : -l \in Lit /\ -(-l) = l /\ -l # l
  /\ \A l \in Lit : VarOf(l) \in Var /\ VarOf(-l) = VarOf(l)
  /\ \A l, m \in Lit : VarOf(l) = VarOf(m) <=> (l = m \/ l = -m)
<1>1. NbVar \in Nat
  BY FormulaAssumption
<1> QED
  BY <1>1 DEF Lit, Var, VarOf

(* There are finitely many literals. *)
LEMMA LitFinite == IsFiniteSet(Lit)
<1>1. NbVar \in Nat
  BY FormulaAssumption
<1>2. IsFiniteSet(Var)
  BY <1>1, FS_Interval DEF Var
<1> DEFINE N == {-v : v \in Var}
           f == [v \in Var |-> -v]
<1>3. f \in Surjection(Var, N)
  BY DEF Surjection
<1>4. IsFiniteSet(N)
  <2> HIDE DEF f, N
  <2> QED
    BY <1>2, <1>3, FS_Surjection
<1> QED
  BY <1>2, <1>4, FS_Union DEF Lit

(* A clause has as many literals as its length, at most one per variable. *)
LEMMA ClauseFacts ==
  ASSUME ClausesRight, NEW c \in Idx
  PROVE  /\ m_clauses[c] \in Seq(Lit)
         /\ Len(m_clauses[c]) \in Nat /\ Len(m_clauses[c]) >= 2
         /\ DOMAIN m_clauses[c] = 1 .. Len(m_clauses[c])
         /\ LitsOf(c) = {m_clauses[c][i] : i \in 1 .. Len(m_clauses[c])}
         /\ LitsOf(c) \subseteq Lit
         /\ m_clauses[c][1] \in LitsOf(c)
         /\ \A l \in LitsOf(c) : -l \notin LitsOf(c)
         /\ IsFiniteSet(LitsOf(c))
         /\ Cardinality(LitsOf(c)) = Len(m_clauses[c])
         /\ Len(m_clauses[c]) <= NbVar
<1> DEFINE s == m_clauses[c]
<1>1. s \in Seq(Lit)
  BY DEF ClausesRight, Idx
<1>2. Len(s) \in Nat /\ DOMAIN s = 1 .. Len(s) /\ s \in [1 .. Len(s) -> Lit]
  BY <1>1, LenProperties
<1>3. /\ Len(s) >= 2
      /\ \A i, j \in 1 .. Len(s) : i # j => VarOf(s[i]) # VarOf(s[j])
  BY <1>2 DEF ClausesRight
<1>4. LitsOf(c) = {s[i] : i \in 1 .. Len(s)}
  BY <1>2 DEF LitsOf, ToSet
<1> HIDE DEF s
<1>5. LitsOf(c) \subseteq Lit /\ s[1] \in LitsOf(c)
  BY <1>2, <1>3, <1>4
<1>6. ASSUME NEW l \in LitsOf(c), -l \in LitsOf(c) PROVE FALSE
  <2>1. PICK i \in 1 .. Len(s) : l = s[i]
    BY <1>4
  <2>2. PICK j \in 1 .. Len(s) : -l = s[j]
    BY <1>4, <1>6
  <2>3. l \in Lit /\ VarOf(-l) = VarOf(l) /\ -l # l
    BY <1>5, LitFacts
  <2> QED
    BY <1>3, <2>1, <2>2, <2>3
<1>7. IsFiniteSet(LitsOf(c))
  BY <1>5, LitFinite, FS_Subset
<1>8. s \in Bijection(1 .. Len(s), LitsOf(c))
  BY <1>2, <1>3, <1>4 DEF Bijection, Injection, Surjection, IsInjective
<1>9. Cardinality(LitsOf(c)) = Len(s)
  BY <1>2, <1>8, FS_CountingElements DEF ExistsBijection
<1> DEFINE g == [i \in 1 .. Len(s) |-> VarOf(s[i])]
<1>10. g \in Injection(1 .. Len(s), Var)
  BY <1>2, <1>3, LitFacts DEF Injection, IsInjective
<1>11. /\ IsFiniteSet(Var) /\ Cardinality(Var) = NbVar
       /\ IsFiniteSet(1 .. Len(s)) /\ Cardinality(1 .. Len(s)) = Len(s)
  <2>1. \A k \in Nat : IsFiniteSet(1 .. k) /\ Cardinality(1 .. k) = k
    BY FS_Interval
  <2> QED
    BY <1>2, <2>1, FormulaAssumption, Zenon DEF Var
<1>12. Len(s) <= NbVar
  <2> HIDE DEF g
  <2> QED
    BY <1>10, <1>11, FS_Injection
<1> QED
  BY <1>1, <1>2, <1>3, <1>4, <1>5, <1>6, <1>7, <1>9, <1>12 DEF s

(* An assignment holds one of every literal and its negation. *)
LEMMA AssignmentFacts ==
  ASSUME NEW A
  PROVE  A \in Assignments <=> /\ A \subseteq Lit
                               /\ \A l \in Lit : l \in A <=> -l \notin A
<1>1. ASSUME A \in Assignments
      PROVE  A \subseteq Lit /\ \A l \in Lit : l \in A <=> -l \notin A
  <2>1. PICK t \in [Var -> BOOLEAN] : A = {IF t[v] THEN v ELSE -v : v \in Var}
    BY <1>1 DEF Assignments
  <2>2. A \subseteq Lit
    BY <2>1 DEF Lit
  <2>3. ASSUME NEW v \in Var PROVE (v \in A <=> t[v]) /\ (-v \in A <=> ~t[v])
    BY <2>1, FormulaAssumption DEF Var
  <2> QED
    BY <2>2, <2>3, LitFacts DEF Lit
<1>2. ASSUME A \subseteq Lit, \A l \in Lit : l \in A <=> -l \notin A
      PROVE  A \in Assignments
  <2> DEFINE t == [v \in Var |-> v \in A]
  <2>1. t \in [Var -> BOOLEAN]
    OBVIOUS
  <2>2. \A v \in Var : t[v] <=> v \in A
    OBVIOUS
  <2> HIDE DEF t
  <2>3. A = {IF t[v] THEN v ELSE -v : v \in Var}
    BY <1>2, <2>2 DEF Lit
  <2> QED
    BY <2>1, <2>3 DEF Assignments
<1> QED
  BY <1>1, <1>2

(* A model is a full assignment that agrees with the values and meets every clause. *)
LEMMA ModelFacts ==
  ASSUME NEW A, NEW C, NEW v
  PROVE  A \in Models(C, v) <=> /\ A \in Assignments
                                /\ v \subseteq A
                                /\ \A c \in C : LitsOf(c) \cap A # {}
  BY DEF Models

(* Imposing literals on an assignment gives an assignment. *)
LEMMA ImposeFacts ==
  ASSUME NEW A \in Assignments, NEW v \in SUBSET Lit, \A l \in v : -l \notin v
  PROVE  Impose(A, v) \in Assignments /\ v \subseteq Impose(A, v)
<1>1. A \subseteq Lit /\ \A l \in Lit : l \in A <=> -l \notin A
  BY AssignmentFacts
<1>2. Impose(A, v) \subseteq Lit
  BY <1>1 DEF Impose
<1>3. ASSUME NEW l \in Lit PROVE l \in Impose(A, v) <=> -l \notin Impose(A, v)
  <2>1. -l \in Lit /\ -(-l) = l
    BY LitFacts
  <2> QED
    BY <1>1, <2>1 DEF Impose
<1> QED
  BY <1>2, <1>3, AssignmentFacts DEF Impose

------------------------------------------------------------------------------
(* Why the clauses that are left keep the models. *)

(***************************************************************************)
(* propagateTrue: the literals the solver implied become true and their    *)
(* clauses go.                                                             *)
(***************************************************************************)
LEMMA ModelsPropagated ==
  ASSUME NEW v \in SUBSET Lit, NEW sat \in SUBSET Idx, ModelsRight(v, sat),
         \A l \in v : -l \notin v,
         NEW lits \in SUBSET Lit, \A l \in lits : Free(v, l) /\ -l \notin lits,
         \A A \in Models(Idx, OnCounted(v \cup lits)) : lits \subseteq A,
         NEW new \in SUBSET Idx, \A c \in new : LitsOf(c) \cap lits # {}
  PROVE  ModelsRight(v \cup lits, sat \cup new)
<1>1. OnCounted(v \cup lits) = OnCounted(v) \cup OnCounted(lits)
  BY DEF OnCounted
<1>2. ASSUME NEW A \in Models(Idx, OnCounted(v \cup lits))
      PROVE  Impose(A, v \cup lits) \in Models(Idx \ (sat \cup new), v \cup lits)
  <2>1. A \in Assignments /\ OnCounted(v) \subseteq A /\ lits \subseteq A
        /\ \A c \in Idx : LitsOf(c) \cap A # {}
    <3>1. A \in Assignments /\ OnCounted(v \cup lits) \subseteq A
          /\ \A c \in Idx : LitsOf(c) \cap A # {}
      BY ModelFacts
    <3> QED
      BY <1>1, <3>1
  <2>2. A \in Models(Idx, OnCounted(v))
    BY <2>1, ModelFacts
  <2>3. Impose(A, v) \in Models(Idx \ sat, v)
    BY <2>2 DEF ModelsRight
  <2>4. A \subseteq Lit /\ \A l \in Lit : l \in A <=> -l \notin A
    BY <2>1, AssignmentFacts
  <2>5. \A l \in A : -l \notin lits
    BY <2>1, <2>4
  <2>6. lits \subseteq Impose(A, v)
    BY <2>1 DEF Impose, Free
  <2>7. Impose(A, v \cup lits) = Impose(A, v)
    BY <2>5, <2>6 DEF Impose
  <2> QED
    BY <2>3, <2>6, <2>7, ModelFacts
<1>3. ASSUME NEW B \in Models(Idx \ (sat \cup new), v \cup lits)
      PROVE  \E A \in Models(Idx, OnCounted(v \cup lits)) : OnCounted(A) = OnCounted(B)
  <2>1. B \in Assignments /\ v \cup lits \subseteq B
        /\ \A c \in Idx \ (sat \cup new) : LitsOf(c) \cap B # {}
    BY ModelFacts
  <2>2. B \in Models(Idx \ sat, v)
    BY <2>1, ModelFacts
  <2>3. PICK A \in Models(Idx, OnCounted(v)) : OnCounted(A) = OnCounted(B)
    BY <2>2 DEF ModelsRight
  <2>4. OnCounted(v \cup lits) \subseteq A
    BY <2>1, <2>3 DEF OnCounted
  <2>5. A \in Models(Idx, OnCounted(v \cup lits))
    <3>1. A \in Assignments /\ \A c \in Idx : LitsOf(c) \cap A # {}
      BY <2>3, ModelFacts
    <3> QED
      BY <2>4, <3>1, ModelFacts
  <2> QED
    BY <2>3, <2>5
<1> QED
  BY <1>2, <1>3 DEF ModelsRight

(***************************************************************************)
(* Pure literals of variables that are not counted: no clause left has the *)
(* negation, so making them true loses no model.                           *)
(***************************************************************************)
LEMMA ModelsPure ==
  ASSUME NEW v \in SUBSET Lit, NEW sat \in SUBSET Idx, ModelsRight(v, sat),
         \A l \in v : -l \notin v,
         NEW pure \in SUBSET Lit,
         \A l \in pure : /\ Free(v, l) /\ -l \notin pure
                         /\ VarOf(l) \notin Counted
                         /\ \A c \in Idx \ sat : -l \notin LitsOf(c),
         NEW new \in SUBSET Idx, \A c \in new : LitsOf(c) \cap pure # {},
         \A c \in Idx : LitsOf(c) \subseteq Lit
  PROVE  ModelsRight(v \cup pure, sat \cup new)
<1>1. OnCounted(v \cup pure) = OnCounted(v)
  BY DEF OnCounted
<1>2. ASSUME NEW A \in Models(Idx, OnCounted(v \cup pure))
      PROVE  Impose(A, v \cup pure) \in Models(Idx \ (sat \cup new), v \cup pure)
  <2>1. A \in Assignments
    BY ModelFacts
  <2>2. Impose(A, v) \in Models(Idx \ sat, v)
    BY <1>1 DEF ModelsRight
  <2>3. Impose(A, v \cup pure) \in Assignments
        /\ v \cup pure \subseteq Impose(A, v \cup pure)
    <3>1. \A l \in v \cup pure : -l \notin v \cup pure
      BY LitFacts DEF Free
    <3> QED
      BY <2>1, <3>1, ImposeFacts
  <2>4. ASSUME NEW c \in Idx \ (sat \cup new)
        PROVE  LitsOf(c) \cap Impose(A, v \cup pure) # {}
    <3>1. PICK m \in LitsOf(c) : m \in Impose(A, v)
      BY <2>2, ModelFacts
    <3>2. -m \notin pure
      BY <3>1, LitFacts
    <3>3. m \in Impose(A, v \cup pure)
      BY <3>1, <3>2 DEF Impose
    <3> QED
      BY <3>1, <3>3
  <2> QED
    BY <2>3, <2>4, ModelFacts
<1>3. ASSUME NEW B \in Models(Idx \ (sat \cup new), v \cup pure)
      PROVE  \E A \in Models(Idx, OnCounted(v \cup pure)) : OnCounted(A) = OnCounted(B)
  <2>1. B \in Assignments /\ v \cup pure \subseteq B
        /\ \A c \in Idx \ (sat \cup new) : LitsOf(c) \cap B # {}
    BY ModelFacts
  <2>2. B \in Models(Idx \ sat, v)
    BY <2>1, ModelFacts
  <2> QED
    BY <1>1, <2>2 DEF ModelsRight
<1> QED
  BY <1>2, <1>3 DEF ModelsRight

(***************************************************************************)
(* A blocked clause: a model of the other clauses left that falsifies it   *)
(* satisfies them all once the literal it is blocked on is flipped.        *)
(***************************************************************************)
LEMMA ModelsBlocked ==
  ASSUME NEW v \in SUBSET Lit, NEW sat \in SUBSET Idx, ModelsRight(v, sat),
         NEW c \in Idx, NEW l \in LitsOf(c), VarOf(l) \notin Counted, Free(v, l),
         NonTaut(m_clauses, c, l) \subseteq sat,
         \A d \in Idx : LitsOf(d) \subseteq Lit
  PROVE  ModelsRight(v, sat \cup {c})
<1>1. ASSUME NEW A \in Models(Idx, OnCounted(v))
      PROVE  Impose(A, v) \in Models(Idx \ (sat \cup {c}), v)
  BY ModelFacts DEF ModelsRight
<1>2. ASSUME NEW B \in Models(Idx \ (sat \cup {c}), v)
      PROVE  \E A \in Models(Idx, OnCounted(v)) : OnCounted(A) = OnCounted(B)
  <2>1. B \in Assignments /\ v \subseteq B
        /\ \A d \in Idx \ (sat \cup {c}) : LitsOf(d) \cap B # {}
    BY ModelFacts
  <2>2. B \subseteq Lit /\ \A m \in Lit : m \in B <=> -m \notin B
    BY <2>1, AssignmentFacts
  <2>3. CASE LitsOf(c) \cap B # {}
    <3>1. B \in Models(Idx \ sat, v)
      BY <2>1, <2>3, ModelFacts
    <3> QED
      BY <3>1 DEF ModelsRight
  <2>4. CASE LitsOf(c) \cap B = {}
    <3> DEFINE F == Impose(B, {l})
    <3>1. l \in Lit /\ -l \in Lit /\ -(-l) = l /\ -l # l
      BY LitFacts
    <3>2. F \in Assignments /\ l \in F
      BY <2>1, <3>1, ImposeFacts
    <3>3. v \subseteq F
      BY <2>1, LitFacts DEF Impose, Free
    <3>4. ASSUME NEW d \in Idx \ sat PROVE LitsOf(d) \cap F # {}
      <4>1. CASE d = c
        BY <4>1, <3>2
      <4>2. CASE d # c /\ -l \in LitsOf(d)
        <5>1. d \notin NonTaut(m_clauses, c, l)
          OBVIOUS
        <5>2. PICK m \in LitsOf(d) : m # -l /\ -m \in LitsOf(c)
          BY <4>2, <5>1 DEF NonTaut, LitsOf, Idx
        <5>3. m \in B
          BY <2>2, <2>4, <5>2
        <5>4. m \in F
          BY <3>1, <5>2, <5>3, LitFacts DEF Impose
        <5> QED
          BY <5>2, <5>4
      <4>3. CASE d # c /\ -l \notin LitsOf(d)
        <5>1. PICK m \in LitsOf(d) : m \in B
          BY <2>1, <4>3
        <5>2. m \in F
          BY <3>1, <4>3, <5>1, LitFacts DEF Impose
        <5> QED
          BY <5>1, <5>2
      <4> QED
        BY <4>1, <4>2, <4>3
    <3>5. F \in Models(Idx \ sat, v)
      BY <3>2, <3>3, <3>4, ModelFacts
    <3>6. OnCounted(F) = OnCounted(B)
      <4>1. VarOf(-l) \notin Counted
        BY <3>1, LitFacts
      <4>2. ASSUME NEW m \in Lit, m # l, m # -l PROVE m \in F <=> m \in B
        BY <4>2, <3>1, LitFacts DEF Impose
      <4>3. F \subseteq Lit
        BY <3>2, AssignmentFacts
      <4> HIDE DEF F
      <4> QED
        BY <4>1, <4>2, <4>3, <2>2 DEF OnCounted
    <3> HIDE DEF F
    <3> QED
      BY <3>5, <3>6 DEF ModelsRight
  <2> QED
    BY <2>3, <2>4
<1> QED
  BY <1>1, <1>2 DEF ModelsRight

------------------------------------------------------------------------------
(* The types of the present snapshot. *)
PresentTyped ==
  /\ m_occurrence \in [Lit -> SUBSET Idx]
  /\ isSat \in SUBSET Idx
  /\ nbUnsat \in [Idx -> 0 .. NbVar]
  /\ m_currentValue \in SUBSET Lit

(* removeSatisfiedClauses: the clauses satisfied leave every list that is  *)
(* still read, though only the lists of their literals are visited.        *)
LEMMA ListsPropagated ==
  ASSUME ClausesRight, PresentTyped, ListsRight(Present, isSat),
         NEW lits \in SUBSET Lit, \A l \in lits : Undef(l)
  PROVE  /\ NewlySat(lits) = {c \in Idx \ isSat : LitsOf(c) \cap lits # {}}
         /\ Cleaned(lits) \in [Lit -> SUBSET Idx]
         /\ \A l \in Lit \ lits : Undef(l) =>
              Cleaned(lits)[l]
                = {c \in Idx \ (isSat \cup NewlySat(lits)) : l \in LitsOf(c)}
<1>1. \A l \in Lit : Undef(l) => m_occurrence[l] = {c \in Idx \ isSat : l \in LitsOf(c)}
  BY DEF ListsRight, Present, Free, Undef
<1>2. NewlySat(lits) = {c \in Idx \ isSat : LitsOf(c) \cap lits # {}}
  BY <1>1 DEF NewlySat
<1>3. Cleaned(lits) \in [Lit -> SUBSET Idx]
  BY DEF Cleaned, PresentTyped
<1>4. ASSUME NEW l \in Lit \ lits, Undef(l)
      PROVE  Cleaned(lits)[l]
               = {c \in Idx \ (isSat \cup NewlySat(lits)) : l \in LitsOf(c)}
  <2>1. m_occurrence[l] = {c \in Idx \ isSat : l \in LitsOf(c)}
    BY <1>1, <1>4
  <2>2. CASE l \in Touched(lits)
    BY <2>1, <2>2 DEF Cleaned
  <2>3. CASE l \notin Touched(lits)
    <3>1. \A c \in NewlySat(lits) : l \notin LitsOf(c)
      BY <2>3 DEF Touched
    <3>2. Cleaned(lits)[l] = m_occurrence[l]
      BY <2>3 DEF Cleaned
    <3> HIDE DEF NewlySat
    <3> QED
      BY <2>1, <3>1, <3>2
  <2> QED
    BY <2>2, <2>3
<1> QED
  BY <1>2, <1>3, <1>4

(* What is saved has its type. *)
LEMMA SavedTyped ==
  ASSUME PresentTyped
  PROVE  /\ << >> \in SavedOccs /\ << >> \in SavedClauses /\ DOMAIN << >> = {}
         /\ \A lits \in SUBSET Lit, saved \in SavedOccs :
               Touched(lits) \subseteq Lit => SaveOccs(lits, saved) \in SavedOccs
         /\ \A C \in SUBSET Idx, saved \in SavedClauses :
               SaveClauses(C, saved) \in SavedClauses
<1>1. DOMAIN << >> = {}
  OBVIOUS
<1>2. << >> \in [{} -> SUBSET Idx] /\ << >> \in [{} -> [isSat : BOOLEAN, nbUnsat : 0 .. NbVar]]
  OBVIOUS
<1>3. << >> \in SavedOccs /\ << >> \in SavedClauses
  BY <1>2 DEF SavedOccs, SavedClauses
<1>4. ASSUME NEW lits \in SUBSET Lit, NEW saved \in SavedOccs, Touched(lits) \subseteq Lit
      PROVE  SaveOccs(lits, saved) \in SavedOccs
  <2>1. PICK D \in SUBSET Lit : saved \in [D -> SUBSET Idx]
    BY DEF SavedOccs
  <2>2. SaveOccs(lits, saved) \in [D \cup Touched(lits) -> SUBSET Idx]
    BY <2>1, <1>4 DEF SaveOccs, PresentTyped
  <2>3. D \cup Touched(lits) \in SUBSET Lit
    BY <1>4
  <2> QED
    BY <2>2, <2>3 DEF SavedOccs
<1>5. ASSUME NEW C \in SUBSET Idx, NEW saved \in SavedClauses
      PROVE  SaveClauses(C, saved) \in SavedClauses
  <2>1. PICK D \in SUBSET Idx : saved \in [D -> [isSat : BOOLEAN, nbUnsat : 0 .. NbVar]]
    BY DEF SavedClauses
  <2>2. \A c \in Idx : [isSat |-> c \in isSat, nbUnsat |-> nbUnsat[c]]
                         \in [isSat : BOOLEAN, nbUnsat : 0 .. NbVar]
    BY DEF PresentTyped
  <2>3. SaveClauses(C, saved) \in [D \cup C -> [isSat : BOOLEAN, nbUnsat : 0 .. NbVar]]
    BY <2>1, <2>2 DEF SaveClauses
  <2>4. D \cup C \in SUBSET Idx
    OBVIOUS
  <2> QED
    BY <2>3, <2>4 DEF SavedClauses
<1> QED
  BY <1>1, <1>3, <1>4, <1>5

(***************************************************************************)
(* What a level saved first is what its undoing restores: touching more    *)
(* lists or clauses at the same level does not change where postUpdate     *)
(* leads.                                                                  *)
(***************************************************************************)
LEMMA UndoneSame ==
  ASSUME NEW h \in Snapshots, NEW g \in Snapshots, NEW L, NEW M,
         g.value \ M.lits = h.value \ L.lits,
         \A l \in Lit : (IF l \in DOMAIN M.occs THEN M.occs[l] ELSE g.occ[l])
                          = (IF l \in DOMAIN L.occs THEN L.occs[l] ELSE h.occ[l]),
         \A c \in Idx : (IF c \in DOMAIN M.clauses THEN M.clauses[c].isSat ELSE c \in g.sat)
                          <=> (IF c \in DOMAIN L.clauses THEN L.clauses[c].isSat ELSE c \in h.sat),
         \A c \in Idx : (IF c \in DOMAIN M.clauses THEN M.clauses[c].nbUnsat ELSE g.unsat[c])
                          = (IF c \in DOMAIN L.clauses THEN L.clauses[c].nbUnsat ELSE h.unsat[c])
  PROVE  Undone(g, M) = Undone(h, L)
  BY DEF Undone

------------------------------------------------------------------------------
(* A step that at most changes the order of the literals in the clauses. *)
ClausesKept ==
  /\ manager' = manager
  /\ Idx' = Idx
  /\ \A c \in Idx : LitsOf(c)' = LitsOf(c) /\ Len(m_clauses'[c]) = Len(m_clauses[c])

(* Which models there are does not depend on that order. *)
LEMMA ModelsKept ==
  ASSUME ClausesKept, NEW CONSTANT v, NEW CONSTANT s, s \subseteq Idx
  PROVE  ModelsRight(v, s)' <=> ModelsRight(v, s)
<1>1. ASSUME NEW CONSTANT w PROVE OnCounted(w)' = OnCounted(w)
  BY DEF OnCounted, Counted, ClausesKept
<1>2. ASSUME NEW CONSTANT w PROVE Models(Idx, w)' = Models(Idx, w)
  BY DEF Models, ClausesKept
<1>3. ASSUME NEW CONSTANT w PROVE Models(Idx \ s, w)' = Models(Idx \ s, w)
  BY DEF Models, ClausesKept
<1>4. PICK ov : ov = OnCounted(v)
  OBVIOUS
<1>5. OnCounted(v)' = ov
  BY <1>1, <1>4
<1>6. Models(Idx, OnCounted(v))' = Models(Idx, OnCounted(v))
  <2>1. Models(Idx, ov)' = Models(Idx, ov)
    BY <1>2
  <2> QED
    BY <2>1, <1>4, <1>5 DEF Models
<1>7. ASSUME NEW CONSTANT A PROVE Impose(A, v)' = Impose(A, v)
  BY DEF Impose
<1> QED
  BY <1>1, <1>3, <1>6, <1>7 DEF ModelsRight

(* Nor are the counters, as long as the literals watched have no value. *)
LEMMA CountsKept ==
  ASSUME ClausesKept, NEW CONSTANT h, CountsRight(h),
         \A c \in Idx \ h.sat : Free(h.value, m_clauses'[c][1])
  PROVE  CountsRight(h)'
  BY DEF ClausesKept, CountsRight, Free

(* Nor are the lists and what postUpdate does. *)
LEMMA ListsKept ==
  ASSUME ClausesKept, NEW CONSTANT h, NEW CONSTANT s
  PROVE  ListsRight(h, s)' <=> ListsRight(h, s)
  BY DEF ClausesKept, ListsRight, Free

(* What undoing a level gives depends on the formula and on that level only. *)
LEMMA UndoneKept ==
  ASSUME ClausesKept, NEW CONSTANT h, NEW CONSTANT L
  PROVE  Undone(h, L)' = Undone(h, L) /\ Snapshots' = Snapshots
  BY DEF ClausesKept, Undone, Snapshots

(* The saved states are about the clauses of the formula only. *)
LEMMA LevelsKept ==
  ASSUME Idx' = Idx
  PROVE  Levels' = Levels
  BY DEF Levels, SavedOccs, SavedClauses

(***************************************************************************)
(* A step of preUpdate after the first: the present snapshot is replaced   *)
(* and postUpdate still leads to the one below it.                         *)
(***************************************************************************)
LEMMA PastWithin ==
  ASSUME ClausesRight, levels \in Seq(Levels), levels # << >>,
         NEW CONSTANT hist \in [1 .. (Len(levels) + 1) -> Snapshots], History(hist),
         NEW CONSTANT g \in Snapshots, NEW CONSTANT M \in Levels,
         m_clauses' = m_clauses, manager' = manager,
         Present' = g, levels' = [levels EXCEPT ![1] = M],
         CountsRight(g), ModelsRight(g.value, g.sat), m_currentValue \subseteq g.value,
         Undone(g, M) = Undone(hist[1], levels[1])
  PROVE  PastRight'
<1> DEFINE n == Len(levels)
<1>1. PICK N : N = n
  OBVIOUS
<1>2. N \in Nat /\ N >= 1 /\ Len(levels') = N
      /\ levels'[1] = M /\ \A k \in 2 .. N : levels'[k] = levels[k]
  BY <1>1, LenProperties
<1> DEFINE new == [k \in 1 .. (N + 1) |-> IF k = 1 THEN g ELSE hist[k]]
<1>3. new \in [1 .. (N + 1) -> Snapshots]
  BY <1>1
<1>4. new[1] = g /\ \A k \in 2 .. (N + 1) : new[k] = hist[k]
  BY <1>2
<1> HIDE DEF new, n
<1>5. ClausesKept
  BY DEF ClausesKept, Idx, LitsOf
<1>6. Snapshots' = Snapshots
  BY <1>5, UndoneKept
<1>8. ASSUME NEW k \in 1 .. N PROVE new[k + 1] = Undone(new[k], levels[k])'
  <2>1. PICK L : L = levels'[k]
    OBVIOUS
  <2>2. Undone(new[k], L)' = Undone(new[k], L)
    BY <1>5, UndoneKept
  <2>3. Undone(new[k], levels[k])' = Undone(new[k], L)
    BY <2>1, <2>2
  <2>4. hist[k + 1] = Undone(hist[k], levels[k])
    BY <1>1 DEF History, n
  <2>5. CASE k = 1
    <3>1. L = M /\ new[k + 1] = hist[k + 1] /\ new[k] = g
      BY <1>2, <1>4, <2>1, <2>5
    <3> QED
      BY <2>3, <2>4, <2>5, <3>1
  <2>6. CASE k # 1
    <3>1. L = levels[k] /\ new[k + 1] = hist[k + 1] /\ new[k] = hist[k]
      BY <1>2, <1>4, <2>1, <2>6
    <3> QED
      BY <2>3, <2>4, <3>1
  <2> QED
    BY <2>5, <2>6
<1>9. ASSUME NEW k \in 1 .. (N + 1)
      PROVE  /\ CountsRight(new[k])'
             /\ ModelsRight(new[k].value, new[k].sat)'
             /\ \A j \in 1 .. k : new[k].value \subseteq new[j].value
             /\ k > 1 => ListsRight(new[k], new[k].sat)'
  <2>1. /\ CountsRight(new[k])
        /\ ModelsRight(new[k].value, new[k].sat)
        /\ \A j \in 1 .. k : new[k].value \subseteq new[j].value
        /\ k > 1 => ListsRight(new[k], new[k].sat)
    <3>1. CASE k = 1
      BY <1>2, <1>4, <3>1
    <3>2. CASE k # 1
      <4>1. new[k] = hist[k]
        BY <1>2, <1>4, <3>2
      <4>2. ASSUME NEW j \in 1 .. k PROVE new[k].value \subseteq new[j].value
        <5>1. hist[k].value \subseteq hist[j].value
          BY <1>1 DEF History, n
        <5>2. CASE j = 1
          <6>1. hist[1].value = m_currentValue /\ new[j].value = g.value
            BY <1>4, <5>2 DEF History, Present
          <6> QED
            BY <4>1, <5>1, <5>2, <6>1
        <5>3. CASE j # 1
          BY <1>2, <1>4, <4>1, <5>1, <5>3
        <5> QED
          BY <5>2, <5>3
      <4> QED
        BY <1>1, <3>2, <4>1, <4>2 DEF History, n
    <3> QED
      BY <3>1, <3>2
  <2>2. new[k].sat \subseteq Idx
    BY <1>3 DEF Snapshots
  <2>3. CountsRight(new[k])'
    <3>1. \A c \in Idx \ new[k].sat : Free(new[k].value, m_clauses'[c][1])
      BY <2>1 DEF CountsRight
    <3> QED
      BY <1>5, <2>1, <3>1, CountsKept
  <2>4. ModelsRight(new[k].value, new[k].sat)'
    BY <1>5, <2>1, <2>2, ModelsKept
  <2>5. k > 1 => ListsRight(new[k], new[k].sat)'
    BY <1>5, <2>1, ListsKept
  <2> QED
    BY <2>1, <2>3, <2>4, <2>5
<1>10. History(new)'
  BY <1>2, <1>4, <1>8, <1>9 DEF History
<1> QED
  BY <1>2, <1>3, <1>6, <1>10 DEF PastRight

(***************************************************************************)
(* The first step of preUpdate: the present snapshot joins the past.       *)
(***************************************************************************)
LEMMA PastLonger ==
  ASSUME levels \in Seq(Levels), ListsRight(Present, isSat),
         NEW CONSTANT hist \in [1 .. (Len(levels) + 1) -> Snapshots], History(hist),
         NEW CONSTANT g \in Snapshots, NEW CONSTANT M \in Levels,
         ClausesKept, Present' = g, levels' = << M >> \o levels,
         \A k \in 1 .. (Len(levels) + 1) : \A c \in Idx \ hist[k].sat :
            Free(hist[k].value, m_clauses'[c][1]),
         CountsRight(g)', ModelsRight(g.value, g.sat), m_currentValue \subseteq g.value,
         Undone(g, M) = Present
  PROVE  PastRight'
<1>1. PICK N : N = Len(levels)
  OBVIOUS
<1>2. N \in Nat /\ Len(levels') = N + 1
      /\ levels'[1] = M /\ \A k \in 2 .. (N + 1) : levels'[k] = levels[k - 1]
  <2>1. << M >> \in Seq(Levels) /\ Len(<< M >>) = 1 /\ << M >>[1] = M
    OBVIOUS
  <2>2. N \in Nat
    BY <1>1, LenProperties
  <2> QED
    BY <1>1, <2>1, <2>2, ConcatProperties
<1> DEFINE new == [k \in 1 .. (N + 2) |-> IF k = 1 THEN g ELSE hist[k - 1]]
<1>3. new \in [1 .. (N + 2) -> Snapshots]
  <2>1. \A k \in 2 .. (N + 2) : k - 1 \in 1 .. (N + 1)
    BY <1>2
  <2> QED
    BY <1>1, <1>2, <2>1
<1>4. new[1] = g /\ \A k \in 2 .. (N + 2) : new[k] = hist[k - 1]
  BY <1>2
<1> HIDE DEF new
<1>6. Snapshots' = Snapshots
  BY UndoneKept
<1>8. ASSUME NEW k \in 1 .. (N + 1) PROVE new[k + 1] = Undone(new[k], levels[k])'
  <2>1. PICK L : L = levels'[k]
    OBVIOUS
  <2>2. Undone(new[k], L)' = Undone(new[k], L)
    BY UndoneKept
  <2>3. Undone(new[k], levels[k])' = Undone(new[k], L)
    BY <2>1, <2>2
  <2>4. k + 1 \in 2 .. (N + 2) /\ (k + 1) - 1 = k
    BY <1>2
  <2>5. CASE k = 1
    <3>1. L = M /\ new[k + 1] = hist[1] /\ new[k] = g
      BY <1>2, <1>4, <2>1, <2>4, <2>5
    <3>2. hist[1] = Present
      BY DEF History
    <3> QED
      BY <2>3, <3>1, <3>2
  <2>6. CASE k # 1
    <3>1. k \in 2 .. (N + 1) /\ k \in 2 .. (N + 2) /\ k - 1 \in 1 .. N /\ (k - 1) + 1 = k
      BY <1>2, <2>6
    <3>2. L = levels[k - 1] /\ new[k + 1] = hist[k] /\ new[k] = hist[k - 1]
      BY <1>2, <1>4, <2>1, <2>4, <3>1
    <3>3. hist[(k - 1) + 1] = Undone(hist[k - 1], levels[k - 1])
      BY <1>1, <3>1 DEF History
    <3> QED
      BY <2>3, <3>1, <3>2, <3>3
  <2> QED
    BY <2>5, <2>6
<1>9. ASSUME NEW k \in 1 .. (N + 2)
      PROVE  /\ CountsRight(new[k])'
             /\ ModelsRight(new[k].value, new[k].sat)'
             /\ \A j \in 1 .. k : new[k].value \subseteq new[j].value
             /\ k > 1 => ListsRight(new[k], new[k].sat)'
  <2>1. new[k].sat \subseteq Idx
    BY <1>3 DEF Snapshots
  <2>2. CASE k = 1
    <3>1. new[k] = g
      BY <1>4, <2>2
    <3>2. ModelsRight(new[k].value, new[k].sat)'
      BY <2>1, <3>1, ModelsKept
    <3>3. \A j \in 1 .. k : j = 1
      BY <2>2
    <3> QED
      BY <2>2, <3>1, <3>2, <3>3
  <2>3. CASE k # 1
    <3>1. k \in 2 .. (N + 2) /\ k - 1 \in 1 .. (N + 1)
      BY <1>2, <2>3
    <3>2. new[k] = hist[k - 1]
      BY <1>4, <3>1
    <3>3. /\ CountsRight(new[k])
          /\ ModelsRight(new[k].value, new[k].sat)
          /\ \A j \in 1 .. (k - 1) : new[k].value \subseteq hist[j].value
          /\ k - 1 > 1 => ListsRight(new[k], new[k].sat)
      BY <1>1, <3>1, <3>2 DEF History
    <3>4. ListsRight(new[k], new[k].sat)
      <4>1. CASE k - 1 = 1
        <5>1. new[k] = Present /\ Present.sat = isSat
          BY <3>2, <4>1 DEF History, Present
        <5> QED
          BY <5>1
      <4> QED
        BY <3>1, <3>3, <4>1
    <3>5. \A c \in Idx \ new[k].sat : Free(new[k].value, m_clauses'[c][1])
      BY <1>1, <3>1, <3>2
    <3>6. CountsRight(new[k])'
      BY <3>3, <3>5, CountsKept
    <3>7. ModelsRight(new[k].value, new[k].sat)'
      BY <2>1, <3>3, ModelsKept
    <3>8. ListsRight(new[k], new[k].sat)'
      BY <3>4, ListsKept
    <3>9. ASSUME NEW j \in 1 .. k PROVE new[k].value \subseteq new[j].value
      <4>1. CASE j = 1
        <5>1. 1 \in 1 .. (k - 1) /\ hist[1].value = m_currentValue
          BY <3>1 DEF History, Present
        <5>2. new[k].value \subseteq hist[1].value
          BY <3>3, <5>1
        <5> QED
          BY <1>4, <4>1, <5>1, <5>2
      <4>2. CASE j # 1
        <5>1. j - 1 \in 1 .. (k - 1) /\ new[j] = hist[j - 1]
          BY <1>2, <1>4, <3>1, <4>2
        <5> QED
          BY <3>3, <5>1
      <4> QED
        BY <4>1, <4>2
    <3> QED
      BY <3>3, <3>6, <3>7, <3>8, <3>9
  <2> QED
    BY <2>2, <2>3
<1>10. History(new)'
  BY <1>2, <1>4, <1>8, <1>9 DEF History
<1>11. new \in [1 .. (Len(levels') + 1) -> Snapshots']
  BY <1>2, <1>3, <1>6
<1> QED
  BY <1>10, <1>11 DEF PastRight

(***************************************************************************)
(* postUpdate: the snapshot below becomes the present one.                 *)
(***************************************************************************)
LEMMA PastShorter ==
  ASSUME ClausesRight, levels \in Seq(Levels), levels # << >>,
         NEW CONSTANT hist \in [1 .. (Len(levels) + 1) -> Snapshots], History(hist),
         m_clauses' = m_clauses, manager' = manager,
         Present' = hist[2], levels' = Tail(levels)
  PROVE  PastRight'
<1>1. PICK N : N = Len(levels)
  OBVIOUS
<1>2. N \in Nat /\ N >= 1 /\ Len(levels') = N - 1
      /\ \A k \in 1 .. (N - 1) : levels'[k] = levels[k + 1]
  BY <1>1, LenProperties, HeadTailProperties
<1> DEFINE new == [k \in 1 .. N |-> hist[k + 1]]
<1>3. new \in [1 .. N -> Snapshots]
  BY <1>1, <1>2
<1>4. \A k \in 1 .. N : new[k] = hist[k + 1]
  OBVIOUS
<1> HIDE DEF new
<1>5. ClausesKept
  BY DEF ClausesKept, Idx, LitsOf
<1>6. Snapshots' = Snapshots
  BY <1>5, UndoneKept
<1>8. ASSUME NEW k \in 1 .. (N - 1) PROVE new[k + 1] = Undone(new[k], levels[k])'
  <2>1. PICK L : L = levels'[k]
    OBVIOUS
  <2>2. Undone(new[k], L)' = Undone(new[k], L)
    BY <1>5, UndoneKept
  <2>3. Undone(new[k], levels[k])' = Undone(new[k], L)
    BY <2>1, <2>2
  <2>4. k + 1 \in 1 .. N
    BY <1>2
  <2>5. hist[(k + 1) + 1] = Undone(hist[k + 1], levels[k + 1])
    BY <1>1, <2>4 DEF History
  <2> QED
    BY <1>2, <1>4, <2>1, <2>3, <2>4, <2>5
<1>9. ASSUME NEW k \in 1 .. N
      PROVE  /\ CountsRight(new[k])'
             /\ ModelsRight(new[k].value, new[k].sat)'
             /\ \A j \in 1 .. k : new[k].value \subseteq new[j].value
             /\ k > 1 => ListsRight(new[k], new[k].sat)'
  <2>1. new[k].sat \subseteq Idx
    BY <1>3 DEF Snapshots
  <2>2. /\ CountsRight(new[k])
        /\ ModelsRight(new[k].value, new[k].sat)
        /\ ListsRight(new[k], new[k].sat)
    <3>1. k + 1 \in 1 .. (N + 1) /\ k + 1 > 1
      BY <1>2
    <3> QED
      BY <1>1, <1>4, <3>1 DEF History
  <2>3. ASSUME NEW j \in 1 .. k PROVE new[k].value \subseteq new[j].value
    <3>1. k + 1 \in 1 .. (N + 1) /\ j + 1 \in 1 .. (k + 1) /\ j \in 1 .. N
      BY <1>2
    <3>2. hist[k + 1].value \subseteq hist[j + 1].value
      BY <1>1, <3>1 DEF History
    <3> QED
      BY <1>4, <3>1, <3>2
  <2>4. CountsRight(new[k])'
    <3>1. \A c \in Idx \ new[k].sat : Free(new[k].value, m_clauses'[c][1])
      BY <2>2 DEF CountsRight
    <3> QED
      BY <1>5, <2>2, <3>1, CountsKept
  <2>5. ModelsRight(new[k].value, new[k].sat)'
    BY <1>5, <2>1, <2>2, ModelsKept
  <2>6. ListsRight(new[k], new[k].sat)'
    BY <1>5, <2>2, ListsKept
  <2> QED
    BY <2>3, <2>4, <2>5, <2>6
<1>10. History(new)'
  <2>1. new[1] = Present'
    BY <1>2, <1>4
  <2>2. (N - 1) + 1 = N
    BY <1>2
  <2> QED
    BY <1>2, <1>8, <1>9, <2>1, <2>2 DEF History
<1> QED
  BY <1>2, <1>3, <1>6, <1>10 DEF PastRight

(* What the history says of the present. *)
LEMMA PresentFacts ==
  ASSUME NEW hist \in [1 .. (Len(levels) + 1) -> Snapshots], History(hist),
         levels \in Seq(Levels)
  PROVE  /\ PresentTyped /\ Present \in Snapshots
         /\ CountsRight(Present)
         /\ ModelsRight(m_currentValue, isSat)
         /\ \A k \in 1 .. (Len(levels) + 1) : hist[k].value \subseteq m_currentValue
<1>1. Len(levels) \in Nat
  BY LenProperties
<1>2. 1 \in 1 .. (Len(levels) + 1) /\ hist[1] = Present
  BY <1>1 DEF History
<1>3. Present \in Snapshots
  BY <1>2
<1>4. PresentTyped
  BY <1>3 DEF Present, Snapshots, PresentTyped
<1>5. CountsRight(hist[1]) /\ ModelsRight(hist[1].value, hist[1].sat)
  BY <1>2 DEF History
<1>6. Present.value = m_currentValue /\ Present.sat = isSat
  BY DEF Present
<1>7. \A k \in 1 .. (Len(levels) + 1) : hist[k].value \subseteq hist[1].value
  <2>1. \A k \in 1 .. (Len(levels) + 1) : 1 \in 1 .. k
    BY <1>1
  <2> QED
    BY <2>1 DEF History
<1> QED
  BY <1>2, <1>3, <1>4, <1>5, <1>6, <1>7

(* The clauses and the control state stay right. *)
LEMMA ClausesSame ==
  ASSUME m_clauses' = m_clauses
  PROVE  ClausesRight' <=> ClausesRight
  BY DEF ClausesRight, Idx

(* postUpdate keeps the invariant. *)
LEMMA PostUpdateStep ==
  ASSUME CnfInv, PostUpdate, UNCHANGED blockedVars
  PROVE  CnfInv'
<1>1. PICK hist \in [1 .. (Len(levels) + 1) -> Snapshots] : History(hist)
  BY DEF CnfInv, PastRight
<1>2. /\ ClausesRight /\ levels \in Seq(Levels) /\ levels # << >> /\ pc = "idle"
      /\ manager' = manager /\ m_clauses' = m_clauses /\ pc' = pc
      /\ levels' = Tail(levels) /\ watch' = watch /\ todo' = todo /\ gone' = gone
  BY DEF CnfInv, ControlRight, PostUpdate, blockedVars
<1>3. 1 \in 1 .. Len(levels) /\ Len(levels) \in Nat
  BY <1>2, LenProperties
<1>4. hist[2] = Undone(Present, levels[1])
  <2>1. hist[1 + 1] = Undone(hist[1], levels[1]) /\ hist[1] = Present
    BY <1>1, <1>3 DEF History
  <2> QED
    BY <2>1
<1>5. Present' = hist[2]
  <2>1. Present' = Undone(Present, levels[1])
    BY DEF PostUpdate, Present, Undone, RestoredUnsat
  <2> QED
    BY <1>4, <2>1
<1>6. PastRight'
  BY <1>1, <1>2, <1>5, PastShorter
<1>7. ListsRight(Present, Unlisted)'
  <2>1. ListsRight(hist[2], hist[2].sat)
    BY <1>1, <1>3 DEF History
  <2>2. ClausesKept
    BY <1>2 DEF ClausesKept, Idx, LitsOf
  <2>3. ListsRight(hist[2], hist[2].sat)'
    BY <2>1, <2>2, ListsKept
  <2>4. Unlisted' = isSat' /\ hist[2].sat = isSat'
    BY <1>2, <1>5 DEF Unlisted, Present
  <2> QED
    BY <1>5, <2>3, <2>4 DEF ListsRight
<1>8. ClausesRight'
  BY <1>2, ClausesSame
<1>9. ControlRight'
  <2>1. Tail(levels) \in Seq(Levels)
    BY <1>2, HeadTailProperties
  <2>2. ControlRight
    BY DEF CnfInv
  <2>3. manager' \in {"dyn", "pure", "blocked"} /\ pc' = "idle"
        /\ pc' # "inprocessing" /\ levels' \in Seq(Levels)
    BY <1>2, <2>1, <2>2 DEF ControlRight
  <2>4. Levels' = Levels
    BY <1>2, LevelsKept DEF Idx
  <2> QED
    BY <2>3, <2>4, Zenon DEF ControlRight
<1>10. WatchesRight'
  BY <1>2 DEF CnfInv, WatchesRight, Idx
<1> QED
  BY <1>6, <1>7, <1>8, <1>9, <1>10 DEF CnfInv

(***************************************************************************)
(* The marks m_markedLitStack and m_markedClauseIdx: M is the level L once *)
(* the literals lits are true, and the lists of O and the clauses of C,    *)
(* which are all that the snapshot g changes, are saved unless they were.  *)
(***************************************************************************)
LevelSaved(g, L, M, lits, O, C) ==
  /\ g.value = m_currentValue \cup lits
  /\ lits \cap m_currentValue = {}
  /\ M.lits = L.lits \cup lits
  /\ DOMAIN M.occs = DOMAIN L.occs \cup O
  /\ \A l \in DOMAIN M.occs :
        M.occs[l] = IF l \in DOMAIN L.occs THEN L.occs[l] ELSE m_occurrence[l]
  /\ \A l \in Lit : l \notin O => g.occ[l] = m_occurrence[l]
  /\ M.clauses = SaveClauses(C, L.clauses)
  /\ \A c \in Idx : c \notin C => /\ c \in g.sat <=> c \in isSat
                                  /\ g.unsat[c] = nbUnsat[c]

(* A later step of the same preUpdate leads back to the same snapshot. *)
LEMMA SavedUndone ==
  ASSUME Present \in Snapshots, NEW g \in Snapshots, NEW L \in Levels, NEW M,
         NEW O, NEW C, NEW lits, LevelSaved(g, L, M, lits, O, C)
  PROVE  Undone(g, M) = Undone(Present, L)
<1> USE DEF LevelSaved
<1>1. Present.value = m_currentValue /\ Present.occ = m_occurrence
      /\ Present.sat = isSat /\ Present.unsat = nbUnsat
  BY DEF Present
<1>2. g.value \ M.lits = Present.value \ L.lits
  BY <1>1
<1>3. \A l \in Lit : (IF l \in DOMAIN M.occs THEN M.occs[l] ELSE g.occ[l])
                       = (IF l \in DOMAIN L.occs THEN L.occs[l] ELSE Present.occ[l])
  BY <1>1
<1>4. DOMAIN M.clauses = DOMAIN L.clauses \cup C
      /\ \A c \in DOMAIN M.clauses :
            M.clauses[c] = IF c \in DOMAIN L.clauses THEN L.clauses[c]
                           ELSE [isSat |-> c \in isSat, nbUnsat |-> nbUnsat[c]]
  BY DEF SaveClauses
<1>5. \A c \in Idx : (IF c \in DOMAIN M.clauses THEN M.clauses[c].isSat ELSE c \in g.sat)
                <=> (IF c \in DOMAIN L.clauses THEN L.clauses[c].isSat ELSE c \in Present.sat)
  <2> SUFFICES ASSUME NEW c \in Idx
               PROVE (IF c \in DOMAIN M.clauses THEN M.clauses[c].isSat ELSE c \in g.sat)
                <=> (IF c \in DOMAIN L.clauses THEN L.clauses[c].isSat ELSE c \in Present.sat)
    OBVIOUS
  <2>1. CASE c \in DOMAIN L.clauses
    <3>1. c \in DOMAIN M.clauses /\ M.clauses[c] = L.clauses[c]
      BY <1>4, <2>1
    <3> QED
      BY <2>1, <3>1, Zenon
  <2>2. CASE c \notin DOMAIN L.clauses /\ c \in C
    <3>1. c \in DOMAIN M.clauses /\ M.clauses[c] = [isSat |-> c \in isSat, nbUnsat |-> nbUnsat[c]]
      BY <1>4, <2>2
    <3>2. [isSat |-> c \in isSat, nbUnsat |-> nbUnsat[c]].isSat <=> c \in isSat
      OBVIOUS
    <3> QED
      BY <1>1, <2>2, <3>1, <3>2, Zenon
  <2>3. CASE c \notin DOMAIN L.clauses /\ c \notin C
    <3>1. c \notin DOMAIN M.clauses
      BY <1>4, <2>3
    <3> QED
      BY <1>1, <2>3, <3>1, Zenon
  <2> QED
    BY <2>1, <2>2, <2>3
<1>6. \A c \in Idx : (IF c \in DOMAIN M.clauses THEN M.clauses[c].nbUnsat ELSE g.unsat[c])
                = (IF c \in DOMAIN L.clauses THEN L.clauses[c].nbUnsat ELSE Present.unsat[c])
  <2>1. \A c \in Idx :
          [isSat |-> c \in isSat, nbUnsat |-> nbUnsat[c]].nbUnsat = nbUnsat[c]
    OBVIOUS
  <2> SUFFICES ASSUME NEW c \in Idx
               PROVE (IF c \in DOMAIN M.clauses THEN M.clauses[c].nbUnsat ELSE g.unsat[c])
                = (IF c \in DOMAIN L.clauses THEN L.clauses[c].nbUnsat ELSE Present.unsat[c])
    OBVIOUS
  <2>2. CASE c \in DOMAIN L.clauses
    <3>1. c \in DOMAIN M.clauses /\ M.clauses[c] = L.clauses[c]
      BY <1>4, <2>2
    <3> QED
      BY <2>2, <3>1, Zenon
  <2>3. CASE c \notin DOMAIN L.clauses /\ c \in C
    <3>1. c \in DOMAIN M.clauses /\ M.clauses[c] = [isSat |-> c \in isSat, nbUnsat |-> nbUnsat[c]]
      BY <1>4, <2>3
    <3>2. M.clauses[c].nbUnsat = nbUnsat[c] /\ Present.unsat[c] = nbUnsat[c]
      BY <1>1, <2>1, <3>1, Zenon
    <3> QED
      BY <2>3, <3>1, <3>2, Zenon
  <2>4. CASE c \notin DOMAIN L.clauses /\ c \notin C
    <3>1. c \notin DOMAIN M.clauses
      BY <1>4, <2>4
    <3> QED
      BY <1>1, <2>4, <3>1, Zenon
  <2> QED
    BY <2>2, <2>3, <2>4
<1> QED
  BY <1>2, <1>3, <1>5, <1>6, UndoneSame

(***************************************************************************)
(* A round of CnfManagerDynPure::inprocessing.  A literal whose list is    *)
(* empty occurs in no clause left, so neither the counters nor the watched *)
(* literals of these clauses notice that its negation becomes true.        *)
(***************************************************************************)
LEMMA InprocessingStep ==
  ASSUME CnfInv, Inprocessing, UNCHANGED blockedVars
  PROVE  CnfInv'
<1>1. PICK hist \in [1 .. (Len(levels) + 1) -> Snapshots] : History(hist)
  BY DEF CnfInv, PastRight
<1>2. /\ ClausesRight /\ levels \in Seq(Levels) /\ levels # << >>
      /\ pc = "inprocessing" /\ manager = "pure"
      /\ manager' = manager /\ m_clauses' = m_clauses
      /\ watch' = watch /\ todo' = todo /\ gone' = gone
  BY DEF CnfInv, ControlRight, Inprocessing, blockedVars
<1>3. 1 \in 1 .. Len(levels) /\ Len(levels) \in Nat
  BY <1>2, LenProperties
<1>4. /\ PresentTyped /\ Present \in Snapshots
      /\ CountsRight(Present)
      /\ ModelsRight(m_currentValue, isSat)
  BY <1>1, <1>2, PresentFacts
<1>5. ListsRight(Present, isSat)
  BY <1>2 DEF CnfInv, Unlisted
<1>6. PICK L : L = levels[1]
  OBVIOUS
<1>7. L \in Levels /\ DOMAIN L.occs \subseteq Lit
  <2>1. L \in Levels
    BY <1>2, <1>3, <1>6, LenProperties
  <2>2. PICK D \in SUBSET Lit : L.occs \in [D -> SUBSET Idx]
    BY <2>1 DEF Levels, SavedOccs
  <2> QED
    BY <2>1, <2>2
<1>8. PICK pure : pure = PureDetected
  OBVIOUS
<1>9. pure \in SUBSET Lit
      /\ \A l \in pure : /\ Undef(l) /\ VarOf(l) \notin Decision
                         /\ m_occurrence[-l] = {} /\ m_occurrence[l] # {}
  <2> SUFFICES ASSUME NEW l \in pure
               PROVE  /\ l \in Lit /\ Undef(l) /\ VarOf(l) \notin Decision
                      /\ m_occurrence[-l] = {} /\ m_occurrence[l] # {}
    OBVIOUS
  <2>1. PICK m \in DOMAIN L.occs : /\ l = -m /\ VarOf(m) \notin Decision /\ Undef(m)
                                   /\ m_occurrence[m] = {} /\ m_occurrence[-m] # {}
    BY <1>6, <1>8 DEF PureDetected
  <2>2. m \in Lit /\ -(-m) = m /\ -m \in Lit /\ VarOf(-m) = VarOf(m)
    BY <1>7, LitFacts
  <2> QED
    BY <2>1, <2>2 DEF Undef
<1>10. \A l \in pure : -l \notin pure
  BY <1>9
<1>11. /\ NewlySat(pure) = {c \in Idx \ isSat : LitsOf(c) \cap pure # {}}
       /\ Cleaned(pure) \in [Lit -> SUBSET Idx]
       /\ \A l \in Lit \ pure : Undef(l) =>
             Cleaned(pure)[l]
               = {c \in Idx \ (isSat \cup NewlySat(pure)) : l \in LitsOf(c)}
  BY <1>2, <1>4, <1>5, <1>9, ListsPropagated
<1>12. PICK g : g = [occ |-> Cleaned(pure), sat |-> isSat \cup NewlySat(pure),
                     unsat |-> nbUnsat, value |-> m_currentValue \cup pure]
  OBVIOUS
<1>13. PICK M : M = [lits |-> L.lits \cup pure, occs |-> SaveOccs(pure, L.occs),
                     clauses |-> SaveClauses(NewlySat(pure), L.clauses)]
  OBVIOUS
<1>14. NewlySat(pure) \in SUBSET Idx
  BY <1>11
<1>15. g \in Snapshots
  <2>1. isSat \cup NewlySat(pure) \in SUBSET Idx /\ m_currentValue \cup pure \in SUBSET Lit
    BY <1>4, <1>9, <1>14 DEF PresentTyped
  <2> QED
    BY <1>4, <1>11, <1>12, <2>1 DEF Snapshots, PresentTyped
<1>16. Touched(pure) \subseteq Lit
  BY <1>2, <1>9, <1>14, ClauseFacts DEF Touched
<1>17. M \in Levels
  <2>1. SaveOccs(pure, L.occs) \in SavedOccs
    BY <1>4, <1>7, <1>9, <1>16, SavedTyped DEF Levels
  <2>2. SaveClauses(NewlySat(pure), L.clauses) \in SavedClauses
    BY <1>4, <1>7, <1>14, SavedTyped DEF Levels
  <2>3. L.lits \cup pure \in SUBSET Lit
    BY <1>7, <1>9 DEF Levels
  <2> QED
    BY <1>13, <2>1, <2>2, <2>3 DEF Levels
<1>18. Present' = g
  BY <1>8, <1>12 DEF Inprocessing, Present
<1>19. levels' = [levels EXCEPT ![1] = M]
  BY <1>6, <1>8, <1>13 DEF Inprocessing
<1>20. \A c \in Idx \ isSat : \A l \in LitsOf(c) : -l \notin pure
  <2> SUFFICES ASSUME NEW c \in Idx \ isSat, NEW l \in LitsOf(c), -l \in pure
               PROVE  FALSE
    OBVIOUS
  <2>1. l \in Lit /\ -(-l) = l
    BY <1>2, ClauseFacts, LitFacts
  <2>2. m_occurrence[l] = {} /\ Undef(l)
    BY <1>9, <2>1 DEF Undef
  <2>3. m_occurrence[l] = {d \in Idx \ isSat : l \in LitsOf(d)}
    BY <1>5, <2>1, <2>2 DEF ListsRight, Present, Free, Undef
  <2> QED
    BY <2>2, <2>3
<1>21. CountsRight(g)
  <2>1. \A l \in m_currentValue : -l \notin m_currentValue
    BY <1>4 DEF CountsRight, Present
  <2>2. \A l \in m_currentValue \cup pure : -l \notin m_currentValue \cup pure
    <3>1. m_currentValue \subseteq Lit
      BY <1>4 DEF PresentTyped
    <3> QED
      BY <1>9, <1>10, <2>1, <3>1, LitFacts DEF Undef
  <2>3. \A c \in Idx : LitsOf(c) \cap (m_currentValue \cup pure) # {}
                          => c \in isSat \cup NewlySat(pure)
    BY <1>4, <1>11 DEF CountsRight, Present
  <2>4. ASSUME NEW c \in Idx \ (isSat \cup NewlySat(pure))
        PROVE  /\ \A l \in LitsOf(c) : l \notin pure /\ -l \notin pure
               /\ Free(m_currentValue, m_clauses[c][1])
               /\ Len(m_clauses[c]) = 2 => \A l \in LitsOf(c) : Free(m_currentValue, l)
               /\ nbUnsat[c] = Cardinality({l \in LitsOf(c) : -l \in m_currentValue})
    <3>1. \A l \in LitsOf(c) : l \notin pure /\ -l \notin pure
      BY <1>11, <1>20
    <3>2. c \in Idx \ isSat
      OBVIOUS
    <3> QED
      BY <1>4, <3>1, <3>2 DEF CountsRight, Present
  <2>5. ASSUME NEW c \in Idx \ (isSat \cup NewlySat(pure))
        PROVE  /\ Free(m_currentValue \cup pure, m_clauses[c][1])
               /\ Len(m_clauses[c]) = 2 =>
                     \A l \in LitsOf(c) : Free(m_currentValue \cup pure, l)
               /\ nbUnsat[c]
                    = Cardinality({l \in LitsOf(c) : -l \in m_currentValue \cup pure})
    <3>1. m_clauses[c][1] \in LitsOf(c)
      BY <1>2, ClauseFacts
    <3>2. {l \in LitsOf(c) : -l \in m_currentValue \cup pure}
            = {l \in LitsOf(c) : -l \in m_currentValue}
      BY <2>4
    <3> QED
      BY <2>4, <3>1, <3>2 DEF Free
  <2>6. g.value = m_currentValue \cup pure /\ g.sat = isSat \cup NewlySat(pure)
        /\ g.unsat = nbUnsat
    BY <1>12
  <2> QED
    BY <2>2, <2>3, <2>5, <2>6 DEF CountsRight
<1>22. ModelsRight(m_currentValue \cup pure, isSat \cup NewlySat(pure))
  <2>1. \A l \in m_currentValue : -l \notin m_currentValue
    BY <1>4 DEF CountsRight, Present
  <2>2. \A l \in pure : /\ Free(m_currentValue, l) /\ -l \notin pure
                        /\ VarOf(l) \notin Counted
                        /\ \A c \in Idx \ isSat : -l \notin LitsOf(c)
    <3>1. Counted = Decision
      BY <1>2 DEF Counted
    <3>2. \A l \in pure : \A c \in Idx \ isSat : -l \notin LitsOf(c)
      BY <1>9, <1>20, LitFacts
    <3> QED
      BY <1>9, <1>10, <3>1, <3>2 DEF Free, Undef
  <2>3. m_currentValue \in SUBSET Lit /\ isSat \in SUBSET Idx
    BY <1>4 DEF PresentTyped
  <2>4. \A c \in NewlySat(pure) : LitsOf(c) \cap pure # {}
    BY <1>11
  <2>5. \A c \in Idx : LitsOf(c) \subseteq Lit
    BY <1>2, ClauseFacts
  <2> QED
    BY <1>4, <1>9, <1>14, <2>1, <2>2, <2>3, <2>4, <2>5, ModelsPure
<1>23. Undone(g, M) = Undone(Present, L)
  <2>1. PICK O : O = Touched(pure)
    OBVIOUS
  <2>2. PICK C : C = NewlySat(pure)
    OBVIOUS
  <2>3. g.value = m_currentValue \cup pure /\ pure \cap m_currentValue = {}
        /\ M.lits = L.lits \cup pure
    BY <1>9, <1>12, <1>13 DEF Undef
  <2>4. DOMAIN M.occs = DOMAIN L.occs \cup O
        /\ \A l \in DOMAIN M.occs :
            M.occs[l] = IF l \in DOMAIN L.occs THEN L.occs[l] ELSE m_occurrence[l]
    BY <1>13, <2>1 DEF SaveOccs
  <2>5. \A l \in Lit : l \notin O => g.occ[l] = m_occurrence[l]
    BY <1>12, <2>1 DEF Cleaned, Touched
  <2>6. \A c \in Idx : c \notin C => /\ c \in g.sat <=> c \in isSat
                                     /\ g.unsat[c] = nbUnsat[c]
    BY <1>12, <2>2
  <2>7. M.clauses = SaveClauses(C, L.clauses)
    BY <1>13, <2>2
  <2>8. LevelSaved(g, L, M, pure, O, C)
    BY <2>3, <2>4, <2>5, <2>6, <2>7 DEF LevelSaved
  <2> QED
    BY <1>4, <1>7, <1>15, <2>8, SavedUndone
<1>24. PastRight'
  <2>1. ModelsRight(g.value, g.sat) /\ m_currentValue \subseteq g.value
    BY <1>12, <1>22
  <2>2. Undone(g, M) = Undone(hist[1], levels[1])
    BY <1>1, <1>6, <1>23 DEF History
  <2> QED
    BY <1>1, <1>2, <1>15, <1>17, <1>18, <1>19, <1>21, <2>1, <2>2, PastWithin
<1>25. ListsRight(Present, Unlisted)'
  <2>1. ListsRight(g, g.sat)
    <3>1. g.value = m_currentValue \cup pure /\ g.sat = isSat \cup NewlySat(pure)
          /\ g.occ = Cleaned(pure)
      BY <1>12
    <3>2. \A l \in Lit : Free(g.value, l) => l \in Lit \ pure /\ Undef(l)
      BY <3>1 DEF Free, Undef
    <3> QED
      BY <1>11, <3>1, <3>2 DEF ListsRight
  <2>2. ClausesKept
    BY <1>2 DEF ClausesKept, Idx, LitsOf
  <2>3. ListsRight(g, g.sat)'
    BY <2>1, <2>2, ListsKept
  <2>4. Unlisted' = isSat' /\ g.sat = isSat'
    BY <1>2, <1>18 DEF Unlisted, Present
  <2> QED
    BY <1>18, <2>3, <2>4 DEF ListsRight
<1>26. ClausesRight'
  BY <1>2, ClausesSame
<1>27. ControlRight'
  <2>1. levels' \in Seq(Levels) /\ Len(levels') = Len(levels)
    BY <1>2, <1>3, <1>17, <1>19, LenProperties
  <2>2. levels' # << >>
    BY <1>3, <2>1
  <2>3. Levels' = Levels
    BY <1>2, LevelsKept DEF Idx
  <2>4. pc' \in {"idle", "inprocessing"} /\ manager' \in {"dyn", "pure", "blocked"}
        /\ manager' # "dyn"
    BY <1>2 DEF Inprocessing
  <2> QED
    BY <2>1, <2>2, <2>3, <2>4, Zenon DEF ControlRight
<1>28. WatchesRight'
  BY <1>2 DEF CnfInv, WatchesRight, Idx
<1> QED
  BY <1>24, <1>25, <1>26, <1>27, <1>28 DEF CnfInv

------------------------------------------------------------------------------
(* The steps of CnfManagerDynBlockedCl::inprocessing. *)

(* Steps that only go through the queue or move a watch. *)
LEMMA QuietStep ==
  ASSUME CnfInv, UNCHANGED cnfVars, gone' = gone, WatchesRight'
  PROVE  CnfInv'
<1>1. /\ m_clauses' = m_clauses /\ manager' = manager /\ pc' = pc
      /\ m_currentValue' = m_currentValue /\ m_occurrence' = m_occurrence
      /\ isSat' = isSat /\ nbUnsat' = nbUnsat /\ levels' = levels
  BY DEF cnfVars
<1>2. ClausesKept
  BY <1>1 DEF ClausesKept, Idx, LitsOf
<1>3. Present' = Present /\ Unlisted' = Unlisted
  BY <1>1 DEF Present, Unlisted
<1>4. ListsRight(Present, Unlisted)'
  <2>1. PICK h : h = Present
    OBVIOUS
  <2>2. PICK s : s = Unlisted
    OBVIOUS
  <2>3. ListsRight(h, s)'
    BY <1>2, <2>1, <2>2, ListsKept DEF CnfInv
  <2> QED
    BY <1>3, <2>1, <2>2, <2>3 DEF ListsRight
<1>5. ClausesRight'
  BY <1>1, ClausesSame DEF CnfInv
<1>6. ControlRight'
  <2>1. Levels' = Levels
    BY <1>1, LevelsKept DEF Idx
  <2> QED
    BY <1>1, <2>1, Zenon DEF CnfInv, ControlRight
<1>7. PastRight'
  <2>1. PICK hist \in [1 .. (Len(levels) + 1) -> Snapshots] : History(hist)
    BY DEF CnfInv, PastRight
  <2>2. \A k \in 1 .. (Len(levels) + 1) : hist[k].sat \subseteq Idx
    BY <2>1 DEF Snapshots
  <2>3. ASSUME NEW k \in 1 .. (Len(levels) + 1)
        PROVE  /\ CountsRight(hist[k])'
               /\ ModelsRight(hist[k].value, hist[k].sat)'
               /\ k > 1 => ListsRight(hist[k], hist[k].sat)'
    <3>1. CountsRight(hist[k])'
      <4>1. CountsRight(hist[k])
        BY <2>1 DEF History
      <4>2. \A c \in Idx \ hist[k].sat : Free(hist[k].value, m_clauses'[c][1])
        BY <1>1, <4>1 DEF CountsRight
      <4> QED
        BY <1>2, <4>1, <4>2, CountsKept
    <3>2. ModelsRight(hist[k].value, hist[k].sat)'
      BY <1>2, <2>1, <2>2, ModelsKept DEF History
    <3>3. k > 1 => ListsRight(hist[k], hist[k].sat)'
      BY <1>2, <2>1, ListsKept DEF History
    <3> QED
      BY <3>1, <3>2, <3>3
  <2>4. ASSUME NEW k \in 1 .. Len(levels)
        PROVE  hist[k + 1] = Undone(hist[k], levels[k])'
    <3>1. PICK L : L = levels[k]
      OBVIOUS
    <3>2. Undone(hist[k], L)' = Undone(hist[k], L)
      BY <1>2, UndoneKept
    <3>3. hist[k + 1] = Undone(hist[k], L)
      BY <2>1, <3>1 DEF History
    <3> QED
      BY <1>1, <3>1, <3>2, <3>3 DEF Undone
  <2>5. Snapshots' = Snapshots
    BY <1>2, UndoneKept
  <2>6. History(hist)'
    BY <1>1, <1>3, <2>1, <2>3, <2>4 DEF History
  <2> QED
    BY <1>1, <2>1, <2>5, <2>6 DEF PastRight
<1> QED
  BY <1>4, <1>5, <1>6, <1>7 DEF CnfInv

(* Turning to the watches of the next satisfied clause changes nothing saved. *)
LEMMA NextSatStep ==
  ASSUME CnfInv, NextSat
  PROVE  CnfInv'
<1>1. UNCHANGED cnfVars /\ gone' = gone /\ watch' = watch /\ todo' \subseteq DOMAIN watch
  BY DEF NextSat
<1>2. WatchesRight'
  BY <1>1 DEF CnfInv, WatchesRight, Idx, cnfVars
<1> QED
  BY <1>1, <1>2, QuietStep

(* A watch that stays or moves changes nothing but the watches. *)
LEMMA WatchStep ==
  ASSUME CnfInv, NEW b \in todo, todo' = todo \ {b}, WatchStays(b) \/ WatchMoves(b)
  PROVE  CnfInv'
<1>1. UNCHANGED cnfVars /\ gone' = gone /\ DOMAIN watch' = DOMAIN watch
  BY DEF WatchStays, WatchMoves
<1>2. WatchesRight'
  BY <1>1 DEF CnfInv, WatchesRight, Idx, cnfVars
<1> QED
  BY <1>1, <1>2, QuietStep

(***************************************************************************)
(* A clause is blocked: its lists keep it until the end of preUpdate, but  *)
(* it is marked satisfied and saved.                                       *)
(***************************************************************************)
LEMMA BlockStep ==
  ASSUME CnfInv, Running, NEW b \in todo, todo' = todo \ {b}, Block(b)
  PROVE  CnfInv'
<1>1. PICK hist \in [1 .. (Len(levels) + 1) -> Snapshots] : History(hist)
  BY DEF CnfInv, PastRight
<1>2. /\ ClausesRight /\ levels \in Seq(Levels) /\ levels # << >>
      /\ pc = "inprocessing" /\ manager = "blocked" /\ pc' = pc
      /\ manager' = manager /\ m_clauses' = m_clauses /\ watch' = watch
  BY DEF CnfInv, ControlRight, Running, Block
<1>3. 1 \in 1 .. Len(levels) /\ Len(levels) \in Nat
  BY <1>2, LenProperties
<1>4. /\ PresentTyped /\ Present \in Snapshots
      /\ CountsRight(Present)
      /\ ModelsRight(m_currentValue, isSat)
  BY <1>1, <1>2, PresentFacts
<1>5. PICK L : L = levels[1]
  OBVIOUS
<1>6. L \in Levels
  BY <1>2, <1>3, <1>5, LenProperties
<1>7. b[1] \in Idx /\ b[2] \in LitsOf(b[1]) /\ VarOf(b[2]) \notin Counted
  BY <1>2 DEF CnfInv, WatchesRight, Blockable, LitsOf, Counted
<1>8. b[1] \notin isSat /\ Undef(b[2]) /\ NonTaut(m_clauses, b[1], b[2]) \subseteq isSat
  BY DEF Block, Idle, Others
<1>9. PICK g : g = [occ |-> m_occurrence, sat |-> isSat \cup {b[1]},
                    unsat |-> nbUnsat, value |-> m_currentValue]
  OBVIOUS
<1>10. PICK M : M = [lits |-> L.lits, occs |-> L.occs,
                     clauses |-> SaveClauses({b[1]}, L.clauses)]
  OBVIOUS
<1>11. g \in Snapshots
  <2>1. isSat \cup {b[1]} \in SUBSET Idx
    BY <1>4, <1>7 DEF PresentTyped
  <2> QED
    BY <1>4, <1>9, <2>1 DEF Snapshots, PresentTyped
<1>12. M \in Levels
  <2>1. SaveClauses({b[1]}, L.clauses) \in SavedClauses
    BY <1>4, <1>6, <1>7, SavedTyped DEF Levels
  <2> QED
    BY <1>6, <1>10, <2>1 DEF Levels
<1>13. Present' = g
  BY <1>9 DEF Block, Present
<1>14. levels' = [levels EXCEPT ![1] = M]
  <2>1. [L EXCEPT !.clauses = SaveClauses({b[1]}, @)] = M
    BY <1>6, <1>10 DEF Levels
  <2>2. levels' = [levels EXCEPT ![1] = [L EXCEPT !.clauses = SaveClauses({b[1]}, @)]]
    BY <1>5 DEF Block
  <2> QED
    BY <2>1, <2>2
<1>15. g.value = m_currentValue /\ g.sat = isSat \cup {b[1]} /\ g.unsat = nbUnsat
       /\ g.occ = m_occurrence
  BY <1>9
<1>16. CountsRight(g)
  <2>1. Present.value = g.value /\ Present.unsat = g.unsat /\ Present.sat \subseteq g.sat
    BY <1>15 DEF Present
  <2> QED
    BY <1>4, <2>1 DEF CountsRight
<1>17. ModelsRight(g.value, g.sat)
  <2>1. m_currentValue \in SUBSET Lit /\ isSat \in SUBSET Idx
    BY <1>4 DEF PresentTyped
  <2>2. \A d \in Idx : LitsOf(d) \subseteq Lit
    BY <1>2, ClauseFacts
  <2>3. Free(m_currentValue, b[2])
    BY <1>8 DEF Undef, Free
  <2> QED
    BY <1>4, <1>7, <1>8, <1>15, <2>1, <2>2, <2>3, ModelsBlocked
<1>18. Undone(g, M) = Undone(Present, L)
  <2>1. DOMAIN M.occs = DOMAIN L.occs \cup {}
        /\ \A l \in DOMAIN M.occs :
            M.occs[l] = IF l \in DOMAIN L.occs THEN L.occs[l] ELSE m_occurrence[l]
    BY <1>10
  <2>2. LevelSaved(g, L, M, {}, {}, {b[1]})
    BY <1>10, <1>15, <2>1 DEF LevelSaved
  <2> QED
    BY <1>4, <1>6, <1>11, <2>2, SavedUndone
<1>19. PastRight'
  <2>1. Undone(g, M) = Undone(hist[1], levels[1])
    BY <1>1, <1>5, <1>18 DEF History
  <2> QED
    BY <1>1, <1>2, <1>11, <1>12, <1>13, <1>14, <1>15, <1>16, <1>17, <2>1, PastWithin
<1>20. ListsRight(Present, Unlisted)'
  <2>1. PICK s : s = Unlisted
    OBVIOUS
  <2>2. ListsRight(g, s)
    BY <1>15, <2>1 DEF CnfInv, ListsRight, Present
  <2>3. ClausesKept
    BY <1>2 DEF ClausesKept, Idx, LitsOf
  <2>4. ListsRight(g, s)'
    BY <2>2, <2>3, ListsKept
  <2>5. Unlisted' = s
    <3>1. isSat' = isSat \cup {b[1]} /\ gone' = gone \cup {b[1]}
      BY DEF Block
    <3> QED
      BY <1>2, <1>8, <2>1, <3>1 DEF Unlisted
  <2> QED
    BY <1>13, <2>4, <2>5 DEF ListsRight
<1>21. ClausesRight'
  BY <1>2, ClausesSame
<1>22. ControlRight'
  <2>1. levels' \in Seq(Levels) /\ Len(levels') = Len(levels)
    BY <1>2, <1>3, <1>12, <1>14, LenProperties
  <2>2. levels' # << >>
    BY <1>3, <2>1
  <2>3. Levels' = Levels
    BY <1>2, LevelsKept DEF Idx
  <2>4. pc' \in {"idle", "inprocessing"} /\ manager' \in {"dyn", "pure", "blocked"}
        /\ manager' # "dyn"
    BY <1>2
  <2> QED
    BY <2>1, <2>2, <2>3, <2>4, Zenon DEF ControlRight
<1>23. WatchesRight'
  <2>1. gone' = gone \cup {b[1]} /\ todo' \subseteq todo
    BY DEF Block
  <2> QED
    BY <1>2, <1>7, <2>1 DEF CnfInv, WatchesRight, Idx
<1> QED
  BY <1>19, <1>20, <1>21, <1>22, <1>23 DEF CnfInv

(***************************************************************************)
(* removeSatisfiedClauses of the clauses that were blocked: now the lists  *)
(* are without them.                                                       *)
(***************************************************************************)
LEMMA RemoveBlockedStep ==
  ASSUME CnfInv, RemoveBlocked
  PROVE  CnfInv'
<1>1. PICK hist \in [1 .. (Len(levels) + 1) -> Snapshots] : History(hist)
  BY DEF CnfInv, PastRight
<1>2. /\ ClausesRight /\ levels \in Seq(Levels) /\ levels # << >>
      /\ pc = "inprocessing" /\ manager = "blocked" /\ pc' = "idle"
      /\ manager' = manager /\ m_clauses' = m_clauses
      /\ watch' = watch /\ todo' = todo /\ gone' = gone
  BY DEF CnfInv, ControlRight, Running, RemoveBlocked, blockedVars
<1>3. 1 \in 1 .. Len(levels) /\ Len(levels) \in Nat
  BY <1>2, LenProperties
<1>4. /\ PresentTyped /\ Present \in Snapshots
      /\ CountsRight(Present)
      /\ ModelsRight(m_currentValue, isSat)
  BY <1>1, <1>2, PresentFacts
<1>5. PICK L : L = levels[1]
  OBVIOUS
<1>6. L \in Levels
  BY <1>2, <1>3, <1>5, LenProperties
<1>7. PICK lists : lists = UNION {LitsOf(c) : c \in gone}
  OBVIOUS
<1>8. lists \subseteq Lit
  <2>1. gone \subseteq Idx
    BY DEF CnfInv, WatchesRight
  <2> QED
    BY <1>2, <1>7, <2>1, ClauseFacts
<1>9. PICK g : g = [occ |-> [l \in Lit |-> IF l \in lists THEN m_occurrence[l] \ isSat
                                           ELSE m_occurrence[l]],
                    sat |-> isSat, unsat |-> nbUnsat, value |-> m_currentValue]
  OBVIOUS
<1>10. PICK M : M = [lits |-> L.lits,
                     occs |-> [l \in DOMAIN L.occs \cup lists |->
                                 IF l \in DOMAIN L.occs THEN L.occs[l]
                                 ELSE m_occurrence[l]],
                     clauses |-> L.clauses]
  OBVIOUS
<1>11. g \in Snapshots
  BY <1>4, <1>9 DEF Snapshots, PresentTyped
<1>12. M \in Levels
  <2>1. PICK D \in SUBSET Lit : L.occs \in [D -> SUBSET Idx]
    BY <1>6 DEF Levels, SavedOccs
  <2>2. M.occs \in [D \cup lists -> SUBSET Idx] /\ D \cup lists \in SUBSET Lit
    BY <1>4, <1>8, <1>10, <2>1 DEF PresentTyped
  <2>3. M.occs \in SavedOccs
    BY <2>2 DEF SavedOccs
  <2>4. M = [lits |-> L.lits, occs |-> M.occs, clauses |-> L.clauses]
    BY <1>10
  <2> QED
    BY <1>6, <2>3, <2>4 DEF Levels
<1>13. Present' = g
  BY <1>7, <1>9 DEF RemoveBlocked, Present
<1>14. levels' = [levels EXCEPT ![1] = M]
  <2>1. [L EXCEPT !.occs = [l \in DOMAIN @ \cup lists |-> IF l \in DOMAIN @ THEN @[l]
                                                          ELSE m_occurrence[l]]] = M
    BY <1>6, <1>10 DEF Levels
  <2>2. levels' = [levels EXCEPT ![1] =
           [L EXCEPT !.occs = [l \in DOMAIN @ \cup lists |-> IF l \in DOMAIN @ THEN @[l]
                                                             ELSE m_occurrence[l]]]]
    BY <1>5, <1>7 DEF RemoveBlocked
  <2> QED
    BY <2>1, <2>2
<1>15. g.value = m_currentValue /\ g.sat = isSat /\ g.unsat = nbUnsat
  BY <1>9
<1>16. CountsRight(g)
  <2>1. Present.value = g.value /\ Present.unsat = g.unsat /\ Present.sat = g.sat
    BY <1>15 DEF Present
  <2> QED
    BY <1>4, <2>1 DEF CountsRight
<1>17. ModelsRight(g.value, g.sat)
  BY <1>4, <1>15
<1>18. Undone(g, M) = Undone(Present, L)
  <2>1. DOMAIN M.occs = DOMAIN L.occs \cup lists
        /\ \A l \in DOMAIN M.occs :
            M.occs[l] = IF l \in DOMAIN L.occs THEN L.occs[l] ELSE m_occurrence[l]
    BY <1>10
  <2>2. \A l \in Lit : l \notin lists => g.occ[l] = m_occurrence[l]
    BY <1>9
  <2>3. M.clauses = SaveClauses({}, L.clauses)
    <3>1. PICK D : L.clauses \in [D -> [isSat : BOOLEAN, nbUnsat : 0 .. NbVar]]
      BY <1>6 DEF Levels, SavedClauses
    <3>2. DOMAIN L.clauses \cup {} = DOMAIN L.clauses
      OBVIOUS
    <3> QED
      BY <1>10, <3>1, <3>2 DEF SaveClauses
  <2>4. LevelSaved(g, L, M, {}, lists, {})
    BY <1>10, <1>15, <2>1, <2>2, <2>3 DEF LevelSaved
  <2> QED
    BY <1>4, <1>6, <1>11, <2>4, SavedUndone
<1>19. PastRight'
  <2>1. Undone(g, M) = Undone(hist[1], levels[1])
    BY <1>1, <1>5, <1>18 DEF History
  <2> QED
    BY <1>1, <1>2, <1>11, <1>12, <1>13, <1>14, <1>15, <1>16, <1>17, <2>1, PastWithin
<1>20. ListsRight(Present, Unlisted)'
  <2>1. ASSUME NEW l \in Lit, Free(g.value, l)
        PROVE  g.occ[l] = {c \in Idx \ isSat : l \in LitsOf(c)}
    <3>1. m_occurrence[l] = {c \in Idx \ (isSat \ gone) : l \in LitsOf(c)}
      BY <1>2, <1>15, <2>1 DEF CnfInv, ListsRight, Present, Unlisted
    <3>2. g.occ[l] = IF l \in lists THEN m_occurrence[l] \ isSat ELSE m_occurrence[l]
      BY <1>9
    <3>3. CASE l \in lists
      BY <3>1, <3>2, <3>3
    <3>4. CASE l \notin lists
      <4>1. \A c \in gone : l \notin LitsOf(c)
        BY <1>7, <3>4
      <4> QED
        BY <3>1, <3>2, <3>4, <4>1
    <3> QED
      BY <3>3, <3>4
  <2>2. ListsRight(g, g.sat)
    BY <1>15, <2>1 DEF ListsRight
  <2>3. ClausesKept
    BY <1>2 DEF ClausesKept, Idx, LitsOf
  <2>4. ListsRight(g, g.sat)'
    BY <2>2, <2>3, ListsKept
  <2>5. Unlisted' = isSat' /\ g.sat = isSat'
    BY <1>2, <1>13 DEF Unlisted, Present
  <2> QED
    BY <1>13, <2>4, <2>5 DEF ListsRight
<1>21. ClausesRight'
  BY <1>2, ClausesSame
<1>22. ControlRight'
  <2>1. levels' \in Seq(Levels) /\ Len(levels') = Len(levels)
    BY <1>2, <1>3, <1>12, <1>14, LenProperties
  <2>2. levels' # << >>
    BY <1>3, <2>1
  <2>3. Levels' = Levels
    BY <1>2, LevelsKept DEF Idx
  <2>4. pc' \in {"idle", "inprocessing"} /\ manager' \in {"dyn", "pure", "blocked"}
        /\ manager' # "dyn"
    BY <1>2
  <2> QED
    BY <2>1, <2>2, <2>3, <2>4, Zenon DEF ControlRight
<1>23. WatchesRight'
  BY <1>2 DEF CnfInv, WatchesRight, Idx
<1> QED
  BY <1>19, <1>20, <1>21, <1>22, <1>23 DEF CnfInv

------------------------------------------------------------------------------
(* The first step of preUpdate: propagateTrue and propagateFalseInNotBin. *)

(* A set of naturals that is not empty has a least element. *)
LEMMA LeastExists ==
  ASSUME NEW S, S \subseteq Nat, S # {}
  PROVE  \E m \in S : \A s \in S : m <= s
<1> DEFINE R == OpToRel(<, Nat)
<1>1. PICK x \in S : \A y \in S : ~(<< y, x >> \in R)
  BY NatLessThanWellFounded, WFMin
<1>2. \A y \in S : ~(y < x)
  BY <1>1 DEF OpToRel
<1> QED
  BY <1>2

(* The search for another literal to watch only swaps two literals, and    *)
(* finds one without a value if there is one.                              *)
LEMMA WatchFromFacts ==
  ASSUME ClausesRight, NEW c \in Idx, NEW undef
  PROVE  /\ WatchFrom(c, undef) \in Seq(Lit)
         /\ Len(WatchFrom(c, undef)) = Len(m_clauses[c])
         /\ ToSet(WatchFrom(c, undef)) = LitsOf(c)
         /\ \A i, j \in 1 .. Len(m_clauses[c]) :
              i # j => VarOf(WatchFrom(c, undef)[i]) # VarOf(WatchFrom(c, undef)[j])
         /\ (\E i \in 2 .. Len(m_clauses[c]) : m_clauses[c][i] \in undef)
              => WatchFrom(c, undef)[1] \in undef
<1> DEFINE s == m_clauses[c]
           n == Len(s)
           later == {i \in 2 .. n : s[i] \in undef}
           w == WatchFrom(c, undef)
<1>1. /\ s \in Seq(Lit) /\ n \in Nat /\ n >= 2 /\ DOMAIN s = 1 .. n
      /\ LitsOf(c) = {s[i] : i \in 1 .. n}
  BY ClauseFacts
<1>2. \A i, j \in 1 .. n : i # j => VarOf(s[i]) # VarOf(s[j])
  BY <1>1 DEF ClausesRight
<1>3. CASE later = {}
  <2>1. w = s
    BY <1>3 DEF WatchFrom
  <2>2. ToSet(s) = LitsOf(c)
    BY DEF LitsOf
  <2>3. ~\E i \in 2 .. n : s[i] \in undef
    BY <1>3
  <2> HIDE DEF s, n, w
  <2> QED
    BY <1>1, <1>2, <2>1, <2>2, <2>3 DEF s, n, w
<1>4. CASE later # {}
  <2> DEFINE i == CHOOSE x \in later : \A y \in later : x <= y
  <2>1. i \in later
    <3>1. later \subseteq Nat
      BY <1>1
    <3> HIDE DEF later
    <3>2. \E x \in later : \A y \in later : x <= y
      BY <1>4, <3>1, LeastExists
    <3> QED
      BY <3>2
  <2>2. w = [s EXCEPT ![1] = s[i], ![i] = s[1]]
    BY <1>4 DEF WatchFrom
  <2>3. i \in 2 .. n /\ s[i] \in undef
    BY <2>1
  <2> HIDE DEF i, later, w, n, s
  <2>4. w \in Seq(Lit) /\ Len(w) = n /\ DOMAIN w = 1 .. n
    BY <1>1, <2>2, <2>3, LenProperties DEF n
  <2>5. \A j \in 1 .. n : w[j] = IF j = i THEN s[1] ELSE IF j = 1 THEN s[i] ELSE s[j]
    BY <1>1, <2>2, <2>3 DEF n
  <2>6. ToSet(w) = LitsOf(c)
    <3>1. ToSet(w) = {w[j] : j \in 1 .. n}
      BY <2>4 DEF ToSet
    <3>2. \A j \in 1 .. n : \E k \in 1 .. n : w[j] = s[k]
      BY <1>1, <2>3, <2>5
    <3>3. \A j \in 1 .. n : \E k \in 1 .. n : s[j] = w[k]
      <4> SUFFICES ASSUME NEW j \in 1 .. n PROVE \E k \in 1 .. n : s[j] = w[k]
        OBVIOUS
      <4>1. CASE j = 1
        BY <2>3, <2>5, <4>1
      <4>2. CASE j = i
        BY <1>1, <2>3, <2>5, <4>2
      <4>3. CASE j # 1 /\ j # i
        BY <2>5, <4>3
      <4> QED
        BY <4>1, <4>2, <4>3
    <3>4. {w[j] : j \in 1 .. n} = {s[j] : j \in 1 .. n}
      BY <3>2, <3>3, SMT
    <3> QED
      BY <1>1, <3>1, <3>4, Zenon
  <2>7. \A j, k \in 1 .. n : j # k => VarOf(w[j]) # VarOf(w[k])
    <3>1. \A j, k \in 1 .. n : j # k =>
             \E x, y \in 1 .. n : x # y /\ w[j] = s[x] /\ w[k] = s[y]
      <4> SUFFICES ASSUME NEW j \in 1 .. n, NEW k \in 1 .. n, j # k
                   PROVE  \E x, y \in 1 .. n : x # y /\ w[j] = s[x] /\ w[k] = s[y]
        OBVIOUS
      <4> DEFINE sw(z) == IF z = i THEN 1 ELSE IF z = 1 THEN i ELSE z
      <4>1. sw(j) \in 1 .. n /\ sw(k) \in 1 .. n /\ sw(j) # sw(k)
        BY <1>1, <2>3
      <4>2. w[j] = s[sw(j)] /\ w[k] = s[sw(k)]
        BY <2>5
      <4> QED
        BY <4>1, <4>2, Zenon
    <3> SUFFICES ASSUME NEW j \in 1 .. n, NEW k \in 1 .. n, j # k
                 PROVE  VarOf(w[j]) # VarOf(w[k])
      OBVIOUS
    <3>2. PICK x \in 1 .. n, y \in 1 .. n : x # y /\ w[j] = s[x] /\ w[k] = s[y]
      BY <3>1, Zenon
    <3>3. VarOf(s[x]) # VarOf(s[y])
      BY <1>2, <3>2, Zenon
    <3> QED
      BY <3>2, <3>3, Zenon
  <2>8. w[1] \in undef
    BY <1>1, <2>3, <2>5
  <2> QED
    BY <2>4, <2>6, <2>7, <2>8 DEF w, n, s
<1> QED
  BY <1>3, <1>4

(* The literals whose falsity propagateFalseInNotBin counts in a clause. *)
FalseIn(c, lits) == {l \in lits : c \in Falsified(l, Cleaned(lits))}

(* The literals of a clause that keep no value. *)
StillUndef(c, lits) == {l \in LitsOf(c) : Undef(l) /\ -l \notin lits}

(* What preUpdate knows of its literals. *)
Propagated(lits) ==
  /\ ClausesRight /\ PresentTyped /\ CountsRight(Present) /\ ListsRight(Present, isSat)
  /\ lits \in SUBSET Lit
  /\ \A l \in lits : Undef(l) /\ -l \notin lits
  /\ \A c \in Idx \ isSat :
        \/ LitsOf(c) \cap lits # {}
        \/ Cardinality(StillUndef(c, lits)) >= 2

(***************************************************************************)
(* The counter of a clause left goes up by its new false literals; that of *)
(* a binary clause stays, and there are none.                              *)
(***************************************************************************)
LEMMA FalseCounted ==
  ASSUME NEW lits, Propagated(lits), NEW c \in Idx
  PROVE  /\ c \in isSat \cup NewlySat(lits) => FalseIn(c, lits) = {}
         /\ c \notin isSat \cup NewlySat(lits) =>
              /\ LitsOf(c) \cap lits = {}
              /\ Cardinality(StillUndef(c, lits)) >= 2
              /\ Len(m_clauses[c]) = 2 => StillUndef(c, lits) = LitsOf(c)
              /\ Len(m_clauses[c]) # 2 =>
                   FalseIn(c, lits) = {l \in lits : -l \in LitsOf(c)}
              /\ nbUnsat[c] + Cardinality(FalseIn(c, lits))
                   = Cardinality({l \in LitsOf(c) : -l \in m_currentValue \cup lits})
         /\ nbUnsat[c] + Cardinality(FalseIn(c, lits)) \in 0 .. NbVar
<1> DEFINE sat == isSat \cup NewlySat(lits)
           undef == StillUndef(c, lits)
           old == {l \in LitsOf(c) : -l \in m_currentValue}
           new == {l \in LitsOf(c) : -l \in lits}
           both == {l \in LitsOf(c) : -l \in m_currentValue \cup lits}
<1>1. /\ ClausesRight /\ PresentTyped /\ CountsRight(Present) /\ ListsRight(Present, isSat)
      /\ lits \in SUBSET Lit /\ \A l \in lits : Undef(l) /\ -l \notin lits
  BY DEF Propagated
<1>2. /\ NewlySat(lits) = {d \in Idx \ isSat : LitsOf(d) \cap lits # {}}
      /\ \A l \in Lit \ lits : Undef(l) =>
            Cleaned(lits)[l] = {d \in Idx \ sat : l \in LitsOf(d)}
  BY <1>1, ListsPropagated
<1>3. /\ LitsOf(c) \subseteq Lit /\ IsFiniteSet(LitsOf(c))
      /\ Len(m_clauses[c]) \in Nat /\ Len(m_clauses[c]) >= 2
      /\ Cardinality(LitsOf(c)) = Len(m_clauses[c]) /\ Len(m_clauses[c]) <= NbVar
  BY <1>1, ClauseFacts
<1>4. ASSUME NEW l \in lits
      PROVE  c \in Falsified(l, Cleaned(lits))
               <=> (c \notin sat /\ -l \in LitsOf(c) /\ Len(m_clauses[c]) > 2)
  <2>1. -l \in Lit \ lits /\ Undef(-l)
    <3>1. l \in Lit
      BY <1>1
    <3> QED
      BY <1>1, <3>1, LitFacts DEF Undef
  <2>2. Cleaned(lits)[-l] = {d \in Idx \ sat : -l \in LitsOf(d)}
    BY <1>2, <2>1
  <2> HIDE DEF sat
  <2> QED
    BY <2>2 DEF Falsified
<1>5. FalseIn(c, lits)
        = {l \in lits : c \notin sat /\ -l \in LitsOf(c) /\ Len(m_clauses[c]) > 2}
  BY <1>4 DEF FalseIn
<1>6. nbUnsat[c] \in 0 .. NbVar /\ NbVar \in Nat
  BY <1>1, FormulaAssumption DEF PresentTyped
<1>7. ASSUME c \in sat
      PROVE  /\ FalseIn(c, lits) = {}
             /\ nbUnsat[c] + Cardinality(FalseIn(c, lits)) \in 0 .. NbVar
  <2>1. FalseIn(c, lits) = {}
    <3> HIDE DEF sat
    <3> QED
      BY <1>5, <1>7
  <2>2. Cardinality(FalseIn(c, lits)) = 0
    BY <2>1, FS_EmptySet
  <2> QED
    BY <1>6, <2>1, <2>2
<1>8. ASSUME c \notin sat
      PROVE  /\ LitsOf(c) \cap lits = {}
             /\ Cardinality(undef) >= 2
             /\ Len(m_clauses[c]) = 2 => undef = LitsOf(c)
             /\ Len(m_clauses[c]) # 2 =>
                      FalseIn(c, lits) = {l \in lits : -l \in LitsOf(c)}
             /\ nbUnsat[c] + Cardinality(FalseIn(c, lits)) = Cardinality(both)
             /\ nbUnsat[c] + Cardinality(FalseIn(c, lits)) \in 0 .. NbVar
  <2>1. LitsOf(c) \cap lits = {} /\ c \in Idx \ isSat
    BY <1>2, <1>8
  <2>2. Cardinality(undef) >= 2
    BY <2>1 DEF Propagated
  <2>3. ASSUME Len(m_clauses[c]) = 2 PROVE undef = LitsOf(c)
    <3>1. undef \in SUBSET LitsOf(c)
      BY DEF StillUndef
    <3>2. Cardinality(undef) <= Cardinality(LitsOf(c)) /\ IsFiniteSet(undef)
          /\ (Cardinality(LitsOf(c)) = Cardinality(undef) => LitsOf(c) = undef)
      BY <1>3, <3>1, FS_Subset
    <3>3. Cardinality(undef) \in Nat
      BY <3>2, FS_CardinalityType
    <3> QED
      BY <1>3, <2>2, <2>3, <3>2, <3>3
  <2>4. Len(m_clauses[c]) # 2 => FalseIn(c, lits) = {l \in lits : -l \in LitsOf(c)}
    <3> SUFFICES ASSUME Len(m_clauses[c]) # 2
                 PROVE  FalseIn(c, lits) = {l \in lits : -l \in LitsOf(c)}
      OBVIOUS
    <3>1. Len(m_clauses[c]) > 2
      <4>1. \A n \in Nat : n >= 2 /\ n # 2 => n > 2
        OBVIOUS
      <4>2. Len(m_clauses[c]) \in Nat /\ Len(m_clauses[c]) >= 2
        BY <1>3
      <4> QED
        BY <4>1, <4>2, Zenon
    <3> HIDE DEF sat
    <3> QED
      BY <1>5, <1>8, <3>1
  <2>5. nbUnsat[c] = Cardinality(old)
    BY <1>1, <2>1 DEF CountsRight, Present
  <2>6. IsFiniteSet(old) /\ IsFiniteSet(new) /\ IsFiniteSet(both)
        /\ Cardinality(both) <= Len(m_clauses[c]) /\ Cardinality(both) \in Nat
    <3> HIDE DEF old, new, both
    <3>1. old \in SUBSET LitsOf(c) /\ new \in SUBSET LitsOf(c) /\ both \in SUBSET LitsOf(c)
      BY DEF old, new, both
    <3>2. IsFiniteSet(old) /\ IsFiniteSet(new) /\ IsFiniteSet(both)
          /\ Cardinality(both) <= Cardinality(LitsOf(c))
      BY <1>3, <3>1, FS_Subset
    <3> QED
      BY <1>3, <3>2, FS_CardinalityType
  <2>7. Cardinality(both) = Cardinality(old) + Cardinality(new)
    <3>1. both = old \cup new
      OBVIOUS
    <3>2. old \cap new = {}
      BY <1>1 DEF Undef
    <3> HIDE DEF old, new, both
    <3>3. Cardinality(both) = Cardinality(old) + Cardinality(new) - Cardinality({})
      BY <2>6, <3>1, <3>2, FS_Union
    <3>4. Cardinality({}) = 0 /\ Cardinality(old) \in Nat /\ Cardinality(new) \in Nat
      BY <2>6, FS_EmptySet, FS_CardinalityType
    <3> QED
      BY <3>3, <3>4
  <2>8. Cardinality(FalseIn(c, lits)) = Cardinality(new)
    <3>1. CASE Len(m_clauses[c]) = 2
      <4>1. new = {}
        BY <2>3, <3>1 DEF StillUndef
      <4>2. FalseIn(c, lits) = {}
        BY <1>5, <3>1
      <4> QED
        BY <4>1, <4>2
    <3>2. CASE Len(m_clauses[c]) # 2
      <4> DEFINE T == {l \in lits : -l \in LitsOf(c)}
                 f == [m \in new |-> -m]
      <4>1. \A m \in new : m \in Lit /\ -m \in Lit /\ -(-m) = m /\ -m \in T
        BY <1>3, LitFacts
      <4>2. \A l \in T : l \in Lit /\ -(-l) = l /\ -l \in new
        BY <1>1, LitFacts
      <4>3. \A m1, m2 \in new : -m1 = -m2 => m1 = m2
        BY <4>1, LitFacts
      <4> HIDE DEF T, new
      <4>4. f \in Bijection(new, T)
        <5>1. f \in [new -> T]
          BY <4>1
        <5>2. \A l \in T : \E m \in new : f[m] = l
          BY <4>2
        <5>3. \A m1, m2 \in new : f[m1] = f[m2] => m1 = m2
          BY <4>3
        <5> HIDE DEF f
        <5> QED
          BY <5>1, <5>2, <5>3 DEF Bijection, Injection, Surjection, IsInjective
      <4>5. ExistsBijection(new, T)
        BY <4>4 DEF ExistsBijection
      <4>6. Cardinality(T) = Cardinality(new)
        BY <2>6, <4>5, FS_Bijection
      <4>7. FalseIn(c, lits) = T
        BY <2>4, <3>2 DEF T
      <4> QED
        BY <4>6, <4>7
    <3> QED
      BY <3>1, <3>2
  <2>9. nbUnsat[c] + Cardinality(FalseIn(c, lits)) = Cardinality(both)
    BY <2>5, <2>7, <2>8
  <2>10. nbUnsat[c] + Cardinality(FalseIn(c, lits)) \in 0 .. NbVar
    BY <1>3, <1>6, <2>6, <2>9
  <2> QED
    BY <2>1, <2>2, <2>3, <2>4, <2>9, <2>10
<1> QED
  BY <1>7, <1>8

(* The clauses once propagateFalseInNotBin has moved the watched literals. *)
Rewatched(c, lits) ==
  IF /\ c \notin isSat \cup NewlySat(lits)
     /\ \E l \in lits : c \in Falsified(l, Cleaned(lits)) /\ m_clauses[c][1] = -l
  THEN WatchFrom(c, {l \in Lit : Undef(l)} \ (lits \cup {-l : l \in lits}))
  ELSE m_clauses[c]

(***************************************************************************)
(* Only the order of the literals changes, and the literal now watched in  *)
(* a clause left has no value: two of them have none, and a watch that     *)
(* became false is moved.                                                  *)
(***************************************************************************)
LEMMA WatchMoved ==
  ASSUME NEW lits, Propagated(lits), NEW c \in Idx
  PROVE  /\ Rewatched(c, lits) \in Seq(Lit)
         /\ Len(Rewatched(c, lits)) = Len(m_clauses[c])
         /\ ToSet(Rewatched(c, lits)) = LitsOf(c)
         /\ \A i, j \in 1 .. Len(m_clauses[c]) :
              i # j => VarOf(Rewatched(c, lits)[i]) # VarOf(Rewatched(c, lits)[j])
         /\ c \notin isSat \cup NewlySat(lits) =>
              Free(m_currentValue \cup lits, Rewatched(c, lits)[1])
         /\ Rewatched(c, lits) # m_clauses[c] => c \notin isSat \cup NewlySat(lits)
<1> DEFINE s == m_clauses[c]
           n == Len(s)
           w == Rewatched(c, lits)
           U == {l \in Lit : Undef(l)} \ (lits \cup {-l : l \in lits})
           sat == isSat \cup NewlySat(lits)
           undef == StillUndef(c, lits)
           moved == /\ c \notin sat
                    /\ \E l \in lits : c \in Falsified(l, Cleaned(lits)) /\ s[1] = -l
<1>1. /\ ClausesRight /\ CountsRight(Present)
      /\ lits \in SUBSET Lit /\ \A l \in lits : Undef(l) /\ -l \notin lits
  BY DEF Propagated
<1>2. /\ s \in Seq(Lit) /\ n \in Nat /\ n >= 2 /\ DOMAIN s = 1 .. n
      /\ LitsOf(c) = {s[i] : i \in 1 .. n} /\ LitsOf(c) \subseteq Lit
      /\ s[1] \in LitsOf(c)
  BY <1>1, ClauseFacts
<1>3. ToSet(s) = LitsOf(c)
  BY DEF LitsOf
<1>4. \A i, j \in 1 .. n : i # j => VarOf(s[i]) # VarOf(s[j])
  BY <1>1, <1>2 DEF ClausesRight
<1>5. ASSUME c \notin sat
      PROVE  /\ LitsOf(c) \cap lits = {}
             /\ Cardinality(undef) >= 2
             /\ n = 2 => undef = LitsOf(c)
             /\ n # 2 => FalseIn(c, lits) = {l \in lits : -l \in LitsOf(c)}
  BY <1>5, FalseCounted
<1>6. \A l \in Lit : l \in U <=> (Undef(l) /\ l \notin lits /\ -l \notin lits)
  <2>1. \A l \in Lit : l \in {-m : m \in lits} <=> -l \in lits
    BY <1>1, LitFacts
  <2> QED
    BY <2>1
<1>7. CASE moved
  <2>1. w = WatchFrom(c, U)
    BY <1>7 DEF Rewatched
  <2>2. PICK l \in lits : s[1] = -l
    BY <1>7
  <2>3. \E m \in undef : TRUE
    <3>1. undef # {}
      BY <1>5, <1>7, FS_EmptySet
    <3> QED
      BY <3>1
  <2>4. PICK m \in undef : TRUE
    BY <2>3
  <2>5. m \in U
    BY <1>2, <1>5, <1>6, <1>7, <2>4 DEF StillUndef
  <2>6. PICK i \in 1 .. n : m = s[i]
    BY <1>2, <2>4 DEF StillUndef
  <2>7. i # 1
    <3>1. -m \notin lits /\ -(-l) = l
      BY <1>1, <2>4, LitFacts DEF StillUndef
    <3> QED
      BY <2>2, <2>6, <3>1
  <2>8. i \in 2 .. n
    BY <1>2, <2>7
  <2> HIDE DEF U
  <2>9. /\ WatchFrom(c, U) \in Seq(Lit) /\ Len(WatchFrom(c, U)) = n
        /\ ToSet(WatchFrom(c, U)) = LitsOf(c)
        /\ \A j, k \in 1 .. n :
              j # k => VarOf(WatchFrom(c, U)[j]) # VarOf(WatchFrom(c, U)[k])
        /\ WatchFrom(c, U)[1] \in U
    BY <1>1, <2>5, <2>6, <2>8, WatchFromFacts
  <2>10. w[1] \in U /\ U \subseteq Lit
    BY <2>1, <2>9 DEF U
  <2>11. Free(m_currentValue \cup lits, w[1])
    BY <1>6, <2>10 DEF Free, Undef
  <2> HIDE DEF w, n, s, sat
  <2> QED
    BY <1>7, <2>1, <2>9, <2>11 DEF w, n, s, sat
<1>8. CASE ~moved
  <2>1. w = s
    BY <1>8 DEF Rewatched
  <2>2. ASSUME c \notin sat PROVE Free(m_currentValue \cup lits, s[1])
    <3>1. Free(m_currentValue, s[1]) /\ s[1] \notin lits
      BY <1>1, <1>2, <1>5, <2>2 DEF CountsRight, Present
    <3>2. ASSUME -s[1] \in lits PROVE FALSE
      <4>1. -(-s[1]) = s[1]
        BY <1>2, LitFacts
      <4>2. CASE n = 2
        BY <1>2, <1>5, <2>2, <3>2, <4>2 DEF StillUndef
      <4>3. CASE n # 2
        <5>1. -s[1] \in FalseIn(c, lits)
          BY <1>2, <1>5, <2>2, <3>2, <4>1, <4>3
        <5> QED
          BY <1>8, <2>2, <4>1, <5>1 DEF FalseIn
      <4> QED
        BY <4>2, <4>3
    <3> QED
      BY <3>1, <3>2 DEF Free
  <2> HIDE DEF w, n, s, sat
  <2> QED
    BY <1>2, <1>3, <1>4, <2>1, <2>2 DEF w, n, s, sat
<1> QED
  BY <1>7, <1>8

(***************************************************************************)
(* preUpdate with the literals the solver implied, up to inprocessing.     *)
(***************************************************************************)
LEMMA PreUpdateStep ==
  ASSUME CnfInv, NEW lits \in SUBSET {l \in Lit : Undef(l)}, PreUpdate(lits),
         watch' = watch, todo' = todo,
         (manager # "blocked" /\ gone' = gone) \/ gone' = {}
  PROVE  CnfInv'
<1>1. PICK hist \in [1 .. (Len(levels) + 1) -> Snapshots] : History(hist)
  BY DEF CnfInv, PastRight
<1>2. /\ ClausesRight /\ levels \in Seq(Levels) /\ Len(levels) \in Nat /\ pc = "idle"
      /\ manager' = manager /\ manager \in {"dyn", "pure", "blocked"}
  BY LenProperties DEF CnfInv, ControlRight, PreUpdate
<1>3. /\ PresentTyped /\ Present \in Snapshots
      /\ CountsRight(Present)
      /\ ModelsRight(m_currentValue, isSat)
      /\ \A k \in 1 .. (Len(levels) + 1) : hist[k].value \subseteq m_currentValue
  BY <1>1, <1>2, PresentFacts
<1>4. ListsRight(Present, isSat)
  BY <1>2 DEF CnfInv, Unlisted
<1>5. /\ lits \in SUBSET Lit
      /\ \A l \in lits : Undef(l) /\ -l \notin lits
      /\ Propagated(lits)
  <2>1. lits \in SUBSET Lit /\ \A l \in lits : Undef(l) /\ -l \notin lits
    BY DEF PreUpdate, Implied
  <2>2. \A c \in Idx \ isSat : \/ LitsOf(c) \cap lits # {}
                               \/ Cardinality(StillUndef(c, lits)) >= 2
    BY DEF PreUpdate, Implied, StillUndef
  <2> QED
    BY <1>2, <1>3, <1>4, <2>1, <2>2 DEF Propagated
<1>6. /\ NewlySat(lits) = {c \in Idx \ isSat : LitsOf(c) \cap lits # {}}
      /\ Cleaned(lits) \in [Lit -> SUBSET Idx]
      /\ \A l \in Lit \ lits : Undef(l) =>
            Cleaned(lits)[l]
              = {c \in Idx \ (isSat \cup NewlySat(lits)) : l \in LitsOf(c)}
  BY <1>2, <1>3, <1>4, <1>5, ListsPropagated
<1>7. NewlySat(lits) \in SUBSET Idx
  BY <1>6
<1>8. PICK sat : sat = isSat \cup NewlySat(lits)
  OBVIOUS
<1>9. PICK changed : changed = UNION {Falsified(l, Cleaned(lits)) : l \in lits}
  OBVIOUS
<1>10. PICK g : g = [occ |-> Cleaned(lits), sat |-> sat,
                     unsat |-> [c \in Idx |-> nbUnsat[c] + Cardinality(FalseIn(c, lits))],
                     value |-> m_currentValue \cup lits]
  OBVIOUS
<1>11. PICK M : M = [lits |-> lits, occs |-> SaveOccs(lits, << >>),
                     clauses |-> SaveClauses(changed, SaveClauses(NewlySat(lits), << >>))]
  OBVIOUS
<1>12. m_occurrence' = Cleaned(lits) /\ isSat' = sat
       /\ m_currentValue' = m_currentValue \cup lits
  BY <1>8 DEF PreUpdate
<1>13. PropagateFalseInNotBin(lits, Cleaned(lits), sat,
         [lits |-> lits, occs |-> SaveOccs(lits, << >>),
          clauses |-> SaveClauses(NewlySat(lits), << >>)])
  BY <1>12 DEF PreUpdate
<1>14. m_clauses' = [c \in Idx |-> Rewatched(c, lits)]
  BY <1>8, <1>13 DEF PropagateFalseInNotBin, Rewatched
<1>15. nbUnsat' = [c \in Idx |-> nbUnsat[c] + Cardinality(FalseIn(c, lits))]
  BY <1>13 DEF PropagateFalseInNotBin, FalseIn
<1>16. levels' = << M >> \o levels
  <2>1. levels' = << [[lits |-> lits, occs |-> SaveOccs(lits, << >>),
                       clauses |-> SaveClauses(NewlySat(lits), << >>)]
                        EXCEPT !.clauses = SaveClauses(changed, @)] >> \o levels
    BY <1>9, <1>13 DEF PropagateFalseInNotBin
  <2>2. [[lits |-> lits, occs |-> SaveOccs(lits, << >>),
          clauses |-> SaveClauses(NewlySat(lits), << >>)]
            EXCEPT !.clauses = SaveClauses(changed, @)] = M
    BY <1>11
  <2> QED
    BY <2>1, <2>2
<1>17. Present' = g
  BY <1>10, <1>12, <1>15 DEF Present
<1>18. g \in Snapshots
  <2>1. sat \in SUBSET Idx /\ m_currentValue \cup lits \in SUBSET Lit
    BY <1>3, <1>5, <1>7, <1>8 DEF PresentTyped
  <2>2. \A c \in Idx : nbUnsat[c] + Cardinality(FalseIn(c, lits)) \in 0 .. NbVar
    BY <1>5, FalseCounted
  <2> QED
    BY <1>6, <1>10, <2>1, <2>2 DEF Snapshots
<1>19. changed \in SUBSET Idx
  <2>1. \A l \in lits : -l \in Lit
    BY <1>5, LitFacts
  <2> QED
    BY <1>6, <1>9, <2>1 DEF Falsified
<1>20. M \in Levels
  <2>1. Touched(lits) \subseteq Lit
    BY <1>2, <1>5, <1>7, ClauseFacts DEF Touched
  <2>2. SaveOccs(lits, << >>) \in SavedOccs
    BY <1>3, <1>5, <2>1, SavedTyped
  <2>3. SaveClauses(NewlySat(lits), << >>) \in SavedClauses
    BY <1>3, <1>7, SavedTyped
  <2>4. SaveClauses(changed, SaveClauses(NewlySat(lits), << >>)) \in SavedClauses
    BY <1>3, <1>19, <2>3, SavedTyped
  <2> QED
    BY <1>5, <1>11, <2>2, <2>4 DEF Levels
<1>21. ClausesKept
  <2>1. Idx' = Idx
    BY <1>14 DEF Idx
  <2>2. \A c \in Idx : m_clauses'[c] = Rewatched(c, lits)
    BY <1>14
  <2>3. \A c \in Idx : LitsOf(c)' = LitsOf(c) /\ Len(m_clauses'[c]) = Len(m_clauses[c])
    BY <1>5, <2>2, WatchMoved DEF LitsOf
  <2> QED
    BY <1>2, <2>1, <2>3 DEF ClausesKept
<1>22. \A c \in Idx \ sat : Free(m_currentValue \cup lits, m_clauses'[c][1])
  BY <1>5, <1>8, <1>14, WatchMoved
<1>23. \A k \in 1 .. (Len(levels) + 1) : \A c \in Idx \ hist[k].sat :
          Free(hist[k].value, m_clauses'[c][1])
  <2> SUFFICES ASSUME NEW k \in 1 .. (Len(levels) + 1), NEW c \in Idx \ hist[k].sat
               PROVE  Free(hist[k].value, m_clauses'[c][1])
    OBVIOUS
  <2>1. Free(hist[k].value, m_clauses[c][1])
    BY <1>1 DEF History, CountsRight
  <2>2. m_clauses'[c] = Rewatched(c, lits)
    BY <1>14
  <2>3. CASE m_clauses'[c] = m_clauses[c]
    BY <2>1, <2>3
  <2>4. CASE m_clauses'[c] # m_clauses[c]
    <3>1. c \in Idx \ sat
      BY <1>5, <1>8, <2>2, <2>4, WatchMoved
    <3>2. Free(m_currentValue \cup lits, m_clauses'[c][1])
      BY <1>22, <3>1
    <3> QED
      BY <1>3, <3>2 DEF Free
  <2> QED
    BY <2>3, <2>4
<1>24. CountsRight(g)'
  <2>1. g.value = m_currentValue \cup lits /\ g.sat = sat
        /\ g.unsat = [c \in Idx |-> nbUnsat[c] + Cardinality(FalseIn(c, lits))]
    BY <1>10
  <2>2. \A l \in g.value : -l \notin g.value
    <3>1. \A l \in m_currentValue : -l \notin m_currentValue /\ l \in Lit
      BY <1>3 DEF CountsRight, Present, PresentTyped
    <3> QED
      BY <1>5, <2>1, <3>1, LitFacts DEF Undef
  <2>3. \A c \in Idx : LitsOf(c) \cap g.value # {} => c \in g.sat
    BY <1>3, <1>6, <1>8, <2>1 DEF CountsRight, Present
  <2>4. ASSUME NEW c \in Idx \ g.sat
        PROVE  /\ Len(m_clauses[c]) = 2 => \A l \in LitsOf(c) : Free(g.value, l)
               /\ g.unsat[c] = Cardinality({l \in LitsOf(c) : -l \in g.value})
    <3>1. c \notin isSat \cup NewlySat(lits)
      BY <1>8, <2>1
    <3>2. /\ LitsOf(c) \cap lits = {}
          /\ Len(m_clauses[c]) = 2 => StillUndef(c, lits) = LitsOf(c)
          /\ nbUnsat[c] + Cardinality(FalseIn(c, lits))
               = Cardinality({l \in LitsOf(c) : -l \in m_currentValue \cup lits})
      BY <1>5, <3>1, FalseCounted
    <3>3. Len(m_clauses[c]) = 2 => \A l \in LitsOf(c) : Free(g.value, l)
      BY <2>1, <3>2 DEF StillUndef, Free, Undef
    <3> QED
      BY <2>1, <3>2, <3>3
  <2>5. \A c \in Idx \ g.sat : Free(g.value, m_clauses'[c][1])
    BY <1>22, <2>1
  <2> QED
    BY <1>21, <2>2, <2>3, <2>4, <2>5 DEF CountsRight, ClausesKept, Free
<1>25. ModelsRight(g.value, g.sat) /\ m_currentValue \subseteq g.value
  <2>1. \A l \in m_currentValue : -l \notin m_currentValue
    BY <1>3 DEF CountsRight, Present
  <2>2. \A l \in lits : Free(m_currentValue, l) /\ -l \notin lits
    BY <1>5 DEF Free, Undef
  <2>3. \A A \in Models(Idx, OnCounted(m_currentValue \cup lits)) : lits \subseteq A
    <3>1. CASE manager = "dyn"
      <4>1. \A l \in lits : VarOf(l) \in Counted
        BY <1>5, <3>1, LitFacts DEF Counted
      <4> QED
        BY <4>1 DEF Models, OnCounted
    <3>2. CASE manager # "dyn"
      BY <3>2 DEF PreUpdate, Implied
    <3> QED
      BY <3>1, <3>2
  <2>4. m_currentValue \in SUBSET Lit /\ isSat \in SUBSET Idx
    BY <1>3 DEF PresentTyped
  <2>5. \A c \in NewlySat(lits) : LitsOf(c) \cap lits # {}
    BY <1>6
  <2>6. ModelsRight(m_currentValue \cup lits, isSat \cup NewlySat(lits))
    BY <1>3, <1>5, <1>7, <2>1, <2>2, <2>3, <2>4, <2>5, ModelsPropagated
  <2> QED
    BY <1>8, <1>10, <2>6
<1>26. Undone(g, M) = Present
  <2>1. PICK E : E = [lits |-> {}, occs |-> << >>, clauses |-> << >>]
    OBVIOUS
  <2>2. E \in Levels /\ DOMAIN E.occs = {} /\ DOMAIN E.clauses = {} /\ E.lits = {}
    BY <1>3, <2>1, SavedTyped DEF Levels
  <2>3. Undone(Present, E) = Present
    BY <1>3, <2>2 DEF Undone, Present, PresentTyped
  <2>4. PICK O : O = Touched(lits)
    OBVIOUS
  <2>5. PICK C : C = NewlySat(lits) \cup changed
    OBVIOUS
  <2>6. g.value = m_currentValue \cup lits /\ lits \cap m_currentValue = {}
        /\ M.lits = E.lits \cup lits
    BY <1>5, <1>10, <1>11, <2>2 DEF Undef
  <2>7. DOMAIN M.occs = DOMAIN E.occs \cup O
        /\ \A l \in DOMAIN M.occs :
            M.occs[l] = IF l \in DOMAIN E.occs THEN E.occs[l] ELSE m_occurrence[l]
    BY <1>11, <2>2, <2>4 DEF SaveOccs
  <2>8. \A l \in Lit : l \notin O => g.occ[l] = m_occurrence[l]
    BY <1>10, <2>4 DEF Cleaned, Touched
  <2>9. M.clauses = SaveClauses(C, E.clauses)
    <3>1. DOMAIN << >> = {} /\ E.clauses = << >>
      BY <2>1
    <3>2. SaveClauses(NewlySat(lits), << >>)
            = [c \in NewlySat(lits) |-> [isSat |-> c \in isSat, nbUnsat |-> nbUnsat[c]]]
      BY <3>1 DEF SaveClauses
    <3>3. SaveClauses(changed, SaveClauses(NewlySat(lits), << >>))
            = [c \in C |-> [isSat |-> c \in isSat, nbUnsat |-> nbUnsat[c]]]
      BY <2>5, <3>2 DEF SaveClauses
    <3>4. SaveClauses(C, << >>)
            = [c \in C |-> [isSat |-> c \in isSat, nbUnsat |-> nbUnsat[c]]]
      BY <3>1 DEF SaveClauses
    <3> QED
      BY <1>11, <3>1, <3>3, <3>4
  <2>10. ASSUME NEW c \in Idx, c \notin C
         PROVE  (c \in g.sat <=> c \in isSat) /\ g.unsat[c] = nbUnsat[c]
    <3>1. FalseIn(c, lits) = {}
      BY <1>9, <2>5, <2>10 DEF FalseIn
    <3>2. Cardinality(FalseIn(c, lits)) = 0 /\ nbUnsat[c] \in Nat
      BY <1>3, <3>1, FS_EmptySet, FormulaAssumption DEF PresentTyped
    <3>3. g.unsat[c] = nbUnsat[c] + Cardinality(FalseIn(c, lits)) /\ g.sat = sat
      BY <1>10
    <3> QED
      BY <1>8, <2>5, <2>10, <3>2, <3>3
  <2>11. LevelSaved(g, E, M, lits, O, C)
    BY <2>6, <2>7, <2>8, <2>9, <2>10 DEF LevelSaved
  <2>12. Undone(g, M) = Undone(Present, E)
    BY <1>3, <1>18, <2>2, <2>11, SavedUndone
  <2> QED
    BY <2>3, <2>12
<1>27. PastRight'
  BY <1>1, <1>2, <1>4, <1>16, <1>17, <1>18, <1>20, <1>21, <1>23, <1>24, <1>25, <1>26,
     PastLonger
<1>28. ListsRight(Present, Unlisted)'
  <2>1. ListsRight(g, g.sat)
    <3>1. g.value = m_currentValue \cup lits /\ g.sat = sat /\ g.occ = Cleaned(lits)
      BY <1>10
    <3>2. \A l \in Lit : Free(g.value, l) => l \in Lit \ lits /\ Undef(l)
      BY <3>1 DEF Free, Undef
    <3> QED
      BY <1>6, <1>8, <3>1, <3>2 DEF ListsRight
  <2>2. ListsRight(g, g.sat)'
    BY <1>21, <2>1, ListsKept
  <2>3. Unlisted' = isSat' /\ g.sat = isSat'
    BY <1>2, <1>10, <1>12 DEF Unlisted
  <2> QED
    BY <1>17, <2>2, <2>3 DEF ListsRight
<1>29. ClausesRight'
  <2>1. Idx = 1 .. Len(m_clauses) /\ Len(m_clauses) \in Nat /\ Idx' = Idx
    BY <1>2, <1>21, LenProperties DEF ClausesRight, Idx, ClausesKept
  <2>2. \A c \in Idx : Rewatched(c, lits) \in Seq(Lit)
    BY <1>5, WatchMoved
  <2>3. m_clauses' \in Seq(Seq(Lit))
    BY <1>14, <2>1, <2>2
  <2>4. ASSUME NEW c \in Idx
        PROVE  /\ Len(m_clauses'[c]) >= 2
               /\ \A i, j \in DOMAIN m_clauses'[c] :
                    i # j => VarOf(m_clauses'[c][i]) # VarOf(m_clauses'[c][j])
    <3>1. m_clauses'[c] = Rewatched(c, lits) /\ Len(m_clauses'[c]) = Len(m_clauses[c])
          /\ m_clauses'[c] \in Seq(Lit)
      BY <1>14, <1>21, <2>2 DEF ClausesKept
    <3>2. DOMAIN m_clauses'[c] = 1 .. Len(m_clauses[c])
      BY <3>1, LenProperties
    <3>3. Len(m_clauses[c]) >= 2
      BY <1>2, ClauseFacts
    <3> QED
      BY <1>5, <3>1, <3>2, <3>3, WatchMoved
  <2> QED
    BY <2>1, <2>3, <2>4 DEF ClausesRight
<1>30. ControlRight'
  <2>1. levels' \in Seq(Levels) /\ Len(levels') = Len(levels) + 1
    BY <1>2, <1>16, <1>20, ConcatProperties
  <2>2. levels' # << >>
    BY <1>2, <2>1
  <2>3. Levels' = Levels
    BY <1>21, LevelsKept DEF ClausesKept
  <2>4. pc' = IF manager = "dyn" THEN "idle" ELSE "inprocessing"
    BY DEF PreUpdate
  <2>5. pc' \in {"idle", "inprocessing"} /\ (manager' = "dyn" => pc' = "idle")
    BY <1>2, <2>4
  <2> QED
    BY <1>2, <2>1, <2>2, <2>3, <2>5, Zenon DEF ControlRight
<1>31. WatchesRight'
  <2>1. \A c \in Idx : Blockable(m_clauses', c) = Blockable(m_clauses, c)
    BY <1>21 DEF ClausesKept, LitsOf, Blockable
  <2>2. gone' \subseteq Idx
    BY DEF CnfInv, WatchesRight
  <2>3. todo' \subseteq DOMAIN watch'
    BY DEF CnfInv, WatchesRight
  <2>4. \A b \in DOMAIN watch' : b[1] \in Idx /\ b[2] \in Blockable(m_clauses', b[1])
    BY <2>1 DEF CnfInv, WatchesRight
  <2> QED
    BY <1>21, <2>2, <2>3, <2>4 DEF WatchesRight, ClausesKept
<1> QED
  BY <1>27, <1>28, <1>29, <1>30, <1>31 DEF CnfInv

------------------------------------------------------------------------------
(* The constructors. *)

(* A formula just read, without clauses that change no model. *)
LEMMA StartedInv ==
  ASSUME NEW f \in Formulas, NEW sat \in SUBSET DOMAIN f, Started(f, sat),
         ModelsRight({}, sat), manager \in {"dyn", "pure", "blocked"}, WatchesRight
  PROVE  CnfInv
<1>1. /\ m_clauses = f /\ m_currentValue = {} /\ isSat = sat /\ levels = << >>
      /\ m_occurrence = [l \in Lit |-> {c \in DOMAIN f \ sat : l \in ToSet(f[c])}]
      /\ nbUnsat = [c \in DOMAIN f |-> 0] /\ pc = "idle"
  BY DEF Started
<1>2. ClausesRight
  BY <1>1, FormulaAssumption DEF ClausesRight, Idx
<1>3. Idx = DOMAIN f /\ \A c \in Idx : LitsOf(c) = ToSet(f[c])
  BY <1>1 DEF Idx, LitsOf
<1>4. Len(levels) = 0 /\ levels \in Seq(Levels)
  BY <1>1
<1>5. ControlRight
  <2>1. pc # "inprocessing"
    BY <1>1
  <2> QED
    BY <1>1, <1>4, <2>1, Zenon DEF ControlRight
<1>6. Present \in Snapshots
  <2>1. m_occurrence \in [Lit -> SUBSET Idx]
    BY <1>1, <1>3
  <2>2. nbUnsat \in [Idx -> 0 .. NbVar]
    BY <1>1, <1>3, FormulaAssumption
  <2> QED
    BY <1>1, <1>3, <2>1, <2>2 DEF Present, Snapshots
<1>7. CountsRight(Present)
  <2>1. Present.value = {} /\ Present.unsat = nbUnsat /\ Present.sat = sat
    BY <1>1 DEF Present
  <2>2. \A c \in Idx : {l \in LitsOf(c) : -l \in Present.value} = {} /\ nbUnsat[c] = 0
    BY <1>1, <1>3, <2>1
  <2> QED
    BY <2>1, <2>2, FS_EmptySet DEF CountsRight, Free
<1>8. ListsRight(Present, Unlisted)
  BY <1>1, <1>3 DEF ListsRight, Present, Unlisted
<1>9. PastRight
  <2> DEFINE hist == [k \in 1 .. 1 |-> Present]
  <2>1. hist \in [1 .. (Len(levels) + 1) -> Snapshots]
    BY <1>4, <1>6
  <2>2. hist[1] = Present /\ Present.value = {} /\ Present.sat = sat
    BY <1>1 DEF Present
  <2>3. \A k \in 1 .. (Len(levels) + 1) : k = 1
    BY <1>4
  <2>4. \A k \in 1 .. Len(levels) : FALSE
    BY <1>4
  <2> HIDE DEF hist
  <2>5. \A k \in 1 .. (Len(levels) + 1) : hist[k] = Present /\ ~(k > 1)
          /\ \A j \in 1 .. k : hist[j] = Present
    BY <2>2, <2>3
  <2>6. History(hist)
    BY <1>7, <2>2, <2>4, <2>5 DEF History
  <2> QED
    BY <2>1, <2>6 DEF PastRight
<1> QED
  BY <1>2, <1>5, <1>8, <1>9 DEF CnfInv

(* Nothing is dropped, or the clauses with an initial pure literal. *)
LEMMA PureInit ==
  ASSUME NEW f \in Formulas, m_clauses = f, manager \in {"dyn", "pure"}
  PROVE  ModelsRight({}, InitSat(f))
<1> DEFINE P == InitPure(f)
           sat == InitSat(f)
<1>1. Idx = DOMAIN f /\ \A c \in Idx : LitsOf(c) = ToSet(f[c])
  BY DEF Idx, LitsOf
<1>2. ClausesRight
  BY FormulaAssumption DEF ClausesRight, Idx
<1>3. \A c \in Idx : LitsOf(c) \subseteq Lit
  BY <1>2, ClauseFacts
<1>4. OnCounted({}) = {}
  BY DEF OnCounted
<1>5. ASSUME NEW A \in Models(Idx, {})
      PROVE  Impose(A, {}) \in Models(Idx \ sat, {})
  <2>1. Impose(A, {}) = A
    BY DEF Impose
  <2> QED
    BY <2>1, ModelFacts
<1>6. ASSUME NEW B \in Models(Idx \ sat, {})
      PROVE  \E A \in Models(Idx, {}) : OnCounted(A) = OnCounted(B)
  <2>1. B \in Assignments /\ \A c \in Idx \ sat : LitsOf(c) \cap B # {}
    BY ModelFacts
  <2>2. CASE manager = "dyn"
    <3>1. sat = {}
      BY <2>2 DEF InitSat
    <3>2. B \in Models(Idx, {})
      BY <2>1, <3>1, ModelFacts
    <3> QED
      BY <3>2
  <2>3. CASE manager = "pure"
    <3>1. P \in SUBSET Lit
          /\ \A l \in P : VarOf(l) \notin Decision /\ \A c \in Idx : -l \notin LitsOf(c)
      BY <1>1 DEF InitPure
    <3>2. \A l \in P : \E c \in Idx : l \in LitsOf(c)
      BY <1>1 DEF InitPure
    <3>3. \A l \in P : -l \notin P
      BY <3>1, <3>2
    <3>4. \A c \in sat : c \in Idx /\ LitsOf(c) \cap P # {}
      BY <1>1 DEF InitSat
    <3>5. Impose(B, P) \in Assignments /\ P \subseteq Impose(B, P)
      BY <2>1, <3>1, <3>3, ImposeFacts
    <3>6. ASSUME NEW c \in Idx PROVE LitsOf(c) \cap Impose(B, P) # {}
      <4>1. CASE c \in sat
        BY <3>4, <3>5, <4>1
      <4>2. CASE c \notin sat
        <5>1. PICK m \in LitsOf(c) : m \in B
          BY <2>1, <4>2
        <5>2. -(-m) = m /\ m \in Lit
          BY <1>3, LitFacts
        <5>3. -m \notin P
          BY <3>1, <5>2
        <5> QED
          BY <5>1, <5>3 DEF Impose
      <4> QED
        BY <4>1, <4>2
    <3>7. Impose(B, P) \in Models(Idx, {})
      BY <3>5, <3>6, ModelFacts
    <3>8. OnCounted(Impose(B, P)) = OnCounted(B)
      <4>1. Counted = Decision
        BY <2>3 DEF Counted
      <4>2. B \subseteq Lit
        BY <2>1, AssignmentFacts
      <4>3. \A l \in Lit : VarOf(l) \in Decision => l \notin P /\ -l \notin P
        BY <3>1, LitFacts
      <4>4. \A l \in Impose(B, P) : l \in Lit
        BY <3>5, AssignmentFacts
      <4> HIDE DEF P
      <4>5. \A l \in Lit : VarOf(l) \in Decision => (l \in Impose(B, P) <=> l \in B)
        BY <4>3 DEF Impose
      <4> QED
        BY <4>1, <4>2, <4>4, <4>5 DEF OnCounted
    <3> QED
      BY <3>7, <3>8
  <2> QED
    BY <2>2, <2>3
<1> QED
  BY <1>4, <1>5, <1>6 DEF ModelsRight

(***************************************************************************)
(* The clauses CnfManagerDynBlockedCl drops to begin with: they go one     *)
(* after the other, each blocked once those before it are gone, until no   *)
(* clause left is.                                                         *)
(***************************************************************************)
LEMMA BlockedDropped ==
  ASSUME NEW f \in Formulas, m_clauses = f, manager = "blocked"
  PROVE  ModelsRight({}, InitBlocked(f))
<1> DEFINE W == InitBlocked(f)
           Right == {x \in SUBSET W : ModelsRight({}, W \ x)}
           R == StrictSubsetOrdering(W)
<1>1. Idx = DOMAIN f /\ \A c \in Idx : LitsOf(c) = ToSet(f[c])
  BY DEF Idx, LitsOf
<1>2. ClausesRight
  BY FormulaAssumption DEF ClausesRight, Idx
<1>3. \A c \in Idx : LitsOf(c) \subseteq Lit
  BY <1>2, ClauseFacts
<1>4. W \subseteq Idx
  BY <1>1 DEF InitBlocked
<1>5. IsFiniteSet(W)
  <2>1. Idx = 1 .. Len(m_clauses) /\ Len(m_clauses) \in Nat
    BY <1>2, LenProperties DEF ClausesRight, Idx
  <2>2. IsFiniteSet(Idx)
    BY <2>1, FS_Interval
  <2> QED
    BY <1>4, <2>2, FS_Subset
<1>6. ModelsRight({}, {})
  <2>1. OnCounted({}) = {} /\ \A A : Impose(A, {}) = A
    BY DEF OnCounted, Impose
  <2>2. Idx \ {} = Idx
    OBVIOUS
  <2> QED
    BY <2>1, <2>2 DEF ModelsRight
<1>7. Right \subseteq FiniteSubsetsOf(W) /\ Right # {}
  <2>1. W \in Right
    BY <1>6
  <2>2. \A x \in SUBSET W : IsFiniteSet(x)
    BY <1>5, FS_Subset
  <2> QED
    BY <2>1, <2>2 DEF FiniteSubsetsOf
<1>8. PICK x \in Right : \A y \in Right : ~(<< y, x >> \in R)
  <2>1. IsWellFoundedOn(R, FiniteSubsetsOf(W))
    BY FS_StrictSubsetOrderingWellFounded
  <2> HIDE DEF R, Right, W
  <2> QED
    BY <1>7, <2>1, WFMin
<1> DEFINE S == W \ x
<1>9. ClosedUnder(f, S)
  <2> SUFFICES ASSUME NEW c \in DOMAIN f, NEW l \in Blockable(f, c),
                      NonTaut(f, c, l) \subseteq S, c \notin S
               PROVE  FALSE
    BY DEF ClosedUnder
  <2>1. c \in W
    <3> SUFFICES ASSUME NEW Z \in SUBSET DOMAIN f, ClosedUnder(f, Z) PROVE c \in Z
      BY DEF InitBlocked
    <3>1. W \subseteq Z
      BY DEF InitBlocked
    <3> HIDE DEF W
    <3>2. NonTaut(f, c, l) \subseteq Z
      BY <3>1
    <3> QED
      BY <3>2 DEF ClosedUnder
  <2>2. l \in LitsOf(c) /\ VarOf(l) \notin Counted
    BY <1>1 DEF Blockable, Counted
  <2>3. ModelsRight({}, S) /\ S \in SUBSET Idx
    BY <1>4, <1>8
  <2>4. Free({}, l)
    BY DEF Free
  <2>5. ModelsRight({}, S \cup {c})
    <3> HIDE DEF S
    <3> QED
      BY <1>1, <1>3, <2>2, <2>3, <2>4, ModelsBlocked
  <2>6. c \in x /\ x \subseteq W
    BY <1>8, <2>1
  <2>7. W \ (x \ {c}) = S \cup {c}
    BY <2>1
  <2>8. x \ {c} \in Right
    BY <2>5, <2>6, <2>7
  <2>9. << x \ {c}, x >> \in R
    BY <2>6 DEF StrictSubsetOrdering
  <2> QED
    BY <1>8, <2>8, <2>9
<1>10. W \subseteq S
  <2>1. S \in SUBSET DOMAIN f
    BY <1>1, <1>4
  <2> QED
    BY <1>9, <2>1 DEF InitBlocked
<1>11. S = W
  BY <1>10
<1>12. ModelsRight({}, S)
  BY <1>8
<1> QED
  BY <1>11, <1>12

(* The constructors establish the invariant. *)
LEMMA CnfInitInv ==
  ASSUME BlockedInit
  PROVE  CnfInv
<1>1. queue = {} /\ todo = {} /\ gone = {}
  BY DEF BlockedInit
<1>2. CASE CnfInit /\ watch = << >>
  <2>1. PICK f \in Formulas : Started(f, InitSat(f))
    BY <1>2 DEF CnfInit
  <2>2. manager \in {"dyn", "pure"}
    BY <1>2, FormulaAssumption DEF CnfInit
  <2>3. m_clauses = f
    BY <2>1 DEF Started
  <2>4. ModelsRight({}, InitSat(f))
    BY <2>2, <2>3, PureInit
  <2>5. InitSat(f) \in SUBSET DOMAIN f
    BY DEF InitSat
  <2>6. DOMAIN watch = {}
    BY <1>2
  <2>7. WatchesRight
    BY <1>1, <2>6 DEF WatchesRight
  <2>8. manager \in {"dyn", "pure", "blocked"}
    BY <2>2
  <2> QED
    BY <2>1, <2>4, <2>5, <2>7, <2>8, StartedInv
<1>3. CASE ~(CnfInit /\ watch = << >>)
  <2>1. manager = "blocked"
        /\ \E f \in Formulas :
             LET left == DOMAIN f \ InitBlocked(f)
                 pairs == {b \in left \X Lit : b[2] \in Blockable(f, b[1])}
             IN Started(f, InitBlocked(f)) /\ watch \in [pairs -> left]
    BY <1>3, Zenon DEF BlockedInit
  <2>2. PICK f \in Formulas :
          /\ Started(f, InitBlocked(f))
          /\ watch \in [{b \in (DOMAIN f \ InitBlocked(f)) \X Lit : b[2] \in Blockable(f, b[1])}
                          -> DOMAIN f \ InitBlocked(f)]
    BY <2>1, Zenon
  <2>3. m_clauses = f
    BY <2>2 DEF Started
  <2>4. ModelsRight({}, InitBlocked(f))
    BY <2>1, <2>3, BlockedDropped
  <2>5. InitBlocked(f) \in SUBSET DOMAIN f
    BY DEF InitBlocked
  <2>6. \A b \in DOMAIN watch : b[1] \in Idx /\ b[2] \in Blockable(m_clauses, b[1])
    BY <2>2, <2>3 DEF Idx
  <2>7. WatchesRight
    BY <1>1, <2>6 DEF WatchesRight
  <2>8. manager \in {"dyn", "pure", "blocked"}
    BY <2>1
  <2> QED
    BY <2>2, <2>4, <2>5, <2>7, <2>8, StartedInv
<1> QED
  BY <1>2, <1>3

(* Every step of the three managers keeps it. *)
LEMMA CnfNextInv ==
  ASSUME CnfInv, [BlockedNext]_blVars
  PROVE  CnfInv'
<1>1. CASE manager # "blocked" /\ CnfNext /\ UNCHANGED blockedVars
  <2>1. watch' = watch /\ todo' = todo /\ gone' = gone
    BY <1>1 DEF blockedVars
  <2>2. ASSUME NEW lits \in SUBSET {l \in Lit : Undef(l)}, PreUpdate(lits)
        PROVE  CnfInv'
    BY <1>1, <2>1, <2>2, PreUpdateStep
  <2> QED
    BY <1>1, <2>2, InprocessingStep, PostUpdateStep DEF CnfNext
<1>2. ASSUME NEW lits \in SUBSET {l \in Lit : Undef(l)}, BlockedPreUpdate(lits)
      PROVE  CnfInv'
  <2>1. PreUpdate(lits) /\ watch' = watch /\ todo' = todo /\ gone' = {}
    BY <1>2 DEF BlockedPreUpdate
  <2> QED
    BY <2>1, PreUpdateStep
<1>3. CASE NextSat
  BY <1>3, NextSatStep
<1>4. ASSUME NEW b \in todo, Examine(b) PROVE CnfInv'
  <2>1. Running /\ todo' = todo \ {b}
    BY <1>4 DEF Examine
  <2>2. CASE WatchStays(b) \/ WatchMoves(b)
    BY <2>1, <2>2, WatchStep
  <2>3. CASE Block(b)
    BY <2>1, <2>3, BlockStep
  <2> QED
    BY <1>4, <2>2, <2>3 DEF Examine
<1>5. CASE RemoveBlocked
  BY <1>5, RemoveBlockedStep
<1>6. CASE manager = "blocked" /\ PostUpdate /\ UNCHANGED blockedVars
  BY <1>6, PostUpdateStep
<1>7. CASE UNCHANGED blVars
  <2>1. UNCHANGED cnfVars /\ watch' = watch /\ todo' = todo /\ gone' = gone
    BY <1>7 DEF blVars, blockedVars
  <2>2. WatchesRight'
    BY <2>1 DEF CnfInv, WatchesRight, Idx, cnfVars
  <2> QED
    BY <2>1, <2>2, QuietStep
<1> QED
  BY <1>1, <1>2, <1>3, <1>4, <1>5, <1>6, <1>7 DEF BlockedNext

(***************************************************************************)
(* At any time every state that postUpdate can still go back to is right:  *)
(* its lists, counters, watched literals and satisfied clauses, and the    *)
(* models of the clauses left.                                             *)
(***************************************************************************)
THEOREM CnfInvariant == BlockedSpec => []CnfInv
<1>1. BlockedInit => CnfInv
  BY CnfInitInv
<1>2. CnfInv /\ [BlockedNext]_blVars => CnfInv'
  BY CnfNextInv
<1> QED
  BY <1>1, <1>2, PTL DEF BlockedSpec

(* Every variable of the residual formula keeps its type; in particular a  *)
(* counter of false literals never leaves 0 .. NbVar.                      *)
THEOREM CnfTypeCorrect == BlockedSpec => []CnfTypeOK
<1>1. CnfInv => CnfTypeOK
  <2> SUFFICES ASSUME CnfInv PROVE CnfTypeOK
    OBVIOUS
  <2>1. PICK hist \in [1 .. (Len(levels) + 1) -> Snapshots] : History(hist)
    BY DEF CnfInv, PastRight
  <2>2. ClausesRight /\ ControlRight /\ levels \in Seq(Levels)
    BY DEF CnfInv, ControlRight
  <2>3. PresentTyped
    BY <2>1, <2>2, PresentFacts
  <2>4. \A c \in Idx : m_clauses[c] \in Seq(Lit)
    BY <2>2, ClauseFacts
  <2> QED
    BY <2>2, <2>3, <2>4 DEF CnfTypeOK, PresentTyped, ControlRight
<1> QED
  BY <1>1, CnfInvariant, PTL

(* debugFunction never fails: between two calls the list of a literal      *)
(* without a value holds exactly its clauses that are not satisfied.       *)
THEOREM CnfOccExact == BlockedSpec => []OccExact
<1>1. CnfInv => OccExact
  BY DEF CnfInv, OccExact, ListsRight, Unlisted, Present, Free, Undef
<1> QED
  BY <1>1, CnfInvariant, PTL

(* The literal kept first in a clause left never has a value, so the       *)
(* component of the clause can be read off it.                             *)
THEOREM CnfWatchUndef == BlockedSpec => []WatchUndef
<1>1. CnfInv => WatchUndef
  <2> SUFFICES ASSUME CnfInv PROVE WatchUndef
    OBVIOUS
  <2>1. PICK hist \in [1 .. (Len(levels) + 1) -> Snapshots] : History(hist)
    BY DEF CnfInv, PastRight
  <2>2. CountsRight(Present)
    BY <2>1, PresentFacts DEF CnfInv, ControlRight
  <2> QED
    BY <2>2 DEF CountsRight, WatchUndef, Present, Free, Undef
<1> QED
  BY <1>1, CnfInvariant, PTL

(* getSize is the number of literals without a value of every clause left. *)
THEOREM CnfSizeExact == BlockedSpec => []SizeExact
<1>1. CnfInv => SizeExact
  <2> SUFFICES ASSUME CnfInv, NEW c \in Idx \ isSat
               PROVE  Len(m_clauses[c]) - nbUnsat[c]
                        = Cardinality({l \in LitsOf(c) : Undef(l)})
    BY DEF SizeExact
  <2>1. PICK hist \in [1 .. (Len(levels) + 1) -> Snapshots] : History(hist)
    BY DEF CnfInv, PastRight
  <2>2. CountsRight(Present) /\ ClausesRight
    BY <2>1, PresentFacts DEF CnfInv, ControlRight
  <2> DEFINE U == {l \in LitsOf(c) : Undef(l)}
             F == {l \in LitsOf(c) : -l \in m_currentValue}
  <2>3. nbUnsat[c] = Cardinality(F) /\ LitsOf(c) \cap m_currentValue = {}
    BY <2>2 DEF CountsRight, Present
  <2>4. IsFiniteSet(LitsOf(c)) /\ Cardinality(LitsOf(c)) = Len(m_clauses[c])
    BY <2>2, ClauseFacts
  <2>5. U \cup F = LitsOf(c) /\ U \cap F = {}
    BY <2>3 DEF Undef
  <2> HIDE DEF U, F
  <2>6. IsFiniteSet(U) /\ IsFiniteSet(F)
    BY <2>4, <2>5, FS_Subset
  <2>7. Cardinality(LitsOf(c)) = Cardinality(U) + Cardinality(F) - Cardinality({})
    BY <2>5, <2>6, FS_Union
  <2>8. Cardinality({}) = 0 /\ Cardinality(U) \in Nat /\ Cardinality(F) \in Nat
    BY <2>6, FS_EmptySet, FS_CardinalityType
  <2>9. Len(m_clauses[c]) - nbUnsat[c] = Cardinality(U)
    BY <2>3, <2>4, <2>7, <2>8
  <2> QED
    BY <2>9 DEF U
<1> QED
  BY <1>1, CnfInvariant, PTL

(* The clauses left stand for the formula, whatever pure literals and      *)
(* blocked clauses took away: they have its models, as seen on the         *)
(* variables that are counted.                                             *)
THEOREM CnfResidualExact == BlockedSpec => []ResidualExact
<1>1. CnfInv => ResidualExact
  <2> SUFFICES ASSUME CnfInv
               PROVE  /\ {c \in Idx : LitsOf(c) \cap m_currentValue # {}} \subseteq isSat
                      /\ {OnCounted(A) : A \in Models(Idx, OnCounted(m_currentValue))}
                           = {OnCounted(A) : A \in Models(Idx \ isSat, m_currentValue)}
    BY DEF ResidualExact
  <2>1. PICK hist \in [1 .. (Len(levels) + 1) -> Snapshots] : History(hist)
    BY DEF CnfInv, PastRight
  <2>2. PresentTyped /\ CountsRight(Present) /\ ModelsRight(m_currentValue, isSat)
    BY <2>1, PresentFacts DEF CnfInv, ControlRight
  <2>3. {c \in Idx : LitsOf(c) \cap m_currentValue # {}} \subseteq isSat
    BY <2>2 DEF CountsRight, Present
  <2>4. ASSUME NEW A \in Models(Idx, OnCounted(m_currentValue))
        PROVE  \E B \in Models(Idx \ isSat, m_currentValue) : OnCounted(B) = OnCounted(A)
    <3> DEFINE B == Impose(A, m_currentValue)
    <3>1. B \in Models(Idx \ isSat, m_currentValue)
      BY <2>2 DEF ModelsRight
    <3>2. A \in Assignments /\ OnCounted(m_currentValue) \subseteq A /\ A \subseteq Lit
          /\ \A l \in Lit : l \in A <=> -l \notin A
      BY ModelFacts, AssignmentFacts
    <3>3. \A l \in m_currentValue : l \in Lit /\ -l \in Lit /\ VarOf(-l) = VarOf(l)
                                    /\ -(-l) = l
      BY <2>2, LitFacts DEF PresentTyped
    <3>4. \A l \in Lit : VarOf(l) \in Counted /\ l \in m_currentValue => l \in A
      BY <3>2 DEF OnCounted
    <3>5. \A l \in A : VarOf(l) \in Counted => -l \notin m_currentValue
      <4> SUFFICES ASSUME NEW l \in A, VarOf(l) \in Counted, -l \in m_currentValue
                   PROVE  FALSE
        OBVIOUS
      <4>1. l \in Lit /\ -l \in Lit /\ VarOf(-l) = VarOf(l)
        BY <3>2, LitFacts
      <4>2. -l \in A
        BY <3>4, <4>1
      <4> QED
        BY <3>2, <4>1, <4>2
    <3>6. OnCounted(B) = OnCounted(A)
      BY <3>3, <3>4, <3>5 DEF OnCounted, Impose
    <3> QED
      BY <3>1, <3>6
  <2>5. ASSUME NEW B \in Models(Idx \ isSat, m_currentValue)
        PROVE  \E A \in Models(Idx, OnCounted(m_currentValue)) : OnCounted(A) = OnCounted(B)
    BY <2>2 DEF ModelsRight
  <2>6. {OnCounted(A) : A \in Models(Idx, OnCounted(m_currentValue))}
          = {OnCounted(A) : A \in Models(Idx \ isSat, m_currentValue)}
    <3> DEFINE X == Models(Idx, OnCounted(m_currentValue))
               Y == Models(Idx \ isSat, m_currentValue)
    <3>1. \A A \in X : \E B \in Y : OnCounted(B) = OnCounted(A)
      BY <2>4
    <3>2. \A B \in Y : \E A \in X : OnCounted(A) = OnCounted(B)
      BY <2>5
    <3> HIDE DEF X, Y
    <3>3. {OnCounted(A) : A \in X} = {OnCounted(A) : A \in Y}
      BY <3>1, <3>2
    <3> QED
      BY <3>3 DEF X, Y
  <2> QED
    BY <2>3, <2>6
<1> QED
  BY <1>1, CnfInvariant, PTL
=============================================================================
