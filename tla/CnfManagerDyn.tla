---------------------------- MODULE CnfManagerDyn ----------------------------
(***************************************************************************)
(* The residual formula kept during the search: src/src/formulaManager/    *)
(* cnf/CnfManager.cpp (constructor, queries) and CnfManagerDyn.cpp, with   *)
(* the pure literals of CnfManagerDynPure.cpp when it is the manager.      *)
(*                                                                         *)
(* preUpdate and postUpdate are called in a LIFO way with the literals the *)
(* solver found implied at a node of the search.  An occurrence list is    *)
(* the set of its clauses here; that the two counters saved for it bring   *)
(* the set back is what DataOccurrence shows.  A literal is the number of  *)
(* its variable, negative when it is negated.                              *)
(***************************************************************************)
EXTENDS Integers, FiniteSets, Sequences, SequencesExt

CONSTANTS
  NbVar,         \* the variables are 1 .. NbVar
  Formulas,      \* the input formulas: sequences of clauses, lists of literals
  Managers,      \* the managers used: "dyn", or "pure" for CnfManagerDynPure
  Decision       \* m_isDecisionVariable: the variables that are counted

Var == 1 .. NbVar
Lit == Var \cup {-v : v \in Var}
VarOf(l) == IF l > 0 THEN l ELSE -l

ASSUME FormulaAssumption ==
  /\ NbVar \in Nat
  /\ Decision \subseteq Var
  /\ Managers \subseteq {"dyn", "pure"}
  /\ \A f \in Formulas : f \in Seq(Seq(Lit))
  /\ \A f \in Formulas : \A c \in DOMAIN f :
        /\ Len(f[c]) >= 2
        /\ \A i, j \in DOMAIN f[c] : i # j => VarOf(f[c][i]) # VarOf(f[c][j])

VARIABLES
  manager,         \* the manager in use; never changes
  pc,              \* "idle" between two calls, "inprocessing" in preUpdate
  m_clauses,       \* the clauses, their literals in the order they are kept
  m_currentValue,  \* the literals that are true
  m_occurrence,    \* the clauses in the list of each literal
  isSat,           \* the clauses with m_infoClauses[c].isSat
  nbUnsat,         \* m_infoClauses[c].nbUnsat
  levels           \* m_stackPos*, m_savedState*: one record a level, last first

cnfVars == << manager, pc, m_clauses, m_currentValue, m_occurrence, isSat,
              nbUnsat, levels >>

Idx == DOMAIN m_clauses
LitsOf(c) == ToSet(m_clauses[c])
Undef(l) == l \notin m_currentValue /\ -l \notin m_currentValue

(***************************************************************************)
(* CnfManagerDynPure::getPureLiterals on the input formula f.  The literal *)
(* is made true in the clauses only: its variable keeps no value.          *)
(***************************************************************************)
InitPure(f) ==
  LET Occurs(l) == \E c \in DOMAIN f : l \in ToSet(f[c]) IN
  {l \in Lit : VarOf(l) \notin Decision /\ Occurs(l) /\ ~Occurs(-l)}

(* The constructors: occurrence lists, without the clauses sat. *)
Started(f, sat) ==
  /\ m_clauses = f
  /\ m_currentValue = {}
  /\ m_occurrence = [l \in Lit |-> {c \in DOMAIN f \ sat : l \in ToSet(f[c])}]
  /\ isSat = sat
  /\ nbUnsat = [c \in DOMAIN f |-> 0]
  /\ levels = << >>
  /\ pc = "idle"

(* affectInitPureLit. *)
InitSat(f) ==
  {c \in DOMAIN f : manager = "pure" /\ ToSet(f[c]) \cap InitPure(f) # {}}

CnfInit ==
  /\ manager \in Managers
  /\ \E f \in Formulas : Started(f, InitSat(f))

------------------------------------------------------------------------------
(* propagateTrue(lits), which ends with removeSatisfiedClauses. *)

(* The clauses it satisfies, m_indexSatClauses. *)
NewlySat(lits) == (UNION {m_occurrence[l] : l \in lits}) \ isSat

(* Mutant of Touched: only the lists of the true literals are visited. *)
TouchedTrueOnly(lits) == lits

(* The lists it visits: of the literals, and of those of these clauses. *)
Touched(lits) == lits \cup (UNION {LitsOf(c) : c \in NewlySat(lits)})

(* The lists once the satisfied clauses are gone. *)
Cleaned(lits) ==
  [l \in Lit |->
     IF l \in lits THEN {}
     ELSE IF l \in Touched(lits) THEN m_occurrence[l] \ (isSat \cup NewlySat(lits))
     ELSE m_occurrence[l]]

(* A list is saved the first time a level touches it, m_markedLitStack. *)
SaveOccs(lits, saved) ==
  [l \in DOMAIN saved \cup Touched(lits) |->
     IF l \in DOMAIN saved THEN saved[l] ELSE m_occurrence[l]]

(* Mutant of SaveClauses: a clause saved at this level is saved again. *)
SaveClausesTwice(C, saved) ==
  [c \in DOMAIN saved \cup C |->
     [isSat |-> IF c \in C THEN c \in isSat ELSE saved[c].isSat,
      nbUnsat |-> IF c \in C THEN nbUnsat[c] ELSE saved[c].nbUnsat]]

(* So is the information of a clause, m_markedClauseIdx. *)
SaveClauses(C, saved) ==
  [c \in DOMAIN saved \cup C |->
     IF c \in DOMAIN saved THEN saved[c]
     ELSE [isSat |-> c \in isSat, nbUnsat |-> nbUnsat[c]]]

------------------------------------------------------------------------------
(* propagateFalseInNotBin(lits), after propagateTrue(lits). *)

(* The clauses where it counts one more false literal. *)
Falsified(l, occ) == {c \in occ[-l] : Len(m_clauses[c]) > 2}

(* Mutant of WatchFrom: the first literal stays where it is. *)
WatchKept(c, undef) == m_clauses[c]

(* The first literal is swapped with the next one that has no value. *)
WatchFrom(c, undef) ==
  LET later == {i \in 2 .. Len(m_clauses[c]) : m_clauses[c][i] \in undef} IN
  IF later = {} THEN m_clauses[c]
  ELSE LET i == CHOOSE x \in later : \A y \in later : x <= y IN
       [m_clauses[c] EXCEPT ![1] = m_clauses[c][i], ![i] = m_clauses[c][1]]

PropagateFalseInNotBin(lits, occ, sat, saved) ==
  LET undef == {l \in Lit : Undef(l)} \ (lits \cup {-l : l \in lits})
      changed == UNION {Falsified(l, occ) : l \in lits}
  IN
  /\ nbUnsat' = [c \in Idx |->
        nbUnsat[c] + Cardinality({l \in lits : c \in Falsified(l, occ)})]
  /\ m_clauses' = [c \in Idx |->
        IF c \notin sat /\ \E l \in lits : c \in Falsified(l, occ)
                                           /\ m_clauses[c][1] = -l
        THEN WatchFrom(c, undef) ELSE m_clauses[c]]
  /\ levels' = << [saved EXCEPT !.clauses = SaveClauses(changed, @)] >> \o levels

------------------------------------------------------------------------------
(* Reference definitions, by enumeration of assignments. *)

Assignments == {{IF t[v] THEN v ELSE -v : v \in Var} : t \in [Var -> BOOLEAN]}
Models(C, lits) ==
  {A \in Assignments : lits \subseteq A /\ \A c \in C : LitsOf(c) \cap A # {}}

(* The variables that are counted: all of them with the plain manager. *)
Counted == IF manager = "dyn" THEN Var ELSE Decision
OnCounted(lits) == {l \in lits : VarOf(l) \in Counted}

(***************************************************************************)
(* What the solver returns at a node: literals without a value, those of   *)
(* variables not counted implied by the others, without a conflict and     *)
(* closed under unit propagation, so every clause left has two literals    *)
(* without a value.  Below the root there is at least the decision.        *)
(***************************************************************************)
Implied(lits) ==
  /\ lits = {} => levels = << >>
  /\ \A l \in lits : Undef(l) /\ -l \notin lits
  /\ \A c \in Idx \ isSat :
        \/ LitsOf(c) \cap lits # {}
        \/ Cardinality({l \in LitsOf(c) : Undef(l) /\ -l \notin lits}) >= 2
  /\ manager # "dyn" =>
        LET decided == Models(Idx, OnCounted(m_currentValue \cup lits)) IN
        decided # {} /\ \A A \in decided : lits \subseteq A

PreUpdate(lits) ==
  /\ pc = "idle"
  /\ Implied(lits)
  /\ m_currentValue' = m_currentValue \cup lits
  /\ m_occurrence' = Cleaned(lits)
  /\ isSat' = isSat \cup NewlySat(lits)
  /\ PropagateFalseInNotBin(lits, m_occurrence', isSat',
       [lits |-> lits,
        occs |-> SaveOccs(lits, << >>),
        clauses |-> SaveClauses(NewlySat(lits), << >>)])
  /\ pc' = IF manager = "dyn" THEN "idle" ELSE "inprocessing"
  /\ UNCHANGED manager

(* The pure literals one round of CnfManagerDynPure::inprocessing finds. *)
PureDetected ==
  {-l : l \in {l \in DOMAIN levels[1].occs :
                 /\ VarOf(l) \notin Decision
                 /\ Undef(l)
                 /\ m_occurrence[l] = {}
                 /\ m_occurrence[-l] # {}}}

(* A round: the literals join the caller's list and propagateTrue is run. *)
Inprocessing ==
  /\ manager = "pure"
  /\ pc = "inprocessing"
  /\ m_currentValue' = m_currentValue \cup PureDetected
  /\ m_occurrence' = Cleaned(PureDetected)
  /\ isSat' = isSat \cup NewlySat(PureDetected)
  /\ levels' = [levels EXCEPT ![1] =
        [lits |-> @.lits \cup PureDetected,
         occs |-> SaveOccs(PureDetected, @.occs),
         clauses |-> SaveClauses(NewlySat(PureDetected), @.clauses)]]
  /\ pc' = IF PureDetected = {} THEN "idle" ELSE "inprocessing"
  /\ UNCHANGED << manager, m_clauses, nbUnsat >>

(* Mutant of RestoredUnsat: one is taken off for every literal of the      *)
(* level, in binary clauses too.                                           *)
UnsatDecremented(c, last) ==
  nbUnsat[c] - Cardinality({l \in last.lits : -l \in LitsOf(c)})

(* The number of false literals of a clause that was saved. *)
RestoredUnsat(c, last) ==
  IF c \in DOMAIN last.clauses THEN last.clauses[c].nbUnsat ELSE nbUnsat[c]

(* postUpdate with the literals of the last preUpdate. *)
PostUpdate ==
  /\ pc = "idle"
  /\ levels # << >>
  /\ LET last == levels[1] IN
       /\ m_occurrence' = [l \in Lit |-> IF l \in DOMAIN last.occs
                                         THEN last.occs[l] ELSE m_occurrence[l]]
       /\ isSat' = {c \in Idx : IF c \in DOMAIN last.clauses
                                THEN last.clauses[c].isSat ELSE c \in isSat}
       /\ nbUnsat' = [c \in Idx |-> RestoredUnsat(c, last)]
       /\ m_currentValue' = m_currentValue \ last.lits
  /\ levels' = Tail(levels)
  /\ UNCHANGED << manager, pc, m_clauses >>

CnfNext ==
  \/ \E lits \in SUBSET {l \in Lit : Undef(l)} : PreUpdate(lits)
  \/ Inprocessing
  \/ PostUpdate

CnfSpec == CnfInit /\ [][CnfNext]_cnfVars

------------------------------------------------------------------------------
CnfTypeOK ==
  /\ pc \in {"idle", "inprocessing"}
  /\ \A c \in Idx : m_clauses[c] \in Seq(Lit)
  /\ m_currentValue \in SUBSET Lit
  /\ m_occurrence \in [Lit -> SUBSET Idx]
  /\ isSat \in SUBSET Idx
  /\ nbUnsat \in [Idx -> 0 .. NbVar]

(***************************************************************************)
(* The clauses left stand for the formula: those with a true literal are   *)
(* gone, and what pure literals or blocked clauses took away besides       *)
(* changes no model as seen on the variables that are counted.             *)
(***************************************************************************)
ResidualExact ==
  pc = "idle" =>
    /\ {c \in Idx : LitsOf(c) \cap m_currentValue # {}} \subseteq isSat
    /\ {OnCounted(A) : A \in Models(Idx, OnCounted(m_currentValue))}
          = {OnCounted(A) : A \in Models(Idx \ isSat, m_currentValue)}

(***************************************************************************)
(* The contract debugFunction asserts: the list of a literal without a     *)
(* value holds the clauses of that literal not satisfied, and no other.    *)
(***************************************************************************)
OccExact ==
  pc = "idle" => \A l \in Lit : Undef(l) =>
     m_occurrence[l] = {c \in Idx \ isSat : l \in LitsOf(c)}

(***************************************************************************)
(* getSize, on which heuristics and cache keys rely, is the number of      *)
(* literals without a value in every clause that is not satisfied.         *)
(***************************************************************************)
SizeExact ==
  \A c \in Idx \ isSat :
     Len(m_clauses[c]) - nbUnsat[c]
        = Cardinality({l \in LitsOf(c) : Undef(l)})

(***************************************************************************)
(* The first literal of a clause not satisfied has no value: the assertion *)
(* of isNotSatisfiedClauseAndInComponent, which decides with it alone      *)
(* which component a clause belongs to.                                    *)
(***************************************************************************)
WatchUndef == \A c \in Idx \ isSat : Undef(m_clauses[c][1])
==============================================================================
