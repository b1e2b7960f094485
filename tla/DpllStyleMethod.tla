--------------------------- MODULE DpllStyleMethod ---------------------------
(***************************************************************************)
(* The search that counts models: src/src/methods/DpllStyleMethod.hpp with *)
(* the counting operations of CountingOperation.hpp, the two branching     *)
(* heuristics and the cache keys of BucketManagerCnf.hpp.                  *)
(*                                                                         *)
(* The recursion compute_ / computeDecisionNode is a stack of frames: an   *)
(* "and" frame is a call of compute_ that goes through its components, an  *)
(* "or" frame a call of computeDecisionNode that goes through its branches.*)
(* The solver is external: its answers are those any sound and propagating *)
(* solver may give.  The formula manager is its assignment (CnfManagerDyn  *)
(* shows the rest follows from it), the component search is its result     *)
(* (ConnectedComponent), the cache is a partial function that may forget   *)
(* (CacheManager).                                                         *)
(***************************************************************************)
EXTENDS Integers, FiniteSets, Sequences, SequencesExt, FiniteSetsExt

CONSTANTS
  NbVar,        \* the variables are 1 .. NbVar
  Problems,     \* the input formulas, each with the options it is counted with
  Weight,       \* m_weightLit
  LimitClause,  \* m_limitClause of BranchingHeuristicLargeArity
  Assumptions   \* the assumptions count is called with after run

Var == 1 .. NbVar
Lit == Var \cup {-v : v \in Var}
VarOf(l) == IF l > 0 THEN l ELSE -l

ASSUME MethodAssumption ==
  /\ NbVar \in Nat
  /\ Problems \subseteq [clauses : SUBSET SUBSET Lit,
                         decision : SUBSET Var,
                         mode : {"all", "not-touched", "not-binary"},
                         largeArity : BOOLEAN,
                         maxCalls : Nat \ {0}]
  /\ Weight \in [Lit -> Nat]
  /\ Assumptions \subseteq SUBSET Lit

VARIABLES
  pc,          \* where the innermost call stands
  problem,     \* what is counted, and the options; never changes
  setOfVar,    \* the argument of the call of compute_ at hand
  assumption,  \* the assumptions of the solver
  value,       \* m_currentValue of the formula manager: the true literals
  stack,       \* the calls that have not returned, the innermost first
  cache,       \* the keys in the cache with their values
  result,      \* what compute returns
  call         \* the call of run or count: its number and its arguments

dpllVars ==
  << pc, problem, setOfVar, assumption, value, stack, cache, result, call >>

formula == problem.clauses        \* the clauses
Decision == problem.decision      \* m_isDecisionVariable: what is counted
Mode == problem.mode              \* m_modeStore
MaxCalls == problem.maxCalls      \* bound: calls of run and count

------------------------------------------------------------------------------
(* The residual formula under the assignment of the manager. *)

Undef(l) == l \notin value /\ -l \notin value
Satisfied(c) == c \cap value # {}
Residual(c) == {l \in c : Undef(l)}
VarsOf(c) == {VarOf(l) : l \in c}

(* The clauses left of a component. *)
ClausesIn(comp) ==
  {c \in formula : ~Satisfied(c) /\ VarsOf(Residual(c)) \cap comp # {}}

FreeVars == {v \in setOfVar : Undef(v) /\ ClausesIn({v}) = {}}
ActiveVars == {v \in setOfVar : Undef(v) /\ ClausesIn({v}) # {}}

(* The connected components, or a single one when splitting is off. *)
Crossed(s) ==
  \E c \in ClausesIn(s) : ~(VarsOf(Residual(c)) \subseteq s)
Components ==
  LET closed == {s \in SUBSET ActiveVars : ~Crossed(s)} IN
  {{w \in ActiveVars : \A s \in closed : v \in s <=> w \in s} : v \in ActiveVars}
TrivialComponents == {ActiveVars} \ {{}}

------------------------------------------------------------------------------
(* Reference definitions, by enumeration of assignments. *)

Assignments(V) == {{IF t[v] THEN v ELSE -v : v \in V} : t \in [V -> BOOLEAN]}
Models(C, V) == {A \in Assignments(V) : \A c \in C : c \cap A # {}}
ModelsOf == [p \in Problems |-> Models(p.clauses, Var)]
ProductOver(w(_), S) ==
  MapThenFoldSet(LAMBDA x, y : x * y, 1, w, LAMBDA T : CHOOSE x \in T : TRUE, S)
Product(S) == ProductOver(LAMBDA l : Weight[l], S)

(* The weighted count of the clauses C projected on the decisions in V. *)
CountOf(C, V) ==
  MapThenSumSet(Product, {{l \in A : VarOf(l) \in Decision} : A \in Models(C, V)})

(* The count of a component under the current assignment. *)
ComponentCount(comp) == CountOf({Residual(c) : c \in ClausesIn(comp)}, comp)

------------------------------------------------------------------------------
(* The solver: external. *)

Holds(S, A) == \A x \in 1 .. Len(S) : S[x] \in A
ModelsUnder(S) == {A \in ModelsOf[problem] : Holds(S, A)}
Solve == ModelsUnder(assumption) # {}

(* Literals every model under the assumptions agrees on. *)
Backbone == LET M == ModelsUnder(assumption) IN {l \in Lit : \A A \in M : l \in A}

(***************************************************************************)
(* What whichAreUnits may return: implied literals of setOfVar, with all   *)
(* the assumptions and all that unit propagation derives from them.        *)
(***************************************************************************)
UnitSets ==
  {U \in SUBSET {l \in Backbone : VarOf(l) \in setOfVar /\ Undef(l)} :
     /\ ToSet(assumption) \subseteq value \cup U
     /\ \A c \in formula : \/ c \cap (value \cup U) # {}
                           \/ Cardinality({l \in Residual(c) : -l \notin U}) >= 2}

------------------------------------------------------------------------------
(* Cache keys: BucketManagerCnf::isKeptClause on the list it goes through. *)

NbUnsat(c) == Cardinality({l \in c : -l \in value})

(* getVecIdxClause(l, mode): the occurrence lists it reads. *)
ListOf(c) ==
  CASE Mode = "not-touched" -> Cardinality(c) > 2
    [] Mode = "all" -> TRUE
    [] OTHER -> Cardinality(c) = 2

(* Mutant of IsKeptClause: a touched clause counts from two false literals. *)
IsKeptClauseFromTwo(c) == Mode = "not-touched" /\ NbUnsat(c) > 1

IsKeptClause(c) ==
  CASE Mode = "not-touched" -> NbUnsat(c) > 0
    [] Mode = "not-binary" -> Cardinality(c) > 2
    [] OTHER -> TRUE

Key(comp) ==
  << comp, {Residual(c) : c \in {d \in ClausesIn(comp) :
                                   ListOf(d) /\ IsKeptClause(d)}} >>

------------------------------------------------------------------------------
(* The branching heuristics, selectLitSet. *)

(* Mutant of LargeArity: a projected problem gets the heuristic asked for. *)
LargeArityAlways == problem.largeArity

(***************************************************************************)
(* Which one makeBranchingHeuristic builds: BranchingHeuristicLargeArity   *)
(* if it is asked for and every variable is counted, else ...Classic.      *)
(***************************************************************************)
LargeArity == problem.largeArity /\ Decision = Var

LargeClauses(comp) ==
  {c \in ClausesIn(comp) : LargeArity /\ Cardinality(Residual(c)) >= LimitClause}

(* One literal of a decision variable: the scores are left open. *)
SelectOne(comp) == {<< l >> : l \in {m \in Lit : VarOf(m) \in comp \cap Decision}}

(* The literals of a largest clause, in any order. *)
SelectLarge(comp) ==
  UNION {SetToSeqs(Residual(c)) :
           c \in {d \in LargeClauses(comp) :
                    \A e \in LargeClauses(comp) : Cardinality(e) <= Cardinality(d)}}

SelectLitSet(comp) ==
  IF LargeClauses(comp) # {} THEN SelectLarge(comp) ELSE SelectOne(comp)

------------------------------------------------------------------------------
DpllInit ==
  /\ pc = "compute"
  /\ problem \in Problems
  /\ setOfVar = Var
  /\ assumption = << >>
  /\ value = {}
  /\ stack = << >>
  /\ cache = << >>
  /\ result = 0
  /\ call = [nb |-> 1, assums |-> {}, vars |-> Var]

(* The arguments ProjMCMethod gives count: literals closed under unit        *)
(* propagation that some model extends, and variables no clause left links   *)
(* to others.                                                                *)
Closed(A, S) ==
  /\ \E M \in ModelsOf[problem] : A \subseteq M
  /\ S \cap VarsOf(A) = {}
  /\ \A c \in formula :
       LET left == {l \in c : VarOf(l) \notin VarsOf(A)} IN
       \/ c \cap A # {}
       \/ /\ Cardinality(left) >= 2
          /\ VarsOf(left) \subseteq S \/ VarsOf(left) \cap S = {}

(* count, up to compute_: initAssumption and preUpdate of the assumptions    *)
(* that are not in setOfVar, here all of them.  The cache stays.             *)
Count ==
  /\ pc = "done"
  /\ call.nb < MaxCalls
  /\ \E A \in Assumptions, S \in SUBSET Var \ {{}} :
       /\ Closed(A, S)
       /\ assumption' = SetToSeq(A)
       /\ value' = A
       /\ setOfVar' = S
       /\ call' = [nb |-> call.nb + 1, assums |-> A, vars |-> S]
  /\ pc' = "compute"
  /\ UNCHANGED << problem, stack, cache, result >>

(* computeWeightUnitFree, after expelNoDecisionLit and expelNoDecisionVar. *)
WeightUnitFree(units, free) ==
  Product({l \in units : VarOf(l) \in Decision})
    * ProductOver(LAMBDA v : Weight[v] + Weight[-v], free \cap Decision)

(* The value d of compute_ goes to the branch of computeDecisionNode that   *)
(* called it, or is the result, and count undoes its preUpdate.             *)
Return(d, rest, left) ==
  \/ /\ rest = << >>
     /\ result' = d
     /\ value' = left \ call.assums
     /\ pc' = "done"
     /\ stack' = rest
  \/ /\ rest # << >>
     /\ stack' = [rest EXCEPT ![1].acc = @ + d, ![1].i = @ + 1]
     /\ value' = left
     /\ pc' = "or"
     /\ UNCHANGED result

(* compute_ without a model: manageBottom. *)
ComputeBottom ==
  /\ pc = "compute"
  /\ ~Solve
  /\ Return(0, stack, value)
  /\ UNCHANGED << problem, setOfVar, assumption, cache, call >>

AndFrame(units) ==
  [kind |-> "and", units |-> units, free |-> {}, todo |-> {}, acc |-> 1,
   cur |-> {}, key |-> << >>, lits |-> << >>, i |-> 0, base |-> 0]

(* compute_ with a model: preUpdate with the units. *)
ComputeUnits ==
  /\ pc = "compute"
  /\ Solve
  /\ \E units \in UnitSets :
       /\ value' = value \cup units
       /\ stack' = << AndFrame(units) >> \o stack
  /\ pc' = "split"
  /\ UNCHANGED << problem, setOfVar, assumption, cache, result, call >>

(* computeConnectedComponent: splitting is switched off and on again by     *)
(* counters, so either answer is possible at every call.                    *)
ComputeComponents ==
  /\ pc = "split"
  /\ \E comps \in {Components, TrivialComponents} :
       stack' = [stack EXCEPT ![1].todo = comps, ![1].free = FreeVars]
  /\ pc' = "and"
  /\ UNCHANGED << problem, setOfVar, assumption, value, cache, result, call >>

(* The next component. *)
NextComp == CHOOSE comp \in stack[1].todo :
              \A other \in stack[1].todo : Min(comp) <= Min(other)

(* The value x of the component comp is known: tab[cp] = x. *)
Known(comp, x, rest) ==
  [rest EXCEPT ![1].todo = @ \ {comp}, ![1].acc = @ * x]

CacheHit ==
  /\ pc = "and"
  /\ stack[1].todo # {}
  /\ Key(NextComp) \in DOMAIN cache
  /\ stack' = Known(NextComp, cache[Key(NextComp)], stack)
  /\ UNCHANGED << pc, problem, setOfVar, assumption, value, cache, result, call >>

(* addInCache, unless the cache is off for a component of this size. *)
AddInCache(key, x) ==
  \/ cache' = [k \in DOMAIN cache \cup {key} |-> IF k = key THEN x ELSE cache[k]]
  \/ UNCHANGED cache

(* Not in the cache, or lost: computeDecisionNode, with nothing to decide. *)
DecideNothing ==
  /\ pc = "and"
  /\ stack[1].todo # {}
  /\ SelectLitSet(NextComp) = {}
  /\ stack' = Known(NextComp, 1, stack)
  /\ AddInCache(Key(NextComp), 1)
  /\ UNCHANGED << pc, problem, setOfVar, assumption, value, result, call >>

(* ... or with a list of literals to branch on. *)
Decide ==
  /\ pc = "and"
  /\ stack[1].todo # {}
  /\ \E lits \in SelectLitSet(NextComp) :
       stack' = << [kind |-> "or", units |-> {}, free |-> {}, todo |-> {},
                    acc |-> 0, cur |-> NextComp, key |-> Key(NextComp),
                    lits |-> lits, i |-> 0, base |-> Len(assumption)] >> \o stack
  /\ pc' = "or"
  /\ UNCHANGED << problem, setOfVar, assumption, value, cache, result, call >>

(* Mutant of PostUpdate: the units stay assigned in the manager. *)
PostUpdateNot(units) == value

(* m_specs->postUpdate(unitsLit). *)
PostUpdate(units) == value \ units

(* All components are counted: postUpdate, and compute_ returns. *)
AndReturn ==
  /\ pc = "and"
  /\ stack[1].todo = {}
  /\ Return(stack[1].acc * WeightUnitFree(stack[1].units, stack[1].free),
            Tail(stack), PostUpdate(stack[1].units))
  /\ UNCHANGED << problem, setOfVar, assumption, cache, call >>

------------------------------------------------------------------------------
(* Branch i of computeDecisionNode, counted from 0. *)

(* popAssumption and pushAssumption(~lits[i - 1]). *)
Negated(f) ==
  IF f.i = 0 THEN assumption
  ELSE Append(Front(assumption), -f.lits[f.i])

(* The test that ends the loop early. *)
NoMore(f) ==
  /\ f.i # 0
  /\ Len(f.lits) > 1
  /\ ModelsUnder(Negated(f)) = {}

(* Mutant of Pushed: the branch assumes nothing of its own. *)
PushedNot(f) == Negated(f)

(* pushAssumption(lits[i]), but for the last branch. *)
Pushed(f) ==
  IF f.i < Len(f.lits) THEN Append(Negated(f), f.lits[f.i + 1]) ELSE Negated(f)

Branch ==
  /\ pc = "or"
  /\ stack[1].i <= Len(stack[1].lits)
  /\ ~NoMore(stack[1])
  /\ assumption' = Pushed(stack[1])
  /\ setOfVar' = stack[1].cur
  /\ pc' = "compute"
  /\ UNCHANGED << problem, value, stack, cache, result, call >>

(* Mutant of Unwound: every assumption is popped, the callers' too. *)
UnwoundAll(f) == << >>

(* popAssumption(sizeAssumption() - sizeAssum). *)
Unwound(f) == SubSeq(assumption, 1, f.base)

(* manageDeterministOr: the sum goes to the component of the caller. *)
OrReturn ==
  /\ pc = "or"
  /\ stack[1].i > Len(stack[1].lits) \/ NoMore(stack[1])
  /\ assumption' = Unwound(stack[1])
  /\ stack' = Known(stack[1].cur, stack[1].acc, Tail(stack))
  /\ AddInCache(stack[1].key, stack[1].acc)
  /\ pc' = "and"
  /\ UNCHANGED << problem, setOfVar, value, result, call >>

(* No more calls. *)
Finished ==
  /\ pc = "done"
  /\ call.nb = MaxCalls
  /\ UNCHANGED dpllVars

DpllNext ==
  \/ Count
  \/ ComputeBottom
  \/ ComputeUnits
  \/ ComputeComponents
  \/ CacheHit
  \/ DecideNothing
  \/ Decide
  \/ AndReturn
  \/ Branch
  \/ OrReturn
  \/ Finished

DpllSpec == DpllInit /\ [][DpllNext]_dpllVars

------------------------------------------------------------------------------
(***************************************************************************)
(* Types, and the frames of computeDecisionNode: the branch is one of      *)
(* theirs and sizeAssum never exceeds the assumptions there are (the       *)
(* difference the code pops is unsigned).                                  *)
(***************************************************************************)
DpllTypeOK ==
  /\ pc \in {"compute", "split", "and", "or", "done"}
  /\ setOfVar \subseteq Var
  /\ assumption \in Seq(Lit)
  /\ value \subseteq Lit
  /\ result \in Nat
  /\ \A x \in DOMAIN stack :
       stack[x].kind = "or" => /\ stack[x].i \in 0 .. Len(stack[x].lits) + 1
                               /\ stack[x].base <= Len(assumption)

(***************************************************************************)
(* run returns the weighted number of assignments of the decision          *)
(* variables that extend to a model, and count the number for its          *)
(* variables under its assumptions, whatever earlier calls left in the     *)
(* cache.                                                                  *)
(***************************************************************************)
CountExact ==
  pc = "done" =>
    result = CountOf({{l \in c : VarOf(l) \in call.vars} :
                        c \in {d \in formula : /\ d \cap call.assums = {}
                                              /\ VarsOf(d) \cap call.vars # {}}},
                     call.vars)

(***************************************************************************)
(* Whatever the cache holds under the key of a component about to be       *)
(* counted is the count of that component: keys leave out clauses, and     *)
(* must still tell apart components with different counts.                 *)
(***************************************************************************)
HitExact ==
  pc = "and" => \A comp \in stack[1].todo :
                   Key(comp) \in DOMAIN cache =>
                     cache[Key(comp)] = ComponentCount(comp)

(***************************************************************************)
(* Solver and formula manager agree: compute_ never starts on assumptions   *)
(* that the manager holds the opposite of, while components are counted     *)
(* every assumption is true in the manager, and at the end both are back    *)
(* where the call found them.                                               *)
(***************************************************************************)
InStep ==
  /\ pc = "and" => ToSet(assumption) \subseteq value
  /\ pc = "compute" => \A l \in ToSet(assumption) \cup value : -l \notin value
  /\ pc = "done" => ToSet(assumption) = call.assums /\ value = {}

(***************************************************************************)
(* The recursion is well founded: the component a call of                  *)
(* computeDecisionNode works on is strictly smaller than that of the call  *)
(* around it, since its branch assigns at least the literal it assumes.    *)
(***************************************************************************)
Descends ==
  \A x, y \in DOMAIN stack :
    /\ x < y
    /\ stack[x].kind = "or"
    /\ stack[y].kind = "or"
    => stack[x].cur \subseteq stack[y].cur /\ stack[x].cur # stack[y].cur
==============================================================================
