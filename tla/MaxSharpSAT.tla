----------------------------- MODULE MaxSharpSAT -----------------------------
(***************************************************************************)
(* Which values of the max variables leave the most, or the fewest, models *)
(* to count: src/src/methods/MaxSharpSAT.hpp and MinSharpSAT.hpp.          *)
(*                                                                         *)
(* The search on the max variables is a recursion of its own, with its     *)
(* frames on "calls".  Where none of them is left it counts: countInd_ and *)
(* countIndDecisionNode are the recursion of DpllStyleMethod, which runs   *)
(* while its pc is not "done" and leaves the weighted count in "result".   *)
(* A valuation (an array of 0 and 1) is the set of the variables at 1;     *)
(* NULL, which the code never looks into, is the empty one.                *)
(***************************************************************************)
EXTENDS DpllStyleMethod

CONSTANT Tasks    \* what is searched for, and the options

ASSUME MaxAssumption ==
  \A t \in Tasks :
    /\ t.problem \in Problems
    /\ t.max \subseteq Var \ t.problem.decision
    /\ {t.min, t.digOnAnd, t.greedyInit} \subseteq BOOLEAN
    /\ t.threshold \in Int
    /\ t.min => ~t.digOnAnd /\ ~t.greedyInit   \* MinSharpSAT has no such option
    \* MinSharpSAT's countInd_ keeps the units that are not counted.
    /\ t.min => \A v \in Var \ (t.max \cup t.problem.decision) :
                   Weight[v] = 1 /\ Weight[-v] = 1

VARIABLES
  task,      \* never changes
  at,        \* where the search on the max variables stands
  calls,     \* its calls that have not returned, the innermost first
  greedy,    \* the literals assumed by the call of greedySearch at hand
  maxCache,  \* m_cacheMax
  scale,     \* m_scale: the count and the values of what is around the call
  underAnd,  \* m_isUnderAnd
  best,      \* m_maxCount: the best solution found so far
  stopped,   \* m_stopProcess
  answer     \* what compute returns

searchVars == << task, at, calls, greedy, maxCache, scale, underAnd, best, stopped, answer >>
maxVars == << dpllVars, searchVars >>

MaxVar == task.max                \* m_isMaxDecisionVariable
At(place) == pc = "done" /\ at = place

------------------------------------------------------------------------------
MaxInit ==
  /\ task \in Tasks
  /\ problem = task.problem
  /\ pc = "done"
  /\ setOfVar = Var
  /\ assumption = << >>
  /\ value = {}
  /\ stack = << >>
  /\ cache = << >>
  /\ result = 0
  /\ call = [nb |-> 1, assums |-> {}, vars |-> Var]
  /\ at = "start"
  /\ calls = << >>
  /\ greedy = {}
  /\ maxCache = << >>
  /\ scale = [count |-> 1, valuation |-> {}]
  /\ underAnd = FALSE
  /\ best = [count |-> 0, valuation |-> {}]
  /\ stopped = FALSE
  /\ answer = [count |-> 0, valuation |-> {}]

(* Mutant of Better: a branch of a conjunction is taken for a solution. *)
BetterAnywhere(count, under) == count > best.count

(* The test of updateBound. *)
Better(count, under) == ~under /\ count > best.count

(* updateBound(result, vars), with the count of what is around. *)
UpdateBound(count, valuation, vars, around, under) ==
  LET found == count * around IN
  \/ /\ Better(found, under)
     /\ best' = [count |-> found,
                 valuation |-> (scale.valuation \ vars) \cup (valuation \cap vars)]
     /\ stopped' = (stopped \/ (task.threshold >= 0 /\ found >= task.threshold))
  \/ /\ ~Better(found, under)
     /\ UNCHANGED << best, stopped >>

(* countInd_ is called on the variables V. *)
CountInd(V) == pc' = "compute" /\ setOfVar' = V
NoCount == UNCHANGED << pc, setOfVar >>

------------------------------------------------------------------------------
(* greedySearch: the values a model gives to the max variables of V, and    *)
(* the count they leave.                                                    *)

Greedy(V) ==
  /\ \E M \in ModelsUnder(assumption) :
       greedy' = {l \in M : VarOf(l) \in V \cap MaxVar}
  /\ assumption' = assumption \o SetToSeq(greedy')
  /\ value' = value \cup greedy'
  /\ CountInd(V \ MaxVar)

GreedyCount == result * Product(greedy)

(* Mutant of GreedyValuation: the sign is not taken off. *)
GreedyValuationSigned == greedy

GreedyValuation == greedy \cap Var

(* popAssumption(cpt) and postUpdate(unitsAssums). *)
EndGreedy ==
  /\ assumption' = SubSeq(assumption, 1, Len(assumption) - Cardinality(greedy))
  /\ value' = value \ greedy
  /\ greedy' = {}

------------------------------------------------------------------------------
(* compute: warmStart finds no model.  MinSharpSAT goes on all the same. *)
StartUnsat ==
  /\ At("start")
  /\ ~Solve /\ ~task.min
  /\ at' = "end"
  /\ NoCount
  /\ UNCHANGED << problem, assumption, value, stack, cache, result, call, task, calls,
                  greedy, maxCache, scale, underAnd, best, stopped, answer >>

StartGreedy ==
  /\ At("start")
  /\ Solve /\ task.greedyInit /\ ~task.min
  /\ Greedy(Var)
  /\ at' = "greedy init"
  /\ UNCHANGED << problem, stack, cache, result, call, task, calls, maxCache, scale,
                  underAnd, best, stopped, answer >>

(* The literals of weight zero are assumed false. *)
ZeroAssumed ==
  IF task.min THEN << >> ELSE SetToSeq({l \in Lit : Weight[-l] = 0})

Search(V) == at' = "search" /\ setOfVar' = V /\ UNCHANGED pc

Start ==
  /\ At("start")
  /\ task.min \/ (Solve /\ ~task.greedyInit)
  /\ assumption' = assumption \o ZeroAssumed
  /\ Search(Var)
  /\ UNCHANGED << problem, value, stack, cache, result, call, task, calls, greedy,
                  maxCache, scale, underAnd, best, stopped, answer >>

GreedyInitDone ==
  /\ At("greedy init")
  /\ UpdateBound(GreedyCount, GreedyValuation, Var, scale.count, underAnd)
  /\ assumption' = ZeroAssumed
  /\ value' = value \ greedy
  /\ greedy' = {}
  /\ Search(Var)
  /\ UNCHANGED << problem, stack, cache, result, call, task, calls, maxCache, scale,
                  underAnd, answer >>

------------------------------------------------------------------------------
(* searchMaxValuation and searchMinValuation return to the branch of the   *)
(* decision that called them, or to compute, which multiply the count by   *)
(* the weight of the units and the free variables.                         *)
SearchReturn(count, weight, valuation, rest) ==
  \/ /\ rest = << >>
     /\ answer' = [count |-> count * weight, valuation |-> valuation]
     /\ at' = "end"
     /\ calls' = rest
  \/ /\ rest # << >>
     /\ calls' = [rest EXCEPT ![1].res =
                    Append(@, [count |-> count * weight, valuation |-> valuation]),
                              ![1].none = (count = 0)]
     /\ at' = "or"
     /\ UNCHANGED answer

(* No model, or the search was stopped.  MinSharpSAT returns an array it    *)
(* does not initialize.                                                     *)
SearchBottom ==
  /\ At("search")
  /\ stopped \/ ~Solve
  /\ \E garbage \in IF task.min THEN SUBSET MaxVar ELSE {{}} :
       SearchReturn(0, 1, garbage, calls)
  /\ NoCount
  /\ UNCHANGED << problem, assumption, value, stack, cache, result, call, task, greedy,
                  maxCache, scale, underAnd, best, stopped >>

(* whichAreUnits, preUpdate. *)
SearchUnits ==
  /\ At("search")
  /\ ~stopped /\ Solve
  /\ \E units \in UnitSets :
       /\ value' = value \cup units
       /\ calls' = << [kind |-> "and", vars |-> setOfVar, units |-> units, free |-> {},
                       comps |-> << >>, cp |-> 1, count |-> 1, valuation |-> {}, around |-> 1,
                       fixInd |-> 1, wasUnderAnd |-> underAnd, andCount |-> << >>,
                       propagated |-> {}] >> \o calls
  /\ at' = "split"
  /\ NoCount
  /\ UNCHANGED << problem, assumption, stack, cache, result, call, task, greedy,
                  maxCache, scale, underAnd, best, stopped, answer >>

(* The components, by their least variables. *)
Ordered(comps) ==
  LET n == Cardinality(comps) IN
  CHOOSE s \in [1 .. n -> comps] : \A x, y \in 1 .. n : x < y => Min(s[x]) < Min(s[y])

(* A free max variable takes the value of the larger weight. *)
FreeLits == {IF Weight[v] < Weight[-v] THEN -v ELSE v : v \in FreeVars \cap MaxVar}

(***************************************************************************)
(* searchMaxValuation, from computeConnectedComponent on: what the free    *)
(* and the unit variables contribute, and m_scale with it.                 *)
(***************************************************************************)
SplitMax ==
  /\ At("split")
  /\ ~task.min
  /\ LET f == calls[1]
         fixed == FreeLits \cup {l \in f.units : VarOf(l) \in MaxVar}
         fixInd == Product({l \in f.units : VarOf(l) \in Decision})
                     * ProductOver(LAMBDA v : Weight[v] + Weight[-v],
                                   FreeVars \cap Decision)
         n == Cardinality(Components)
         dig == task.digOnAnd /\ n > 1
     IN /\ calls' = [calls EXCEPT ![1].free = FreeVars, ![1].comps = Ordered(Components),
                                  ![1].count = Product(fixed),
                                  ![1].valuation = fixed \cap Var,
                                  ![1].around = scale.count, ![1].fixInd = fixInd]
        /\ scale' = [count |-> scale.count * Product(fixed) * fixInd,
                     valuation |-> (scale.valuation \ VarsOf(fixed))
                                      \cup (fixed \cap Var)]
        /\ underAnd' = (underAnd \/ (~task.digOnAnd /\ n > 1))
        /\ at' = IF dig THEN "dig" ELSE "and"
  /\ NoCount
  /\ UNCHANGED << problem, assumption, value, stack, cache, result, call, task, greedy,
                  maxCache, best, stopped, answer >>

(* A greedy solution of each component but the first, to begin with. *)
Dig ==
  /\ At("dig")
  /\ Greedy(calls[1].comps[Len(calls[1].andCount) + 2])
  /\ at' = "dug"
  /\ UNCHANGED << problem, stack, cache, result, call, task, calls, maxCache, scale,
                  underAnd, best, stopped, answer >>

DigDone ==
  /\ At("dug")
  /\ calls' = [calls EXCEPT ![1].andCount = Append(@, GreedyCount)]
  /\ scale' = [count |-> scale.count * GreedyCount,
               valuation |-> scale.valuation \cup GreedyValuation]
  /\ EndGreedy
  /\ at' = IF Len(calls[1].andCount) + 2 = Len(calls[1].comps) THEN "and" ELSE "dig"
  /\ NoCount
  /\ UNCHANGED << problem, stack, cache, result, call, task, maxCache, underAnd, best,
                  stopped, answer >>

(***************************************************************************)
(* searchMinValuation: a max variable that is a unit without being assumed *)
(* makes the count 0, for its other value leaves no model.                 *)
(***************************************************************************)
SplitMin ==
  /\ At("split")
  /\ task.min
  /\ LET units == {l \in calls[1].units : /\ VarOf(l) \in MaxVar
                                          /\ l \notin ToSet(assumption)}
     IN \E l \in units \cup {0} :
          /\ l = 0 <=> units = {}
          /\ calls' = [calls EXCEPT ![1].free = FreeVars,
                                    ![1].comps = IF l = 0 THEN Ordered(Components)
                                                 ELSE << >>,
                                    ![1].count = IF l = 0 THEN 1 ELSE 0,
                                    ![1].propagated = {l} \ {0}]
  /\ at' = "and"
  /\ NoCount
  /\ UNCHANGED << problem, assumption, value, stack, cache, result, call, task, greedy,
                  maxCache, scale, underAnd, best, stopped, answer >>

------------------------------------------------------------------------------
(* The loop over the components. *)

Component(f) == f.comps[f.cp]
More(f) == f.cp <= Len(f.comps) /\ (task.min => f.count # 0)

(* m_scale.count without the greedy count of the component at hand. *)
Around(f) ==
  IF task.digOnAnd /\ f.cp > 1 THEN scale.count \div f.andCount[f.cp - 1]
  ELSE scale.count

(* The component has the value r. *)
WithComponent(f, r) ==
  [f EXCEPT !.cp = @ + 1, !.count = @ * r.count,
            !.valuation = @ \cup (r.valuation \cap Component(f))]
ScaleWith(f, r, around) ==
  IF task.digOnAnd /\ Len(f.comps) > 1
  THEN [count |-> around * r.count,
        valuation |-> (scale.valuation \ Component(f))
                         \cup (WithComponent(f, r).valuation \cap Component(f))]
  ELSE [scale EXCEPT !.count = around]

MaxHit ==
  /\ At("and")
  /\ More(calls[1])
  /\ LET f == calls[1]
         key == Key(Component(f))
     IN /\ key \in DOMAIN maxCache
        /\ calls' = [calls EXCEPT ![1] = WithComponent(f, maxCache[key])]
        /\ scale' = ScaleWith(f, maxCache[key], Around(f))
  /\ NoCount
  /\ UNCHANGED << problem, assumption, value, stack, cache, result, call, task, at,
                  greedy, maxCache, underAnd, best, stopped, answer >>

(* Not in the cache, or lost: searchMaxSharpSatDecision, or the one for Min. *)
OrFrame(comp, lit) ==
  [kind |-> "or", vars |-> comp, key |-> Key(comp), lit |-> lit, res |-> << >>,
   none |-> FALSE]

DecideMax ==
  /\ At("and")
  /\ More(calls[1])
  /\ LET f == calls[1] IN
     /\ \/ /\ ~stopped
           /\ \E l \in {l \in Lit : VarOf(l) \in Component(f) \cap MaxVar} :
                calls' = << OrFrame(Component(f), l) >> \o calls
           /\ at' = "or"
           /\ NoCount
        \/ /\ ~stopped
           /\ Component(f) \cap MaxVar = {}
           /\ CountInd(Component(f))
           /\ at' = "counted"
           /\ UNCHANGED calls
        \/ /\ stopped
           /\ calls' = << OrFrame(Component(f), 0) >> \o calls
           /\ at' = "decided"
           /\ NoCount
     /\ scale' = [scale EXCEPT !.count = Around(f)]
  /\ UNCHANGED << problem, assumption, value, stack, cache, result, call, task, greedy,
                  maxCache, underAnd, best, stopped, answer >>

AddInMaxCache(key, r) ==
  \/ maxCache' = [k \in DOMAIN maxCache \cup {key} |-> IF k = key THEN r ELSE maxCache[k]]
  \/ UNCHANGED maxCache

(* The decision on the component of the frame rest[1] returns r. *)
DecisionReturn(r, key, rest) ==
  /\ calls' = [rest EXCEPT ![1] = WithComponent(rest[1], r)]
  /\ scale' = ScaleWith(rest[1], r, scale.count)
  /\ AddInMaxCache(key, r)
  /\ at' = "and"

(* No max variable was left in the component. *)
Counted ==
  /\ At("counted")
  /\ DecisionReturn([count |-> result, valuation |-> {}], Key(Component(calls[1])), calls)
  /\ NoCount
  /\ UNCHANGED << problem, assumption, value, stack, cache, result, call, task, greedy,
                  underAnd, best, stopped, answer >>

(* The branches on a literal and on its negation; MinSharpSAT skips the    *)
(* second one when the first counts 0 without its weights.                 *)
LastBranch(f) ==
  \/ Len(f.res) = 2
  \/ task.min /\ Len(f.res) = 1 /\ f.none

MaxBranch ==
  /\ At("or")
  /\ ~LastBranch(calls[1])
  /\ assumption' = IF calls[1].res = << >> THEN Append(assumption, calls[1].lit)
                   ELSE Append(Front(assumption), -calls[1].lit)
  /\ Search(calls[1].vars)
  /\ UNCHANGED << problem, value, stack, cache, result, call, task, calls, greedy,
                  maxCache, scale, underAnd, best, stopped, answer >>

(* Mutant of Chosen: the first branch is kept. *)
ChosenFirst(f) == f.res[1]

(* The branch that is kept. *)
Chosen(f) ==
  LET r(x, l) == IF task.min THEN [f.res[x] EXCEPT !.valuation =
                                     (@ \ {VarOf(l)}) \cup ({l} \cap Var)]
                 ELSE f.res[x]
      first == r(1, f.lit)
      second == r(2, -f.lit)
  IN IF Len(f.res) = 1 THEN first
     ELSE IF task.min THEN (IF first.count < second.count THEN first ELSE second)
     ELSE IF first.count > second.count THEN first ELSE second

MaxOrReturn ==
  /\ At("or")
  /\ LastBranch(calls[1])
  /\ assumption' = Front(assumption)
  /\ DecisionReturn(Chosen(calls[1]), calls[1].key, Tail(calls))
  /\ NoCount
  /\ UNCHANGED << problem, value, stack, cache, result, call, task, greedy, underAnd,
                  best, stopped, answer >>

(* searchMaxSharpSatDecision returns at once when the search was stopped. *)
StoppedReturn ==
  /\ At("decided")
  /\ DecisionReturn([count |-> 0, valuation |-> {}], calls[1].key, Tail(calls))
  /\ NoCount
  /\ UNCHANGED << problem, assumption, value, stack, cache, result, call, task, greedy,
                  underAnd, best, stopped, answer >>

(* The end of searchMaxValuation.  compute leaves the weights out when the *)
(* search was stopped.                                                     *)
MaxAndReturn ==
  /\ At("and")
  /\ ~More(calls[1]) /\ ~task.min
  /\ LET f == calls[1] IN
     /\ value' = PostUpdate(f.units)
     /\ underAnd' = f.wasUnderAnd
     /\ UpdateBound(f.count, f.valuation, f.vars, f.around * f.fixInd, f.wasUnderAnd)
     /\ scale' = [scale EXCEPT !.count = f.around]
     /\ SearchReturn(f.count, IF stopped' /\ Len(calls) = 1 THEN 1 ELSE f.fixInd,
                     f.valuation, Tail(calls))
  /\ NoCount
  /\ UNCHANGED << problem, assumption, stack, cache, result, call, task, greedy, maxCache >>

(* The end of searchMinValuation: the assigned variables have their values, *)
(* but for the one propagated, which has the other.                         *)
MinAndReturn ==
  /\ At("and")
  /\ ~More(calls[1]) /\ task.min
  /\ LET f == calls[1]
         known == {v \in MaxVar : ~Undef(v)}
         valuation == (f.valuation \ known) \cup (value \cap known)
         flipped == VarsOf(f.propagated)
     IN /\ value' = PostUpdate(f.units)
        /\ SearchReturn(f.count, WeightUnitFree(f.units, f.free),
                        (valuation \ flipped) \cup (flipped \ f.propagated), Tail(calls))
  /\ NoCount
  /\ UNCHANGED << problem, assumption, stack, cache, result, call, task, greedy, maxCache,
                  scale, underAnd, best, stopped >>

(* compute pops the literals of weight zero. *)
End ==
  /\ At("end")
  /\ at' = "over"
  /\ assumption' = << >>
  /\ NoCount
  /\ UNCHANGED << problem, value, stack, cache, result, call, task, calls, greedy,
                  maxCache, scale, underAnd, best, stopped, answer >>

Over == At("over") /\ UNCHANGED maxVars

------------------------------------------------------------------------------
(* countInd_ splits whenever it can: no ComputeComponents of its own. *)
IndComponents ==
  /\ pc = "split"
  /\ stack' = [stack EXCEPT ![1].todo = Components, ![1].free = FreeVars]
  /\ pc' = "and"
  /\ UNCHANGED << problem, setOfVar, assumption, value, cache, result, call >>

IndNext ==
  /\ \/ ComputeBottom \/ ComputeUnits \/ IndComponents \/ CacheHit \/ DecideNothing
     \/ Decide \/ AndReturn \/ Branch \/ OrReturn
  /\ UNCHANGED searchVars

MaxNext ==
  \/ IndNext
  \/ StartUnsat \/ StartGreedy \/ Start \/ GreedyInitDone
  \/ SearchBottom \/ SearchUnits \/ SplitMax \/ Dig \/ DigDone \/ SplitMin
  \/ MaxHit \/ DecideMax \/ Counted \/ MaxBranch \/ MaxOrReturn \/ StoppedReturn
  \/ MaxAndReturn \/ MinAndReturn \/ End \/ Over

MaxSpec == MaxInit /\ [][MaxNext]_maxVars

------------------------------------------------------------------------------
(* Reference: the count that values of the max variables leave, for every   *)
(* task.                                                                   *)
LitsFor(t, valuation) == {IF v \in valuation THEN v ELSE -v : v \in t.max}
CountLeft(t, valuation) ==
  LET models == {A \in ModelsOf[t.problem] : LitsFor(t, valuation) \subseteq A}
      weight == IF t.min THEN 1 ELSE Product(LitsFor(t, valuation))
  IN weight * MapThenSumSet(Product,
                {{l \in A : VarOf(l) \in t.problem.decision} : A \in models})
Counts == [t \in Tasks |-> [valuation \in SUBSET t.max |-> CountLeft(t, valuation)]]
CountFor(valuation) == Counts[task][valuation]
Optimum == IF task.min THEN Min(Range(Counts[task])) ELSE Max(Range(Counts[task]))

MaxTypeOK ==
  /\ task \in Tasks
  /\ at \in {"start", "greedy init", "search", "split", "dig", "dug", "and", "or",
             "counted", "decided", "end", "over"}
  /\ greedy \subseteq Lit
  /\ \A r \in {scale, best, answer} : r.count \in Nat /\ r.valuation \subseteq MaxVar
  /\ {underAnd, stopped} \subseteq BOOLEAN
  /\ \A k \in DOMAIN maxCache :
       maxCache[k].count \in Nat /\ maxCache[k].valuation \subseteq MaxVar

(***************************************************************************)
(* What run prints: the largest (smallest) count there is, and values of   *)
(* the max variables that leave it, unless the search was stopped; and the *)
(* solver and the formula manager are back where they were.                *)
(***************************************************************************)
MaxExact ==
  at = "over" =>
    /\ assumption = << >> /\ value = {} /\ calls = << >>
    /\ ~stopped => /\ answer.count = Optimum
                   /\ answer.count # 0 \/ task.min => CountFor(answer.valuation) = Optimum

(***************************************************************************)
(* The bound never exceeds what can be reached, it is at least the         *)
(* threshold once the search stops, and without greedy solutions of the    *)
(* components its valuation leaves exactly the count it claims, whenever   *)
(* the search is interrupted.                                              *)
(***************************************************************************)
BoundSound ==
  ~task.min =>
    /\ best.count <= Optimum
    /\ stopped => best.count >= task.threshold
    /\ best.count # 0 /\ ~task.digOnAnd => CountFor(best.valuation) = best.count
=============================================================================
