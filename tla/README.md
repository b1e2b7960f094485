# Verification of the D4 model counter

TLA+ modules for the core of D4 (`src/src/`): the search that counts models, compiles
or optimises, the SAT solver it asks, the residual formula it works on, and the
component cache. TLC checks them on small instances; TLAPS proves for every size that
the memory, the cache, the occurrence lists, the residual formula and the component
search are right, what the answers of the SAT solver can be relied on for, that the
search keeps solver and formula manager in step, and that its recursion is well founded.

D4 is one sequential process. Nothing runs concurrently and nothing is persisted, so
what is hard is state that several nested calls share: a stack discipline across
three objects (solver, formula manager, cache), arrays undone by restoring counters,
tables used again by the next call, memory that is handed out, given back and cut up
again, and a cache whose keys leave clauses out.

## The system

| part | state | operations | hard to test |
|---|---|---|---|
| bucket allocator (`caching/bucket/BucketAllocator`) | pages, position in the current one, free lists by size, counters | `getArray`, `releaseMemory` | splitting and page ends after long sequences, unsigned difference |
| component cache (`caching/Cache*`, `cleaning/`) | hash table, entries callers still hold, limit of cached variables, statistics | `searchInCache`, `addInCache`, `removeEntry`, `reduceCache` | cleaning in the middle of a nested search, collisions |
| cache keys (`caching/bucket/cnf/`) | scratch arrays kept between calls, recycled memory | `collectDistrib`, `computeNeededBytes`, `storeFormula` | what a key may leave out; bytes and bits at their limits; arrays not reset |
| occurrence lists (`formulaManager/cnf/DataOccurrence.hpp`) | one array per literal, two counters | removal loops, save, restore | restoring counters must restore a set |
| residual formula (`formulaManager/cnf/CnfManagerDyn*`) | values, lists, clause states, stacks of saved states; watches of blocked clauses | `preUpdate`, `inprocessing`, `postUpdate` | same state saved once per level, changed several times; watches that are not undone |
| component search (`CnfManager.cpp`) | union-find tables kept between calls | `computeConnectedComponent` | stale tables, path halving |
| search (`methods/DpllStyleMethod.hpp`) | recursion, assumptions of the solver | `run`, `count`, `compute_`, `computeDecisionNode` | all of the above together |
| branching heuristics | pool of literal lists | `selectLitSet` | which variables may be branched on |
| solver and wrappers (`solvers/`) | trail, watched clauses, assumptions, last model, all kept between calls | `solve`, `whichAreUnits`, `pushAssumption`, `popAssumption` | a trail or a model of another branch used again; the search loop must end |
| decision-DNNF (`methods/nnf/`, `DecisionDNNFOperation.hpp`) | nodes shared through the cache, stamps and values in the nodes | `manage*`, count, isSAT, print | a traversal that meets what another left |
| maximal and minimal #SAT (`methods/MaxSharpSAT.hpp`, `MinSharpSAT.hpp`) | a second cache, running bound, scale, values of the max variables | `searchMaxValuation`, `greedySearch`, `updateBound` | bound and values updated deep inside a recursion that may stop |
| preprocessing, parsers, partitioners, other methods | | | see *Not modelled* |

`compute_` asks the solver whether the current assumptions are consistent and which
literals are implied, tells the formula manager (`preUpdate`), splits what is left
into components, looks each up in the cache, counts the others by branching
(`computeDecisionNode` pushes assumptions and calls `compute_` again) and undoes
everything (`postUpdate`, `popAssumption`). The cache takes memory for every key from
the allocator and cleans itself when a page was used up.

## Modules

| module | models | state and actions |
|---|---|---|
| `BucketAllocator` | `BucketAllocator.{hpp,cpp}` | addresses are integers, blocks are records (base, size); `GetFromFreeSpace`, `SplitRest`, `GetFromPage`, `GetFromNewPage` are the cases of `getArray`. `live` is a history variable: the blocks handed out |
| `CacheManager` | `CacheManager.hpp`, both tables, the cleaning | extends the allocator; `searchInCache` in its steps (clean, remove, collect, look up), so a cleaning sees the entries of outer callers in `pending`; `memory` holds what was written at every address |
| `BacktrackableSet` | abstract | a set that shrinks, is saved, and comes back |
| `DataOccurrence` | `DataOccurrence.hpp` and how `CnfManagerDyn` saves and restores it | one action per loop iteration |
| `CnfManagerDyn` | `CnfManagerDyn.cpp`, `CnfManagerDynPure.cpp` | lists as sets (what `DataOccurrence` justifies); `PreUpdate`, `Inprocessing`, `PostUpdate` in LIFO order, with any set of literals the solver may report |
| `CnfManagerDynBlockedCl` | `CnfManagerDynBlockedCl.cpp` | extends it: inside `preUpdate`, one action per satisfied clause (`NextSat`) and per watch of it (`Examine`), in any order, then `RemoveBlocked` |
| `ResidualGraph` | the residual formula as the component search sees it | reference definition of components |
| `ConnectedComponent` | `CnfManager::computeConnectedComponent` | one action per iteration of the union-find; clauses in any order; several calls on the same tables |
| `DpllStyleMethod` | `DpllStyleMethod.hpp`, `CountingOperation.hpp`, the keys, the two heuristics | `problem` is the formula with the options it is counted with; the recursion as a stack of `and` / `or` frames; external solver; a cache that may forget any entry at any look-up |
| `DecisionDNNF` | `DecisionDNNFOperation.hpp`, `nnf/` | extends `DpllStyleMethod`: every action of the search with what it does to nodes, beside the counts; then queries (count, isSAT, print) in any order on nodes that keep the stamps of earlier ones |
| `MaxSharpSAT` | `MaxSharpSAT.hpp`, `MinSharpSAT.hpp` | extends `DpllStyleMethod`: a recursion of its own on the max variables (`calls`), which starts the counting recursion where none is left; greedy solutions, two caches, bound, threshold |
| `WrapperSolver` | `WrapperGlucose.cpp`, `WrapperMinisat.cpp`, `minisat/Solver.cpp` | watched clauses, trail with levels and reasons, conflict analysis (`Resolve`: one step per literal resolved on), restarts, deletion of learnt clauses; the caller is the recursion reduced to what it asks of the solver |
| `BucketKey` | `caching/bucket/cnf/` | `storeFormula` in its phases (sort, measure, store variables, distribution, formula) for four representations; memory is the set of bits that are 1 |
| `BucketAllocatorProofs`, `CacheManagerProofs`, `DataOccurrenceProofs`, `CnfManagerDynProofs`, `ConnectedComponentProofs`, `DpllStyleMethodProofs`, `WrapperSolverProofs` | | theorems |
| `WrapperSolverTrail` | | the operators and lemmas `WrapperSolverProofs` is built on: trail, watches, resolution, components |
| `MC_*` | | values of the constants, and `CountersExact`, which needs a sum over a set |

How they compose: `CacheManager` extends `BucketAllocator`. The layers above are
linked by contracts rather than by products of their state spaces. `DataOccurrence`
is shown to be a backtrackable set, and `CnfManagerDyn` uses sets. `CnfManagerDyn` is
shown to be determined by its assignment and by the clauses it dropped (`OccExact`,
`SizeExact`), and the clauses left to stand for the formula on the counted variables
(`ResidualExact`); `ResidualGraph` and `DpllStyleMethod` use the assignment. `ConnectedComponent` is
shown to return the components, and `DpllStyleMethod` uses them. `CacheManager` is
shown to return only what was stored for the key asked for, and `DpllStyleMethod`
uses a partial function; `BucketKey` is shown to give two components the same bytes
exactly when the clauses it stores are the same, and `DpllStyleMethod` uses those
clauses as the key. `WrapperSolver` is shown to answer right and to report only
implied units, at least those propagation finds (`AnswerRight`, `UnitsRight`):
that is what `Solve` and `UnitSets` of `DpllStyleMethod` are, as long as Glucose has not
forgotten a unit it reported before (the finding `forgets`). `DecisionDNNF` and
`MaxSharpSAT` are real compositions: they extend the search and run in step with it.

## Runs

Counts are distinct states.

| run | question | instance |
|---|---|---|
| `allocator` | Do callers ever share a byte or leave the pages; are the counters exact? | pages of 5 and 4 bytes, blocks up to 3, three places for pages that touch on either side; 89 000 |
| `cache` | Has every block one holder, do bytes stay intact, is every hit right, with cleaning at any time? | both hash tables; 4 keys, two of which share header, size and slot; 2 slots; 2 cleanings; 4.1 million |
| `occurrence_list` | Do two counters undo any nesting of removals; do the loops end; is the list a backtrackable set? | 3 binary clauses, 3 others, 3 levels; 110 000 |
| `formula` | Is the residual formula exact after any nesting of pre- and postUpdate? | 4 formulas over 5 variables, three of them counted; plain, with pure literals, with blocked clauses; 330 000 |
| `components` | Are the components exact for every residual formula, also in a second call on the same tables; does the call return? | 4 variables, 3 clauses, 2 calls; 670 000 |
| `count` | Is the weighted count exact for every order of decisions, units, splits and cache losses? Is every query on the compiled form answered right, do Skolem literals satisfy the formula? | 19 problems over 4 variables: all counted or projected on two; classic or large-arity branching; keys of touched or of all clauses; for some a second `count` under other assumptions with the cache of the first; nine are compiled, two of them with Skolemization, and answer two queries; 740 000 |
| `not_binary` | *violated*: see Findings | the same with the option not-binary |
| `solver` | Is every answer False right, every answer True as far as the outer calls were answered right and what they were told is still on the trail, and every unit implied, with trail, learnt clauses and model kept between calls; do the assertions of `pushAssumption` hold; does every call return? | both solvers; formulas over 4 variables with conflicts below the assumptions; one restart; 770 000 |
| `keys` | Are two keys equal exactly when what they stand for is? | four representations, two modes, two orders of the lists, two calls, memory that was used before; 40 000 |
| `key_overrun` | *violated*: see Findings | variables up to 8, no clause kept |
| `max_sharp` | Is the optimum found, with values that reach it; is the bound sound at every moment? | maximal and minimal, with and without greedy solutions, thresholds, cache losses; 180 000 |
| `forgets` | *violated*: see Findings | Glucose; one formula over 7 variables, two assumptions, one restart; `OnTheWay` keeps the behaviours on which outer calls do not restart, since the violation needs four calls |

Why the bounds are enough for the cases that matter: the allocator's pages are too
small for two of the largest blocks, so page ends, splits of a larger free block and
trimming of the last list all occur; three levels of an occurrence list suffice for a
list saved, shuffled, saved again and shuffled below the first save; the component
graphs are enumerated, not chosen; the formulas of the search split into two
components under some decisions, reach the same component by several paths, and
contain an unsatisfiable one; those of the solver need a conflict that is analysed
under assumptions and a component solved while another is left open; those of
MaxSharpSAT split while max variables are left, which is where greedy solutions,
the scale and the second cache meet. Every bound is a named constant in a guard (`MaxPages`,
`MaxRequest`, `MaxStat`, `MaxReduce`, `MaxLevel`, `MaxCalls`, `MaxByte`, `MaxRestart`, `MaxQueries`, the `maxCalls` of a
problem). Deadlock is not checked
where the bound on calls makes the model stop (`CacheManager`, `ConnectedComponent`).

### Fairness

Three liveness properties are checked, `LoopsEnd` (removal loops), `Returns`
(component search) and `SolveReturns` (the search of the solver). They assume weak fairness of the steps of the loop: sequential
code that entered a loop goes on with it. No fairness is assumed of callers.
`Descends` says the recursion of the search is well founded; it is an invariant on the
stack and needs no fairness.

### Findings

- `not_binary`: with `--cache-store-strategy not-binary`, `getVecIdxClause` returns
  the list of binary clauses (`CnfManager.hpp:178`) and `isKeptClause` then drops all
  of them (`BucketManagerCnf.hpp:119`): keys hold no clause, components over the same
  variables are confused, and TLC shows a wrong count. The default, `not-touched`, and
  `all` are exact.
- `key_overrun`: for a component whose last variable is a multiple of 8, stored as bits,
  `computeNeededBytes` reserves `1 + ((back - 1) >> 3)` bytes and `storeVariables` writes
  at byte `back >> 3` (`BucketManagerCnfCl.hpp:313` and `:394`). When clauses follow, the
  bit lands in their first byte and `storeClauses` clears it; when none does, it is set
  outside the block. `KeyExact` shows that the keys that stay inside still tell
  components apart.
- `forgets`: `solve(setOfVar)` decides on the variables of one component only, and the
  component was cut off from the others by units that an outer call got. If such a unit
  followed from a learnt clause, it is on the trail below the next assumption and stays
  there until Glucose restarts. Glucose restarts to level 0 (`Solver.cc:1293-1298`) and
  may then delete the clause (`reduceDB`, line 1311; binary clauses and those of small
  lbd stay): the unit is not propagated again, and the answer is True under assumptions
  that no model has, against the comment at `WrapperGlucose.cpp:76`. It needs four calls
  and a deletion between two of them. Minisat restarts to the assumptions
  (`Solver.cpp:882`) and deletes only above them (line 888). This is why `AnswerRight` has
  the condition `CallersRight` on an answer True.

Read off `MaxSharpSAT.hpp:548` and stated by no run: with `digOnAnd` the values kept with
the best count may mix those of an earlier branch with greedy ones, so that `interrupt`
may print values without that count. `BoundSound` says so only without `digOnAnd`; the
final answer (`MaxExact`) is checked with it.

## Proofs

`BucketAllocatorProofs` proves, for every page size, every bound and every place
`operator new` may choose, that `AllocInv` is inductive, hence `AllocTypeOK`,
`NoOverlap`, `InsidePages`, `LastListUsed` and `Conservation`. The assumption is
`PageAssumption`: a request is never larger than an additional page, which `getArray`
does not check. Beyond the properties themselves `AllocInv` needs `PagesApart` (pages
are disjoint, the current one is among them) and `HandedOut`: once a block was handed
out `m_posInData` never returns to 0, since `releaseMemory` only takes a block back
into the page if something stays before it. Without that, a block that ends exactly where the
current page begins could be mistaken for its last one.

`DataOccurrenceProofs` proves, for any number of clauses and levels, that `OccInv` is
inductive: the types, the array is a permutation, `LoopInv` (the clauses not satisfied
are in the range, and the part a loop has been through holds no satisfied one),
`Nested` (the ranges of the saved levels are nested around the current one) and
`SavedExact`. The key lemma is `RemovalKeepsSaved`: a swap inside the current range is
a swap inside every saved range, so no saved set changes. From it follow `ListExact`,
`SavedExact` and the refinement `OccBacktracks`: `OccSpec => BacktrackableSet!SetSpec`
under the mapping content = the range of the array, stack = the ranges the saved
counters delimit *now*.

`CacheManagerProofs` proves `CacheInv` inductive for every set of keys, every hash,
both tables and every bound: the invariants of the run (`CacheTypeOK`,
`OneHolderPerBlock`, `BytesIntact`, `HitIsRight`, `LimitRespected`) for all sizes.
`CacheAssumption` says what the keys are: at least one variable, a size the allocator
can serve (`SzData`), a hash inside the table. `CacheInv` extends `AllocInv` by what
relates the three layers: the bytes at the block of an entry, of a pending caller and
of the look-up in progress are those of its key (`TableGood`, `PendingGood`,
`BucketGood`); two holders never name the same block and a block in use always has one
(`HoldersApart`, `NoneLost`). `GetArrayFresh` is the link: a block handed out shares no
byte with one in use, so `storeFormula` cannot disturb an entry. `CacheImplementsAllocator`
says that `CacheSpec => AllocSpec`, so the theorems above hold for the allocator as the
cache uses it.

`CnfManagerDynProofs` proves the residual formula right for every formula, every set of
counted variables, every depth and the three managers: `CnfTypeOK`, `OccExact`,
`WatchUndef`, `SizeExact` and `ResidualExact`. The assumption is what the constructor is
given: clauses of two or more literals with pairwise different variables
(`FormulaAssumption`). None of these is inductive, since `postUpdate` goes back to a
state of which the present one says nothing. So `CnfInv` speaks of all states `postUpdate`
can still reach: there is a history of snapshots, the present one first, each the one
before it with one saved level undone, and each of them is right. An action then has to
show that undoing the level it has just saved, or added to, leads to the same snapshot as before
(`PastWithin`), which is where saving a list or clause only once per level matters.
That the models on the counted variables are kept is three lemmas: assigning what
the solver reports (`ModelsPropagated`), a pure literal of a variable that is not counted
(`ModelsPure`), and dropping a blocked clause (`ModelsBlocked`: flip the blocking literal
in any assignment that falsifies the clause). Watches take no part in the invariant
beyond their type: a watch decides which clauses are examined, and a clause is dropped only if
it is blocked then.

`ConnectedComponentProofs` proves `CcInv` inductive for every residual formula, every
number of variables and clauses and every sequence of calls on the same tables, hence
`CcTypeOK` and `ComponentsExact`. The assumption `ClusterAssumption` is that there is a
variable: with an empty `setOfVar` neither loop runs. `CcInv` gives the nodes a function
to the root of their cluster. `Forest` says how the tables represent it: parents stay in
the cluster, sizes grow strictly towards the root, so that path halving never makes a
false root, and the size of a root is the number of nodes of its cluster, which is what
both the union by size and the size of the component returned rely on. `Sound` says that
only connected nodes share a cluster; `Visiting` and `Collecting` say how far the two
loops have come, whatever the tables held before the call. When the first loop ends the
clusters are closed under the clauses left, so they are the components.

`DpllStyleMethodProofs` proves `InStep` and `Descends` for every problem, every choice
of the heuristics and whatever the cache has kept or forgotten. The assumption is
`MethodAssumption`: what a problem is made of. Both speak of one moment, while what
makes them true is spread over the calls that have not returned, so `DpllInv` gives every
open call its level: the values without the units of the calls inside it (`Level`), and
its prefix of the assumptions (the `base` of its frame).

- A call of `computeDecisionNode` (`OrRight`): at its level its prefix of the assumptions
  is true, and both what it has assumed since and what it may still branch on have no
  value. So popping to `base` and removing the units leads back to the state it started
  from, and the next literal is never contradicted.
- A call of `compute_` (`AndRight`): the components left to do are non-empty, inside the
  variables it was given, without values at its level, and no clause left leads out of
  them (`Uncrossed`). This is what carries over from one component to the next: units
  found in one component never reach another.
- `OpenBranch`: a branch assumes a literal of its own component, which has a value once
  `compute_` has assigned the units. Hence every component found inside is a proper subset
  of the one branched on (`Inner`, which gives `Descends`).
- The level outside all calls, and the assumptions below the first decision, are those
  `count` was given, which gives the last part of `InStep`.

`PushAnd`, `PushOr`, `PopAnd`, `PopOr`, `ChangeTop` and `NewBranch` say how levels move
when a call is entered, returns or goes on; `UnitsFacts`, `ComponentFacts` and
`SelectFacts` say what the solver, the component search and the heuristics hand over.
`CompilerSearches` (`DnnfSpec => DpllSpec`) carries all of it to the compiler, whose
actions add nodes to those of the search; `SearchInStep` and `SearchDescends` are stated
for it.

`WrapperSolverProofs` proves `SolverInv` inductive for every formula, every sequence of
assumptions and components, any restarts and any deletion of learnt clauses. The
assumption, `SolverAssumption`, only says what the constants are. From it follow
`SolverTypes` (both solvers), `SolverAnswers` (every answer False of both, every answer
of Glucose), and for Glucose `SolverUnits` and `SolverPushes`. TLC checked the invariant on
the instance of the run `solver` before it was proved.

- `SoundInv`, for both solvers: the trail is in levels (`Shape`), every literal on it that
  was not decided follows from its reason and earlier literals, and the reason follows from
  the formula (`Reasoned`), the levels up to the assumptions are those of the assumptions
  (`Assumed`), clauses of `db` follow from the formula (`DbRight`), and a conflict is a
  clause that is false and was not before the last level (`ConflRight`). Resolving on
  the last literal of the level keeps a clause that follows and is false; the one learnt
  once a single literal of the level is left may be attached and asserts that literal
  (`LearntClauseRight`). This gives the answers False.
- `CompleteInv`, for Glucose: what makes an answer True right although only some variables
  were decided.
  `WatchRight`: a clause one of whose watches is false, and was propagated, has a true
  literal of no higher level, so nothing propagated is unit or empty. The bound on the
  level makes it survive going back, which leaves the watches as they are.
  `FramesRight`: the open calls of `compute_` are nested, and the variables of each are
  cut off from the rest by its assumptions and the units of the calls outside. So the
  values decided on the component, put into any model of what cut it off, give a model
  again (`Recombined`, used for `TrueRight`).
  `ModelRight`: while `activeModel` holds, everything on the trail is in the last model and
  that model satisfies the clauses attached, which is why propagation inside `pushAssumption`
  finds no conflict.

Trying to prove an answer True without a condition failed at `Restart` followed by a
deletion, and TLC turned the failed step into the behaviour of `forgets`.

For Minisat the answers True, `UnitsRight` and `PushSafe` stay with TLC. It answers True
without a search while the last model fits (`QuickExit`), that model is put together from
several searches, each of which writes over the variables it was asked about, and a
conflict at level 0 is not remembered, after which the watches say nothing. What is
right then rests on every outer answer having been right, which `CompleteInv` does not
say, since with Glucose it need not hold.

Only model-checked:

- liveness (`LoopsEnd`, `Returns`, `SolveReturns`);
- `CountersExact`, `DpllTypeOK`, `CountExact`, `HitExact`, `QueryExact`, `SkolemExact`,
  `MaxExact`, `BoundSound`: each depends on a sum or a product over a set (already
  `result \in Nat` does), which needs induction over data;
- `KeyTypeOK` and `KeyExact`: the sorting of a key is a fold over a sequence of any
  length, and what a fold returns needs induction over data too;
- of the solver, what is said above of Minisat;
- `MaxTypeOK`, whose counts are products as well.

## Not modelled

- PaToH, FlowCutter, BiPe: third-party code. Of the SAT solvers, scores, phases, the
  memory of clauses and the proof output; when to restart or delete clauses is left open.
- Scoring, phases, partial orders, partitioning: they order choices that the models
  leave free.
- Parsing, options, printing, demos: input and output. `makeWrapperSolver` falls through
  from Minisat to Glucose, so Glucose always runs; both are modelled.
- `ProjMCMethod`: its formula manager is built from the problem without selectors
  (line 119), so no component holds one and the decomposition never runs; what is left
  is `DpllStyleMethod::count` per component, the action `Count` of the search.
- `QbfCounter`: `getLowestLevel` (line 297) starts at -1 and only takes smaller values,
  so `compute_` returns at line 332 and the rest never runs. `ExistRandomExist` is
  unfinished and ends in `exit(0)`; only it calls `computeConnectedComponentTargeted`.
  `CountingGlobalCache` is the counting search with a stub for the remote cache. `Erosion`
  is a loop of fresh counts.
- Of the keys: the widths of the header fields (a key of 2^21 bytes), and the index
  representation with a mode other than `all`, which stops at the assertion of
  `getCurrentClausesNotBin`.
- Of the decision-DNNF: freeing pages, reading queries, the 28 bits of a node's stamp.
  Literals of variables that are not counted must have weight 1 (`DnnfAssumption`).
- Of MaxSharpSAT: a signal in the middle of `updateBound`. `compute` asserts a valuation
  (line 888) that is missing when the greedy start reaches the threshold; the model goes
  on as a build without assertions does.
- `ListLit` (the pool of literal lists), the circuit manager, preprocessing.

## Plan

Done: allocator, cache and keys, occurrence lists, residual formula with pure literals
and blocked clauses, component search, solver and wrappers, counting, compilation with
queries, maximal and minimal #SAT; the proofs of allocator, cache, occurrence lists,
residual formula, component search, of the solver, and of the discipline of the counting
search.

Left, in this order:

1. Proofs: the counterpart of `CompleteInv` for the copy of Minisat.
2. `ListLit`, whose page end files a tail that is too short
   (`BranchingHeuristic.cpp:76`).
3. The circuit manager over `CnfManagerDyn`.
