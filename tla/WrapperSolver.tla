--------------------------- MODULE WrapperSolver ---------------------------
(***************************************************************************)
(* The SAT solver the search asks, between two calls of which it keeps its *)
(* trail: the wrappers src/src/solvers/cnf/WrapperGlucose.cpp and          *)
(* WrapperMinisat.cpp over the solver of src/src/solvers/cnf/minisat       *)
(* (Glucose is the same algorithm; where it differs is said, and modelled).*)
(*                                                                         *)
(* A clause is its literals and the two of them that are watched; which    *)
(* literals come first otherwise, scores, phases and the moments of        *)
(* restarts and clause deletion are left open.  The caller is the          *)
(* recursion of DpllStyleMethod.hpp reduced to what it asks of the solver. *)
(***************************************************************************)
EXTENDS Integers, FiniteSets, Sequences, SequencesExt, FiniteSetsExt

CONSTANTS
  NbVar,       \* the variables are 1 .. NbVar
  Inputs,      \* the clauses in order, which solver, bound: calls of solve
  Queries,     \* what warmStart draws: lists of literals
  CountCalls,  \* the arguments count may get after run
  MaxRestart   \* bound: restarts

Var == 1 .. NbVar
Lit == Var \cup {-v : v \in Var}
VarOf(l) == IF l > 0 THEN l ELSE -l
VarsOf(c) == {VarOf(l) : l \in c}

ASSUME SolverAssumption ==
  /\ NbVar \in Nat
  /\ Inputs \subseteq [clauses : Seq(SUBSET Lit), core : {"glucose", "minisat"},
                       maxCalls : Nat]
  /\ Queries \subseteq Seq(Lit)
  /\ CountCalls \subseteq [assums : Seq(Lit), vars : SUBSET Var]
  /\ MaxRestart \in Nat

VARIABLES
  input,       \* what initSolver gets; never changes
  read,        \* how many of its clauses are added
  ok,          \* FALSE once the clauses are known to have no model
  db,          \* the attached clauses: literals, the two watched, learnt or not
  trail,       \* the assigned literals in order: literal, level and reason
  lim,         \* trail_lim: where the levels start
  qhead,       \* how much of the trail is propagated
  visit,       \* the clauses propagate still has to look at for one literal
  confl,       \* the conflict propagate returns, or {}
  problemVariable, inTheHeap, heap,  \* the variables to decide on
  restarts,    \* restarts so far
  model,       \* the literals true in the last model
  activeModel, \* m_activeModel
  assumption,  \* m_assumption
  pending,     \* literals still to push before the next solve
  pc,          \* whose turn it is
  answer,      \* what solve returned
  frames,      \* the calls of compute_, the innermost first
  calls        \* calls of solve so far

loaded == << input, read >>
propagation == << qhead, visit, confl >>
order == << problemVariable, inTheHeap, heap >>
caller == << pending, pc, answer, frames, calls >>
solverVars == << loaded, ok, db, trail, lim, propagation, order, restarts,
                 model, activeModel, assumption, caller >>

Glucose == input.core = "glucose"
formula == ToSet(input.clauses)

------------------------------------------------------------------------------
(* Values and levels. *)

TrailLits == {trail[x].lit : x \in DOMAIN trail}
Undef(l) == l \notin TrailLits /\ -l \notin TrailLits
EntryOf(l) == trail[CHOOSE x \in DOMAIN trail : VarOf(trail[x].lit) = VarOf(l)]
LevelOf(l) == EntryOf(l).level
Level == Len(lim)

(* uncheckedEnqueue(l, why) on the trail t at a level. *)
Enqueue(t, l, why, level) == Append(t, [lit |-> l, why |-> why, level |-> level])

(* cancelUntil(level): what stays, and the variables put back in the heap:   *)
(* Minisat only takes back the ones that were undefined at the rebuild.      *)
KeptTrail(level) ==
  IF Level > level THEN SubSeq(trail, 1, lim[level + 1]) ELSE trail
KeptLim(level) == IF Level > level THEN SubSeq(lim, 1, level) ELSE lim
PutBack(level) ==
  heap \cup {v \in VarsOf(TrailLits \ {e.lit : e \in ToSet(KeptTrail(level))}) :
               Glucose \/ v \in inTheHeap}
CancelUntil(level) ==
  /\ trail' = KeptTrail(level)
  /\ lim' = KeptLim(level)
  /\ qhead' = IF Level > level THEN lim[level + 1] ELSE qhead
  /\ heap' = PutBack(level)

------------------------------------------------------------------------------
(* propagate: runs until it is quiet, before anything else goes on. *)

Quiet == visit = {} /\ (confl # {} \/ qhead = Len(trail))

(* The watchers of the next literal of the trail. *)
PropagateNext ==
  /\ visit = {}
  /\ confl = {}
  /\ qhead < Len(trail)
  /\ qhead' = qhead + 1
  /\ visit' = {c \in db : -trail[qhead + 1].lit \in c.watched}
  /\ UNCHANGED << loaded, ok, db, trail, lim, confl, restarts, order, model,
                  activeModel, assumption, caller >>

(* A literal to watch instead of the false one. *)
NewWatch(c) == {l \in c.lits \ c.watched : -l \notin TrailLits}

Rewatched(c, p, l) == [c EXCEPT !.watched = (@ \ {-p}) \cup {l}]

(* One watcher: left alone if a literal of the clause is true (the blocker   *)
(* or the other watch), else given another watch, else unit or a conflict.   *)
(* Glucose goes through the binary clauses first.                            *)
PropagateVisit ==
  /\ \E c \in visit :
       LET p == trail[qhead].lit
           first == CHOOSE l \in c.watched : l # -p
       IN
       /\ Glucose /\ Cardinality(c.lits) > 2 => \A d \in visit : Cardinality(d.lits) > 2
       /\ \/ /\ c.lits \cap TrailLits # {}
             /\ visit' = visit \ {c}
             /\ UNCHANGED << db, trail, qhead, confl >>
          \/ /\ first \notin TrailLits
             /\ \E l \in NewWatch(c) :
                  db' = (db \ {c}) \cup {Rewatched(c, p, l)}
             /\ visit' = visit \ {c}
             /\ UNCHANGED << trail, qhead, confl >>
          \/ /\ NewWatch(c) = {}
             /\ Undef(first)
             /\ trail' = Enqueue(trail, first, c.lits, Level)
             /\ visit' = visit \ {c}
             /\ UNCHANGED << db, qhead, confl >>
          \/ /\ NewWatch(c) = {}
             /\ -first \in TrailLits
             /\ confl' = c.lits
             /\ qhead' = IF Glucose /\ Cardinality(c.lits) = 2 THEN qhead
                         ELSE Len(trail)
             /\ visit' = {}
             /\ UNCHANGED << db, trail >>
  /\ UNCHANGED << loaded, ok, lim, restarts, order, model, activeModel,
                  assumption, caller >>

------------------------------------------------------------------------------
(* initSolver: addClause, at level 0. *)

(* attachClause watches the first two literals, the clause being sorted. *)
Attached(c) ==
  [lits |-> c, learnt |-> FALSE,
   watched |-> CHOOSE w \in kSubset(2, c) :
                 \A l \in w, m \in c \ w : VarOf(l) < VarOf(m)]

AddClause ==
  /\ pc = "add"
  /\ Quiet
  /\ confl = {}
  /\ read < Len(input.clauses)
  /\ read' = read + 1
  /\ LET c == input.clauses[read + 1]
         left == {l \in c : -l \notin TrailLits}
     IN
     \/ /\ ~ok \/ c \cap TrailLits # {} \/ \E l \in c : -l \in c
        /\ UNCHANGED << ok, db, trail >>
     \/ /\ ok /\ c \cap TrailLits = {} /\ \A l \in c : -l \notin c
        /\ ok' = (left # {})
        /\ db' = IF Cardinality(left) > 1 THEN db \cup {Attached(left)} ELSE db
        /\ trail' = IF Cardinality(left) = 1
                    THEN Enqueue(trail, CHOOSE l \in left : TRUE, {}, 0)
                    ELSE trail
  /\ UNCHANGED << input, lim, propagation, restarts, order, model, activeModel,
                  assumption, caller >>

(* The unit just added has a conflict. *)
AddConflict ==
  /\ pc = "add"
  /\ Quiet
  /\ confl # {}
  /\ ok' = FALSE
  /\ confl' = {}
  /\ qhead' = Len(trail)
  /\ UNCHANGED << loaded, db, trail, lim, visit, restarts, order, model,
                  activeModel, assumption, caller >>

------------------------------------------------------------------------------
(* search, one iteration of its loop. *)

(* solve returns b with the trail kept: an answer to solve(setOfVar) decides *)
(* whether the model is active, and whichAreUnits reads the trail.           *)
Answer(b, kept) ==
  /\ answer' = b
  /\ pc' = "answered"
  /\ activeModel' = IF frames = << >> THEN activeModel ELSE b
  /\ frames' = IF frames = << >> THEN frames
               ELSE [frames EXCEPT ![1].sat = b,
                                   ![1].units = {l \in {e.lit : e \in ToSet(kept)} :
                                                   VarOf(l) \in frames[1].vars}]
  /\ UNCHANGED << pending, calls >>

(* A conflict at level 0.  Only Glucose remembers it. *)
ConflictAtRoot ==
  /\ pc = "search"
  /\ Quiet
  /\ confl # {}
  /\ Level = 0
  /\ confl' = {}
  /\ qhead' = Len(trail)
  /\ ok' = (ok /\ ~Glucose)
  /\ Answer(FALSE, trail)
  /\ UNCHANGED << loaded, db, trail, lim, visit, restarts, order, model, assumption >>

(* The false literals of a clause that are not false at level 0. *)
Above(c) == {l \in c : LevelOf(l) > 0}

(* The literals of a clause that became false at the last level. *)
Current(c) == {l \in c : LevelOf(l) = Level}
UIP(c) == CHOOSE l \in c : LevelOf(l) = Level

(* Where the last false literal of a clause is on the trail. *)
LastFalse(c) ==
  CHOOSE x \in DOMAIN trail :
    /\ -trail[x].lit \in c
    /\ \A y \in DOMAIN trail : -trail[y].lit \in c => y <= x

(* The loop of analyze: resolve the conflict with the reason of its last     *)
(* false literal, until one literal of the last level is left.               *)
Resolve ==
  /\ pc = "search"
  /\ Quiet
  /\ confl # {}
  /\ Level > 0
  /\ Current(confl) # {UIP(confl)}
  /\ LET e == trail[LastFalse(confl)] IN
     confl' = (confl \ {-e.lit}) \cup (e.why \ {e.lit})
  /\ UNCHANGED << loaded, ok, db, trail, lim, qhead, visit, restarts, order, model,
                  activeModel, assumption, caller >>

(* litRedundant: the literals that those of the clause imply by reasons. *)
Supported(S, c, e) ==
  \/ e.level = 0
  \/ e.why # {} /\ \A l \in e.why \ {e.lit} : -l \in S \/ l \in c
Implied(c) ==
  UNION {S \in SUBSET TrailLits :
           \A e \in ToSet(trail) : e.lit \in S => Supported(S, c, e)}
Minimised(c) == {l \in c : l = UIP(c) \/ -l \notin Implied(c)}

(* minimisationWithBinaryResolution, on clauses that are good enough. *)
Shortened(c) ==
  {l \in c : l = UIP(c) \/ \A d \in db : d.lits # {UIP(c), -l}}

LearntClauses ==
  LET c == Minimised(Above(confl)) IN IF Glucose THEN {c, Shortened(c)} ELSE {c}

BacktrackLevel(c) == Max({LevelOf(l) : l \in c \ {UIP(c)}} \cup {0})

(* Mutant of Asserted: the learnt clause is not used at once. *)
AssertedNot(c, level) == KeptTrail(level)

(* The literal a learnt clause implies after the backtrack. *)
Asserted(c, level) ==
  Enqueue(KeptTrail(level), UIP(c), IF Cardinality(c) = 1 THEN {} ELSE c, level)

(* A conflict: learn a clause and go back to where it becomes unit. *)
Learn ==
  /\ pc = "search"
  /\ Quiet
  /\ confl # {}
  /\ Level > 0
  /\ Current(confl) = {UIP(confl)}
  /\ \E c \in LearntClauses :
       LET level == BacktrackLevel(c) IN
       /\ trail' = Asserted(c, level)
       /\ lim' = KeptLim(level)
       /\ qhead' = lim[level + 1]
       /\ heap' = PutBack(level)
       /\ IF Cardinality(c) = 1 THEN UNCHANGED db
          ELSE \E l \in c \ {UIP(c)} :
                 /\ LevelOf(l) = BacktrackLevel(c)
                 /\ db' = db \cup {[lits |-> c, learnt |-> TRUE,
                                    watched |-> {UIP(c), l}]}
  /\ confl' = {}
  /\ UNCHANGED << loaded, ok, visit, restarts, problemVariable, inTheHeap, model,
                  activeModel, assumption, caller >>

(* A restart: Minisat keeps the assumptions, Glucose starts from level 0. *)
Restart ==
  /\ pc = "search"
  /\ Quiet
  /\ confl = {}
  /\ restarts < MaxRestart
  /\ restarts' = restarts + 1
  /\ Glucose \/ Level > Len(assumption)
  /\ CancelUntil(IF Glucose THEN 0 ELSE Len(assumption))
  /\ UNCHANGED << loaded, ok, db, visit, confl, problemVariable, inTheHeap,
                  model, activeModel, assumption, caller >>

(* simplify, when it has something to do: clauses true at level 0 go. *)
Simplify ==
  /\ pc = "search"
  /\ Quiet
  /\ confl = {}
  /\ Level = 0
  /\ \E c \in db : c.lits \cap TrailLits # {}
  /\ db' = {c \in db : c.lits \cap TrailLits = {}}
  /\ heap' = {v \in problemVariable : Undef(v)}
  /\ UNCHANGED << loaded, ok, trail, lim, propagation, restarts, problemVariable,
                  inTheHeap, model, activeModel, assumption, caller >>

(* reduceDB: a learnt clause that is no reason goes. *)
ReduceDB ==
  /\ pc = "search"
  /\ Quiet
  /\ confl = {}
  /\ Glucose \/ Level >= Len(assumption)
  /\ \E c \in db :
       /\ c.learnt
       /\ Cardinality(c.lits) > 2
       /\ \A e \in ToSet(trail) : e.why # c.lits
       /\ db' = db \ {c}
  /\ UNCHANGED << loaded, ok, trail, lim, propagation, restarts, order, model,
                  activeModel, assumption, caller >>

(* Levels for the assumptions that are true already, up to the next one      *)
(* that is not.                                                              *)
NextAssumption ==
  Min({x \in Level + 1 .. Level + Len(assumption) + 1 :
         x > Len(assumption) \/ assumption[x] \notin TrailLits})
Levels(x) == lim \o [y \in 1 .. x - 1 - Level |-> Len(trail)]

Ready == pc = "search" /\ Quiet /\ confl = {}

Assume ==
  /\ Ready
  /\ NextAssumption <= Len(assumption)
  /\ LET p == assumption[NextAssumption] IN
     /\ Undef(p)
     /\ lim' = Append(Levels(NextAssumption), Len(trail))
     /\ trail' = Enqueue(trail, p, {}, NextAssumption)
  /\ UNCHANGED << loaded, ok, db, propagation, restarts, order, model,
                  activeModel, assumption, caller >>

(* analyzeFinal(~p): the variables that imply ~p, and the assumptions among  *)
(* them.                                                                     *)
Involved(p) ==
  {v \in Var :
     \A S \in SUBSET Var :
       /\ VarOf(p) \in S
       /\ \A e \in ToSet(trail) :
            VarOf(e.lit) \in S /\ e.level > 0 => VarsOf(Above(e.why)) \subseteq S
       => v \in S}
Blamed(p) ==
  {e \in ToSet(trail) : e.why = {} /\ e.level > 0 /\ VarOf(e.lit) \in Involved(p)}
FinalClause(p) ==
  LET last == CHOOSE e \in Blamed(p) : \A d \in Blamed(p) : d.level <= e.level
  IN [lits |-> {-p} \cup {-e.lit : e \in Blamed(p)}, learnt |-> TRUE,
      watched |-> {-p, -last.lit}]

(* An assumption is false.  Minisat learns why, in a clause; or, when no     *)
(* assumption is to blame, goes back to level 0.                             *)
AssumptionFails ==
  /\ Ready
  /\ NextAssumption <= Len(assumption)
  /\ LET p == assumption[NextAssumption] IN
     /\ -p \in TrailLits
     /\ IF Glucose \/ Blamed(p) # {}
        THEN /\ lim' = Levels(NextAssumption)
             /\ UNCHANGED << trail, qhead, heap >>
        ELSE CancelUntil(0)
     /\ db' = IF Glucose \/ Blamed(p) = {} THEN db ELSE db \cup {FinalClause(p)}
  /\ Answer(FALSE, trail)
  /\ UNCHANGED << loaded, ok, visit, confl, restarts, problemVariable, inTheHeap,
                  model, assumption >>

(* Mutant of Candidates: the test of the stamp is the wrong way round. *)
CandidatesUnstamped == {v \in heap : Undef(v) /\ v \notin inTheHeap}

Candidates == {v \in heap : Undef(v)}

(* pickBranchLit, which takes the variables it meets out of the heap. *)
Decide ==
  /\ Ready
  /\ NextAssumption > Len(assumption)
  /\ \E v \in Candidates : \E l \in {v, -v} :
       /\ trail' = Enqueue(trail, l, {}, Len(Levels(NextAssumption)) + 1)
       /\ heap' = Candidates \ {v}
  /\ lim' = Append(Levels(NextAssumption), Len(trail))
  /\ UNCHANGED << loaded, ok, db, propagation, restarts, problemVariable,
                  inTheHeap, model, activeModel, assumption, caller >>

(* The model: Minisat writes over the variables it was asked about, Glucose  *)
(* over all.                                                                 *)
Model ==
  IF Glucose THEN TrailLits
  ELSE {l \in TrailLits : VarOf(l) \in problemVariable}
         \cup {l \in model : VarOf(l) \notin problemVariable}

(* Mutant of KeptAfterModel: the decisions of the search stay. *)
KeptAfterModelAll == trail

(* The trail solve_ leaves: the levels of the assumptions. *)
KeptAfterModel == KeptTrail(Len(assumption))

(* Nothing left to decide: there is a model. *)
ModelFound ==
  /\ Ready
  /\ NextAssumption > Len(assumption)
  /\ Candidates = {}
  /\ model' = Model
  /\ lim' = KeptLim(Len(assumption)) \o [x \in 1 .. Len(assumption) - Level |-> Len(trail)]
  /\ trail' = KeptAfterModel
  /\ qhead' = Len(trail')
  /\ heap' = PutBack(Len(assumption))
  /\ Answer(TRUE, trail')
  /\ UNCHANGED << loaded, ok, db, visit, confl, restarts, problemVariable,
                  inTheHeap, assumption >>

------------------------------------------------------------------------------
(* The wrapper, and its caller. *)

(* The test at the top of solve(setOfVar), commented out for Glucose. *)
QuickExit == ~Glucose /\ activeModel /\ frames # << >>

(* solve(setOfVar) for the innermost compute_, or solve() for warmStart, up  *)
(* to the search: the heap is rebuilt, Glucose forgets the last model.       *)
Solve ==
  /\ pc = "ask"
  /\ Quiet
  /\ pending = << >>
  /\ calls' = calls + 1
  /\ IF QuickExit
     THEN UNCHANGED << order, model >>
     ELSE LET vars == IF frames = << >> THEN Var ELSE frames[1].vars
              open == {v \in vars : Undef(v)}
          IN /\ problemVariable' = IF frames = << >> THEN open ELSE vars
             /\ inTheHeap' = open
             /\ heap' = open
             /\ model' = IF Glucose THEN {} ELSE model
  /\ pc' = IF QuickExit \/ ~ok THEN "return" ELSE "search"
  /\ confl' = {}  \* as in PushAssumption
  /\ UNCHANGED << loaded, ok, db, trail, lim, qhead, visit, restarts, activeModel,
                  assumption, pending, answer, frames >>

(* The answer without a search. *)
SolveAtOnce ==
  /\ pc = "return"
  /\ Answer(QuickExit, trail)
  /\ UNCHANGED << loaded, ok, db, trail, lim, propagation, restarts, order, model,
                  assumption >>

(* Mutants of StillActive: the model need not have the literal, or the       *)
(* literal need not be open.                                                 *)
StillActiveAnyModel(l) == activeModel /\ Undef(l)
StillActiveAssigned(l) == activeModel /\ l \in model

(* Whether the last model has the literal pushed, which must be open. *)
StillActive(l) == activeModel /\ Undef(l) /\ l \in model

(* pushAssumption(l): a literal of the last model is propagated at once. *)
PushAssumption ==
  /\ pc = "ask"
  /\ Quiet
  /\ pending # << >>
  /\ LET l == Head(pending) IN
     /\ assumption' = Append(assumption, l)
     /\ activeModel' = StillActive(l)
     /\ lim' = IF StillActive(l) THEN Append(lim, Len(trail)) ELSE lim
     /\ trail' = IF StillActive(l) THEN Enqueue(trail, l, {}, Level + 1) ELSE trail
  /\ pending' = Tail(pending)
  /\ confl' = {}  \* of the last push, which only asserts that there is none
  /\ UNCHANGED << loaded, ok, db, qhead, visit, order, restarts, model, pc, answer,
                  frames, calls >>

(* popAssumption(count). *)
PopAssumption(count) ==
  /\ assumption' = SubSeq(assumption, 1, Len(assumption) - count)
  /\ CancelUntil(Len(assumption) - count)

(* setAssumption(assums), or restart and setAssumption, before solve. *)
SetAssumption(assums) ==
  /\ PopAssumption(Len(assumption))
  /\ pending' = assums
  /\ pc' = "ask"
  /\ UNCHANGED << loaded, ok, db, visit, confl, problemVariable, inTheHeap,
                  restarts, model, activeModel, answer, calls >>

(* All clauses are added: compute starts with the solve() of warmStart. *)
Loaded ==
  /\ pc = "add"
  /\ Quiet
  /\ confl = {}
  /\ read = Len(input.clauses)
  /\ SetAssumption(<< >>)
  /\ UNCHANGED frames

Frame(vars) == [vars |-> vars, units |-> {}, sat |-> FALSE]

(* warmStart goes on unless its first solve() answers False. *)
Warm == pc = "answered" /\ frames = << >> /\ (calls > 1 \/ answer)
WarmQuery ==
  /\ Warm
  /\ calls < input.maxCalls
  /\ \E q \in Queries : SetAssumption(q)
  /\ UNCHANGED frames
WarmDone ==
  /\ Warm
  /\ SetAssumption(<< >>)
  /\ frames' = << Frame(Var) >>
WarmFails ==
  /\ pc = "answered" /\ frames = << >> /\ calls = 1 /\ ~answer
  /\ pc' = "unsat"
  /\ UNCHANGED << loaded, ok, db, trail, lim, propagation, order, restarts, model,
                  activeModel, assumption, pending, answer, frames, calls >>

(* What is left of the formula under the literals V, and the sets of         *)
(* variables that no clause of it leads out of.                              *)
Left(V) == {{l \in c : -l \notin V} : c \in {d \in formula : d \cap V = {}}}
Whole(V, S) == \A c \in Left(V) : VarsOf(c) \subseteq S \/ VarsOf(c) \cap S = {}

(* The components for the innermost compute_: the formula manager holds the  *)
(* assumptions and the units of all the calls.                               *)
Value == ToSet(assumption) \cup UNION {frames[x].units : x \in DOMAIN frames}
Components ==
  LET active == {v \in frames[1].vars : \E c \in Left(Value) : v \in VarsOf(c)}
      closed == {s \in SUBSET active : Whole(Value, s)}
  IN {{w \in active : \A s \in closed : v \in s <=> w \in s} : v \in active}

(* computeDecisionNode pushes a literal of a component and asks again: for   *)
(* compute_, or, with several literals, for the rest of the same variables.  *)
(* Components may be skipped (the cache), branches come in any order.        *)
Deeper ==
  /\ pc \in {"answered", "back"}
  /\ frames # << >>
  /\ frames[1].sat
  /\ calls < input.maxCalls
  /\ \E comp \in Components \cup {frames[1].vars}, l \in Lit :
       /\ VarOf(l) \in comp \ VarsOf(ToSet(assumption))
       /\ frames' = << Frame(comp) >> \o frames
       /\ pending' = << l >>
  /\ pc' = "ask"
  /\ UNCHANGED << loaded, ok, db, trail, lim, propagation, order, restarts, model,
                  activeModel, assumption, answer, calls >>

(* The branch is done: popAssumption(), unless it is the first call. *)
Back ==
  /\ pc \in {"answered", "back"}
  /\ frames # << >>
  /\ IF Len(frames) > 1 THEN PopAssumption(1) /\ pc' = "back"
     ELSE pc' = "done" /\ UNCHANGED << assumption, trail, lim, qhead, heap >>
  /\ frames' = Tail(frames)
  /\ UNCHANGED << loaded, ok, db, visit, confl, problemVariable, inTheHeap,
                  restarts, model, activeModel, pending, answer, calls >>

(* Whether a model has all literals of a sequence. *)
Models == {A \in SUBSET Lit : /\ \A v \in Var : v \in A <=> -v \notin A
                              /\ \A c \in formula : c \cap A # {}}
Satisfiable(assums) == \E A \in Models : ToSet(assums) \subseteq A

(* count: restart, pop, setAssumption, and compute_.  ProjMCMethod calls it  *)
(* under assumptions some model has, for variables cut off from the others.  *)
Count ==
  /\ pc = "done"
  /\ calls < input.maxCalls
  /\ \E call \in CountCalls :
       /\ Satisfiable(call.assums)
       /\ Whole(ToSet(call.assums), call.vars)
       /\ SetAssumption(call.assums)
       /\ frames' = << Frame(call.vars) >>

Finished == pc \in {"done", "unsat"} /\ UNCHANGED solverVars

------------------------------------------------------------------------------
SolverInit ==
  /\ input \in Inputs
  /\ read = 0
  /\ ok = TRUE
  /\ db = {} /\ trail = << >> /\ lim = << >> /\ qhead = 0
  /\ visit = {} /\ confl = {} /\ restarts = 0
  /\ problemVariable = {} /\ inTheHeap = {} /\ heap = {}
  /\ model = {} /\ activeModel = FALSE /\ assumption = << >>
  /\ answer = FALSE /\ pc = "add"
  /\ pending = << >> /\ frames = << >> /\ calls = 0

(* One step of solve_. *)
SearchStep ==
  \/ PropagateNext \/ PropagateVisit \/ ConflictAtRoot \/ Resolve \/ Learn
  \/ Restart \/ Simplify \/ ReduceDB \/ Assume \/ AssumptionFails \/ Decide \/ ModelFound

CallerStep ==
  \/ AddClause \/ AddConflict \/ Loaded \/ WarmQuery \/ WarmDone \/ WarmFails
  \/ PushAssumption \/ Solve \/ SolveAtOnce \/ Deeper \/ Back \/ Count \/ Finished

SolverNext == SearchStep \/ CallerStep

(* The loop of search runs until it returns. *)
SolverSpec ==
  SolverInit /\ [][SolverNext]_solverVars /\ WF_solverVars(SearchStep)

------------------------------------------------------------------------------
(***************************************************************************)
(* Types, and what propagate relies on: a clause watches two of its        *)
(* literals, the levels start inside the trail, and no variable is on it   *)
(* twice.                                                                  *)
(***************************************************************************)
SolverTypeOK ==
  /\ \A c \in db : c.watched \subseteq c.lits /\ Cardinality(c.watched) = 2
  /\ qhead <= Len(trail)
  /\ \A x \in DOMAIN lim : lim[x] <= Len(trail) /\ (x > 1 => lim[x - 1] <= lim[x])
  /\ \A x, y \in DOMAIN trail : x # y => VarOf(trail[x].lit) # VarOf(trail[y].lit)
  /\ problemVariable \cup inTheHeap \cup heap \subseteq Var
  /\ assumption \in Seq(Lit)

(***************************************************************************)
(* Every answer of solve is right for the whole formula under the          *)
(* assumptions, although the search only decides variables of one          *)
(* component, keeps the trail of earlier calls, and may not search at all  *)
(* when the last model still fits.  An answer True supposes that the       *)
(* calls around it had right answers, and that the units they were given   *)
(* are still on the trail (Glucose may delete what they followed from).    *)
(***************************************************************************)
Known == UNION {frames[x].units : x \in 2 .. Len(frames)}
CallersRight ==
  Len(frames) > 1 => Satisfiable(Front(assumption)) /\ Known \subseteq TrailLits
AnswerRight ==
  pc = "answered" =>
    IF answer THEN CallersRight => Satisfiable(assumption) ELSE ~Satisfiable(assumption)

(***************************************************************************)
(* When the answer is True the trail, of which whichAreUnits takes the     *)
(* variables of the component, holds the assumptions, follows from them,   *)
(* and is closed under unit propagation: what the counting search relies   *)
(* on (UnitSets in DpllStyleMethod).                                       *)
(***************************************************************************)
UnitsRight ==
  pc = "answered" /\ answer =>
    /\ ToSet(assumption) \subseteq TrailLits
    /\ \A A \in Models : ToSet(assumption) \subseteq A => TrailLits \subseteq A
    /\ \A c \in formula :
         c \cap TrailLits # {} \/ Cardinality({l \in c : Undef(l)}) >= 2

(***************************************************************************)
(* What pushAssumption asserts when the last model has the literal pushed: *)
(* every earlier assumption has its level, and propagating the literal     *)
(* gives no conflict, however many calls and pops ago the model was found. *)
(***************************************************************************)
PushSafe ==
  pc = "ask" => /\ confl = {}
                /\ activeModel => Level = Len(assumption)

(***************************************************************************)
(* Every call of solve returns, with restarts bounded: learning always     *)
(* makes progress, whatever reduceDB and simplify remove.                  *)
(***************************************************************************)
SolveReturns == pc = "search" ~> pc = "answered"
============================================================================
