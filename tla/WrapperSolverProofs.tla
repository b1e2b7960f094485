------------------------ MODULE WrapperSolverProofs ------------------------
(***************************************************************************)
(* What the solver answers, for every formula and every sequence of calls. *)
(*                                                                         *)
(* An answer False is right, since the trail, its reasons and the clauses  *)
(* learnt all follow from the formula.  With Glucose an answer True is     *)
(* right too, as far as the answers to the outer calls were: the watches   *)
(* guarantee that what was propagated is closed, and the variables of a    *)
(* component go together with any model of the rest.                       *)
(***************************************************************************)
EXTENDS WrapperSolverTrail

------------------------------------------------------------------------------
(* The inductive invariant: what makes the answers False right, and, for     *)
(* Glucose, the answers True.                                                *)

TypesRight ==
  /\ input \in Inputs
  /\ read \in 0 .. Len(input.clauses)
  /\ ok \in BOOLEAN /\ activeModel \in BOOLEAN /\ answer \in BOOLEAN
  /\ problemVariable \subseteq Var /\ inTheHeap \subseteq Var /\ heap \subseteq Var
  /\ model \subseteq Lit
  /\ assumption \in Seq(Lit) /\ pending \in Seq(Lit)
  /\ frames \in Seq(Frames)
  /\ calls \in Nat
  /\ pc \in {"add", "ask", "search", "return", "answered", "back", "done", "unsat"}

TrailRight ==
  /\ Shape(trail, lim)
  /\ Reasoned(trail, lim, Models)
  /\ Assumed(trail, lim, assumption)

DbRight ==
  /\ \A c \in db : Attachable(c, Models)
  /\ ~ok => Models = {}

(* Propagation is at an entry of the last level. *)
QueueRight ==
  /\ qhead \in 0 .. Len(trail)
  /\ Len(lim) > 0 => lim[Len(lim)] <= qhead
  /\ visit \subseteq db
  /\ visit # {} => /\ confl = {}
                   /\ qhead > 0
                   /\ Len(lim) > 0 => lim[Len(lim)] < qhead
                   /\ \A c \in visit : -trail[qhead].lit \in c.watched
  /\ confl # {} /\ ~Glucose => qhead = Len(trail)

(* A clause became false at the last level. *)
Latest(c, t, m) ==
  Len(m) > 0 => \E x \in DOMAIN t : -t[x].lit \in c /\ t[x].level = Len(m)

ConflRight ==
  confl # {} => Conflict(confl, trail, Models) /\ Latest(confl, trail, lim)

Still == visit = {} /\ confl = {} /\ qhead = Len(trail)

PcRight ==
  /\ pc = "add" => lim = << >> /\ assumption = << >> /\ frames = << >>
  /\ pc = "search" => ok
  /\ pc = "return" => QuickExit \/ ~ok
  /\ pc \in {"return", "answered", "back", "done", "unsat"} => Still
  /\ pc # "search" => /\ Len(lim) <= Len(assumption)
                      /\ activeModel => Len(lim) = Len(assumption)
  /\ frames = << >> /\ pc # "done" => ~activeModel
  /\ pc # "ask" => pending = << >>
  /\ Len(frames) <= Len(assumption) + Len(pending) + 1
  /\ pc = "done" => frames = << >>
  /\ pc = "back" => frames # << >>
  /\ pc = "answered" /\ answer => Len(lim) = Len(assumption)
  /\ pc = "answered" /\ ~answer => ~Sat(Models, assumption)

SoundInv ==
  TypesRight /\ TrailRight /\ DbRight /\ QueueRight /\ ConflRight /\ PcRight

(* How much of the trail the watches are right about. *)
Settled == IF confl = {} THEN qhead ELSE IF Len(lim) = 0 THEN 0 ELSE lim[Len(lim)]

WatchRight ==
  ok => /\ Guarded(trail, db, Settled, qhead, visit)
        /\ \A x \in 1 .. read : Covered(input.clauses[x], trail, db)

(* While the last model counts, propagation stays inside it. *)
ModelRight ==
  activeModel /\ pc \notin {"search", "return"} =>
    LitsOf(trail) \subseteq model /\ Fits(model, db)

(* A variable to decide on is on the trail or in the heap. *)
HeapRight ==
  pc = "search" =>
    /\ \A v \in problemVariable : Open(LitsOf(trail), v) => v \in heap
    /\ frames # << >> => problemVariable = frames[1].vars
    /\ frames = << >> =>
         \A v \in Var \ problemVariable : RootTrue(trail, v) \/ RootTrue(trail, -v)

(* The calls fr under the assumptions all are nested: each has variables     *)
(* that are a whole component under what it was called with, and the units   *)
(* of the outer ones follow from their assumptions.                          *)
NestedAt(fr, all, M, F, x) ==
  /\ x = Len(fr) => /\ Sat(M, Before(all, x))
                    /\ Uncrossed(F, ToSet(Before(all, x)), fr[x].vars)
  /\ x < Len(fr) =>
       /\ VarOf(all[Len(all) + 1 - x]) \in fr[x].vars
       /\ Uncrossed(F, ToSet(Before(all, x + 1)) \cup UnitsFrom(fr, x + 1), fr[x].vars)
  /\ x > 1 => Implies(M, Before(all, x), fr[x].units)

Nested(fr, all, M, F) ==
  /\ Len(fr) <= Len(all) + 1
  /\ \A x \in DOMAIN fr : NestedAt(fr, all, M, F, x)

FramesRight ==
  /\ Nested(frames, assumption \o pending, Models, formula)
  /\ frames # << >> /\ pc \in {"answered", "back"} /\ frames[1].sat =>
       Implies(Models, assumption, frames[1].units)

(* warmStart goes on only if there is a model. *)
WarmRight ==
  /\ pc # "add" => read = Len(input.clauses)
  /\ pc = "add" => calls = 0
  /\ frames = << >> /\ pc = "ask" => lim = << >>
  /\ frames = << >> /\ pc \in {"ask", "search", "return", "answered"}
     /\ (calls > 1 \/ (calls = 1 /\ (pc = "ask" \/ (pc = "answered" /\ answer))))
     => Models # {}

(* A True answer is right if the outer calls got a right one. *)
TrueRight ==
  pc = "answered" /\ answer =>
    /\ ok
    /\ \/ Sat(Models, assumption)
       \/ /\ Len(frames) > 1
          /\ \/ ~Sat(Models, Before(assumption, 2))
             \/ ~(UnitsFrom(frames, 2) \subseteq LitsOf(trail))

(* A push is propagated without a conflict before the next. *)
AskRight ==
  pc = "ask" => confl = {} /\ (~activeModel => visit = {} /\ qhead = Len(trail))

CompleteInv ==
  WatchRight /\ ModelRight /\ HeapRight /\ FramesRight /\ WarmRight /\ TrueRight /\ AskRight

SolverInv == SoundInv /\ (Glucose => CompleteInv)

------------------------------------------------------------------------------
(* Facts all steps use. *)

LEMMA SameInput ==
  ASSUME input' = input
  PROVE  Models' = Models /\ formula' = formula /\ (Glucose' <=> Glucose)
  BY DEF Models, formula, Glucose

LEMMA Basics ==
  ASSUME SoundInv
  PROVE  /\ Shape(trail, lim) /\ Reasoned(trail, lim, Models) /\ Total(Models)
         /\ Assumed(trail, lim, assumption)
         /\ Len(trail) \in Nat /\ DOMAIN trail = 1 .. Len(trail)
         /\ Len(lim) \in Nat /\ DOMAIN lim = 1 .. Len(lim) /\ Level = Len(lim)
         /\ TrailLits = LitsOf(trail)
         /\ assumption \in Seq(Lit) /\ Len(assumption) \in Nat
         /\ DOMAIN assumption = 1 .. Len(assumption)
         /\ qhead \in Nat /\ qhead <= Len(trail)
         /\ LitsOf(trail) \subseteq Lit
         /\ \A x \in DOMAIN trail :
              /\ trail[x].lit \in Lit /\ trail[x].why \subseteq Lit
              /\ trail[x].level \in Nat /\ trail[x].level <= Len(lim)
         /\ \A k \in DOMAIN lim : lim[k] \in Nat /\ lim[k] <= Len(trail)
         /\ Len(lim) > 0 => /\ Len(lim) \in DOMAIN lim
                            /\ lim[Len(lim)] <= qhead
                            /\ \A k \in DOMAIN lim : lim[k] <= lim[Len(lim)]
                            /\ \A x \in DOMAIN trail :
                                 lim[Len(lim)] < x => trail[x].level = Len(lim)
<1>1. /\ Shape(trail, lim) /\ Reasoned(trail, lim, Models)
      /\ Assumed(trail, lim, assumption) /\ assumption \in Seq(Lit)
      /\ qhead \in 0 .. Len(trail)
      /\ Len(lim) > 0 => lim[Len(lim)] <= qhead
  BY DEF SoundInv, TrailRight, TypesRight, QueueRight
<1>2. /\ Len(trail) \in Nat /\ DOMAIN trail = 1 .. Len(trail)
      /\ Len(lim) \in Nat /\ DOMAIN lim = 1 .. Len(lim)
      /\ LitsOf(trail) \subseteq Lit
      /\ \A x \in DOMAIN trail : /\ trail[x].lit \in Lit /\ trail[x].why \subseteq Lit
                                 /\ trail[x].level \in Nat
      /\ \A k \in DOMAIN lim : lim[k] \in Nat
  BY <1>1, ShapeFacts
<1>3. Len(assumption) \in Nat /\ DOMAIN assumption = 1 .. Len(assumption)
  BY <1>1, LenProperties
<1>4. /\ \A x \in DOMAIN trail : trail[x].level <= Len(lim)
      /\ \A k \in DOMAIN lim : lim[k] <= Len(trail)
      /\ \A j, k \in DOMAIN lim : j <= k => lim[j] <= lim[k]
      /\ \A x \in DOMAIN trail, k \in DOMAIN lim : k <= trail[x].level <=> lim[k] < x
  BY <1>1 DEF Shape
<1>5. Len(lim) > 0 => Len(lim) \in DOMAIN lim
  BY <1>2
<1>6. Len(lim) > 0 => \A k \in DOMAIN lim : lim[k] <= lim[Len(lim)]
  BY <1>2, <1>4, <1>5
<1>7. Len(lim) > 0 => \A x \in DOMAIN trail : lim[Len(lim)] < x => trail[x].level = Len(lim)
  BY <1>2, <1>4, <1>5
<1> QED
  BY <1>1, <1>2, <1>3, <1>4, <1>5, <1>6, <1>7, ModelsTotal, TrailLitsOf DEF Level

(* At level 0 the trail is in every model. *)
LEMMA RootInModels ==
  ASSUME SoundInv, Len(lim) = 0, NEW A \in Models
  PROVE  LitsOf(trail) \subseteq A
<1>1. \A x \in DOMAIN trail : trail[x].level = 0
  BY Basics
<1> QED
  BY <1>1, Basics DEF Reasoned, LitsOf

LEMMA SoundInit ==
  ASSUME SolverInit
  PROVE  SoundInv
<1>1. input \in Inputs /\ input.clauses \in Seq(SUBSET Lit)
  BY SolverAssumption DEF SolverInit
<1>2. 0 \in 0 .. Len(input.clauses)
  BY <1>1, LenProperties
<1>a. << >> \in Seq(Lit) /\ << >> \in Seq(Frames)
  BY EmptySeq
<1>b. /\ read \in 0 .. Len(input.clauses) /\ calls \in Nat
      /\ assumption \in Seq(Lit) /\ pending \in Seq(Lit) /\ frames \in Seq(Frames)
  BY <1>2, <1>a DEF SolverInit
<1>3. TypesRight
  BY <1>1, <1>b DEF TypesRight, SolverInit
<1>4. TrailRight
  BY DEF SolverInit, TrailRight, Shape, Reasoned, Assumed
<1>5. DbRight /\ QueueRight /\ ConflRight /\ PcRight
  BY DEF SolverInit, DbRight, QueueRight, ConflRight, PcRight, Still
<1> QED
  BY <1>3, <1>4, <1>5 DEF SoundInv

------------------------------------------------------------------------------
(* propagate *)

LEMMA PropagateNextSound ==
  ASSUME SoundInv, PropagateNext
  PROVE  SoundInv'
<1> USE DEF PropagateNext, loaded, order, caller
<1>0. Models' = Models /\ (Glucose' <=> Glucose)
  BY SameInput
<1>1. TypesRight' /\ TrailRight' /\ DbRight' /\ ConflRight'
  BY <1>0 DEF SoundInv, TypesRight, TrailRight, DbRight, ConflRight
<1>2. QueueRight'
  BY <1>0, Basics DEF SoundInv, QueueRight
<1>3. pc \in {"add", "ask", "search"}
  BY Basics DEF SoundInv, PcRight, Still, TypesRight
<1>4. PcRight'
  BY <1>0, <1>3 DEF SoundInv, PcRight, QuickExit, Sat
<1> QED
  BY <1>1, <1>2, <1>4 DEF SoundInv

LEMMA VisitFacts ==
  ASSUME SoundInv, NEW c \in visit, NEW p, p = trail[qhead].lit,
         NEW first, first = CHOOSE l \in c.watched : l # -p
  PROVE  /\ qhead \in DOMAIN trail /\ c \in db /\ Attachable(c, Models)
         /\ p \in Lit /\ first \in Lit /\ first \in c.lits /\ c.lits \in SUBSET Lit
         /\ c.watched = {-p, first} /\ first # -p /\ -p \in c.lits
         /\ -(-p) = p
         /\ trail[qhead].level = Len(lim)
         /\ confl = {}
         /\ NewWatch(c) = {} => \A l \in c.lits \ {first} : -l \in LitsOf(trail)
<1>1. /\ c \in db /\ qhead > 0 /\ -p \in c.watched /\ confl = {}
      /\ Len(lim) > 0 => lim[Len(lim)] < qhead
  BY DEF SoundInv, QueueRight
<1>2. qhead \in DOMAIN trail
  BY <1>1, Basics
<1>3. p \in Lit /\ -(-p) = p
  BY <1>2, Basics, LitFacts
<1>4. Attachable(c, Models)
  BY <1>1 DEF SoundInv, DbRight
<1>5. PICK a, b \in c.lits : a # b /\ c.watched = {a, b}
  BY <1>4 DEF Attachable
<1>6. \E l \in c.watched : l # -p
  BY <1>5
<1>7. first \in c.watched /\ first # -p
  BY <1>6
<1>8. c.watched = {-p, first}
  BY <1>1, <1>5, <1>7
<1>9. c.lits \in SUBSET Lit
  BY <1>4 DEF Attachable, Clauses
<1>10. first \in c.lits /\ first \in Lit /\ -p \in c.lits
  BY <1>5, <1>7, <1>1, <1>9
<1>11. trail[qhead].level = Len(lim)
  BY <1>1, <1>2, Basics
<1>12. p \in LitsOf(trail)
  BY <1>2, LitsOfAt
<1>13. ASSUME NewWatch(c) = {}, NEW l \in c.lits \ {first} PROVE -l \in LitsOf(trail)
  BY <1>3, <1>8, <1>12, <1>13, TrailLitsOf DEF NewWatch
<1> QED
  BY <1>1, <1>2, <1>3, <1>4, <1>7, <1>8, <1>9, <1>10, <1>11, <1>13

LEMMA PropagateVisitSound ==
  ASSUME SoundInv, PropagateVisit
  PROVE  SoundInv'
<1>0. /\ Models' = Models /\ (Glucose' <=> Glucose)
      /\ UNCHANGED << input, read, ok, lim, restarts, problemVariable, inTheHeap, heap, model,
                      activeModel, assumption, pending, pc, answer, frames, calls >>
  BY SameInput DEF PropagateVisit, loaded, order, caller
<1>1. PICK c \in visit :
        LET p == trail[qhead].lit
            first == CHOOSE l \in c.watched : l # -p
        IN
        \/ /\ c.lits \cap TrailLits # {}
           /\ visit' = visit \ {c}
           /\ UNCHANGED << db, trail, qhead, confl >>
        \/ /\ first \notin TrailLits
           /\ \E l \in NewWatch(c) :
                db' = (db \ {c}) \cup {Rewatched(c, p, l)}
           /\ visit' = visit \ {c}
           /\ UNCHANGED << trail, qhead, confl >>
        \/ /\ NewWatch(c) = {}
           /\ Undef(first)
           /\ trail' = Enqueue(trail, first, c.lits, Level)
           /\ visit' = visit \ {c}
           /\ UNCHANGED << db, qhead, confl >>
        \/ /\ NewWatch(c) = {}
           /\ -first \in TrailLits
           /\ confl' = c.lits
           /\ qhead' = IF Glucose /\ Cardinality(c.lits) = 2 THEN qhead ELSE Len(trail)
           /\ visit' = {}
           /\ UNCHANGED << db, trail >>
  BY DEF PropagateVisit
<1> DEFINE p == trail[qhead].lit
           first == CHOOSE l \in c.watched : l # -p
<1>2. /\ qhead \in DOMAIN trail /\ c \in db /\ Attachable(c, Models)
      /\ p \in Lit /\ first \in Lit /\ first \in c.lits /\ c.lits \in SUBSET Lit
      /\ c.watched = {-p, first} /\ first # -p /\ -p \in c.lits
      /\ -(-p) = p
      /\ trail[qhead].level = Len(lim)
      /\ confl = {}
      /\ NewWatch(c) = {} => \A l \in c.lits \ {first} : -l \in LitsOf(trail)
  BY VisitFacts
<1> HIDE DEF p, first
<1>3. pc \in {"add", "ask", "search"}
  BY DEF SoundInv, PcRight, Still, TypesRight
<1>4. TypesRight'
  BY <1>0 DEF SoundInv, TypesRight
<1>5. PcRight'
  BY <1>0, <1>3 DEF SoundInv, PcRight, QuickExit
<1>6. ASSUME c.lits \cap TrailLits # {}, visit' = visit \ {c},
             UNCHANGED << db, trail, qhead, confl >>
      PROVE  SoundInv'
  <2>1. TrailRight' /\ DbRight' /\ ConflRight'
    BY <1>0, <1>6 DEF SoundInv, TrailRight, DbRight, ConflRight
  <2>2. QueueRight'
    BY <1>0, <1>6 DEF SoundInv, QueueRight
  <2> QED
    BY <1>4, <1>5, <2>1, <2>2 DEF SoundInv
<1>7. ASSUME NEW l \in NewWatch(c), db' = (db \ {c}) \cup {Rewatched(c, p, l)},
             visit' = visit \ {c}, UNCHANGED << trail, qhead, confl >>
      PROVE  SoundInv'
  <2>1. TrailRight' /\ ConflRight'
    BY <1>0, <1>7 DEF SoundInv, TrailRight, ConflRight
  <2>2. l \in c.lits /\ l # first /\ l # -p
    BY <1>2 DEF NewWatch
  <2> DEFINE e == Rewatched(c, p, l)
  <2>3. c \in Clauses
    BY <1>2 DEF Attachable
  <2>4. e = [lits |-> c.lits, learnt |-> c.learnt, watched |-> (c.watched \ {-p}) \cup {l}]
    BY <2>3 DEF Rewatched, Clauses
  <2>5. (c.watched \ {-p}) \cup {l} = {first, l}
    BY <1>2
  <2>6. Attachable(e, Models)
    BY <1>2, <2>2, <2>3, <2>4, <2>5 DEF Attachable, Clauses
  <2>7. DbRight'
    BY <1>0, <1>7, <2>6 DEF SoundInv, DbRight
  <2>8. QueueRight'
    BY <1>0, <1>7 DEF SoundInv, QueueRight
  <2> QED
    BY <1>4, <1>5, <2>1, <2>7, <2>8 DEF SoundInv
<1>8. ASSUME NewWatch(c) = {}, Undef(first), trail' = Enqueue(trail, first, c.lits, Level),
             visit' = visit \ {c}, UNCHANGED << db, qhead, confl >>
      PROVE  SoundInv'
  <2>1. first \notin LitsOf(trail) /\ -first \notin LitsOf(trail)
    BY <1>8, TrailLitsOf DEF Undef
  <2>2. trail' = Enqueue(trail, first, c.lits, Len(lim))
    BY <1>8 DEF Level
  <2>3. Shape(trail', lim) /\ Extends(trail, trail', first, c.lits, Len(lim))
    BY <1>2, <2>1, <2>2, Basics, EnqueueShape
  <2>4. ASSUME Len(lim) = 0, NEW A \in Models PROVE first \in A
    <3>1. LitsOf(trail) \subseteq A
      BY <2>4, RootInModels
    <3>2. PICK l \in c.lits : l \in A
      BY <1>2 DEF Attachable, Follows
    <3>3. CASE l # first
      <4>1. -l \in A
        BY <1>2, <1>8, <3>1, <3>3
      <4> QED
        BY <1>2, <3>2, <4>1, ModelsTotal, TotalLit
    <3> QED
      BY <3>2, <3>3
  <2>5. Justified(trail, lim, Models, first, c.lits)
    BY <1>2, <1>8, <2>4 DEF Justified, Attachable
  <2>6. Reasoned(trail', lim, Models)
    BY <1>2, <2>1, <2>2, <2>5, Basics, EnqueueReasoned
  <2>7. Assumed(trail', lim, assumption)
    BY <1>2, <2>1, <2>2, Basics, EnqueueAssumed
  <2>8. TrailRight'
    BY <1>0, <2>3, <2>6, <2>7 DEF TrailRight
  <2>9. DbRight' /\ ConflRight'
    BY <1>0, <1>2, <1>8 DEF SoundInv, DbRight, ConflRight
  <2>10. Len(trail') = Len(trail) + 1 /\ trail'[qhead] = trail[qhead]
    BY <1>2, <2>3 DEF Extends
  <2>11. QueueRight'
    BY <1>0, <1>2, <1>8, <2>10, Basics DEF SoundInv, QueueRight
  <2> QED
    BY <1>4, <1>5, <2>8, <2>9, <2>11 DEF SoundInv
<1>9. ASSUME NewWatch(c) = {}, -first \in TrailLits, confl' = c.lits,
             qhead' = IF Glucose /\ Cardinality(c.lits) = 2 THEN qhead ELSE Len(trail),
             visit' = {}, UNCHANGED << db, trail >>
      PROVE  SoundInv'
  <2>1. TrailRight' /\ DbRight'
    BY <1>0, <1>9 DEF SoundInv, TrailRight, DbRight
  <2>2. \A l \in c.lits : -l \in LitsOf(trail)
    BY <1>2, <1>9, TrailLitsOf
  <2>3. Conflict(c.lits, trail, Models)
    BY <1>2, <2>2 DEF Conflict, Attachable
  <2>4. Latest(c.lits, trail, lim)
    BY <1>2 DEF Latest, p
  <2>5. ConflRight'
    BY <1>0, <1>9, <2>3, <2>4 DEF ConflRight
  <2>6. qhead' \in 0 .. Len(trail) /\ qhead <= qhead' /\ (~Glucose => qhead' = Len(trail))
    BY <1>9, Basics
  <2>7. QueueRight'
    BY <1>0, <1>9, <2>6, Basics DEF SoundInv, QueueRight
  <2> QED
    BY <1>4, <1>5, <2>1, <2>5, <2>7 DEF SoundInv
<1> QED
  BY <1>1, <1>6, <1>7, <1>8, <1>9 DEF p, first

------------------------------------------------------------------------------
(* Levels opened and cut. *)

LEMMA SeqFacts ==
  ASSUME SoundInv
  PROVE  /\ Len(frames) \in Nat /\ DOMAIN frames = 1 .. Len(frames)
         /\ Len(pending) \in Nat /\ frames \in Seq(Frames) /\ pending \in Seq(Lit)
         /\ frames = << >> <=> Len(frames) = 0
         /\ pending = << >> <=> Len(pending) = 0
         /\ \A x \in DOMAIN frames : frames[x] \in Frames
<1>1. frames \in Seq(Frames) /\ pending \in Seq(Lit)
  BY DEF SoundInv, TypesRight
<1>2. \A x \in 1 .. Len(frames) : frames[x] \in Frames
  BY <1>1, ElementOfSeq
<1> QED
  BY <1>1, <1>2, LenProperties, EmptySeq

LEMMA NextFacts ==
  ASSUME SoundInv
  PROVE  /\ NextAssumption \in Nat /\ NextAssumption > Len(lim)
         /\ NextAssumption - 1 - Len(lim) \in Nat
         /\ Levels(NextAssumption)
              = lim \o [y \in 1 .. NextAssumption - 1 - Len(lim) |-> Len(trail)]
         /\ NextAssumption <= Len(assumption) => assumption[NextAssumption] \notin LitsOf(trail)
         /\ \/ NextAssumption <= Len(assumption) + 1
            \/ NextAssumption = Len(lim) + 1
         /\ \A k \in Len(lim) + 1 .. NextAssumption - 1 :
              k <= Len(assumption) => assumption[k] \in LitsOf(trail)
<1> DEFINE T == {x \in Level + 1 .. Level + Len(assumption) + 1 :
                   x > Len(assumption) \/ assumption[x] \notin TrailLits}
           N == NextAssumption
<1>1. Len(lim) \in Nat /\ Len(assumption) \in Nat /\ Level = Len(lim) /\ TrailLits = LitsOf(trail)
  BY Basics
<1>2. T \in SUBSET Nat /\ Level + Len(assumption) + 1 \in T
  BY <1>1
<1>3. \E x \in T : \A y \in T : x <= y
  BY <1>2, SmallestIn
<1>4. N \in T /\ \A y \in T : N <= y
  BY <1>3 DEF NextAssumption, Min
<1> HIDE DEF N
<1>5. N \in Nat /\ N > Len(lim) /\ N <= Len(lim) + Len(assumption) + 1
      /\ (N > Len(assumption) \/ assumption[N] \notin LitsOf(trail))
  BY <1>1, <1>4
<1>6. ASSUME NEW k \in Len(lim) + 1 .. N - 1, k <= Len(assumption)
      PROVE  assumption[k] \in LitsOf(trail)
  <2>1. k \in Nat /\ k < N /\ k \in Level + 1 .. Level + Len(assumption) + 1
    BY <1>1, <1>5, <1>6
  <2>2. k \notin T
    BY <2>1, <1>4, <1>5
  <2> QED
    BY <2>1, <2>2, <1>1, <1>6
<1>7. N <= Len(assumption) + 1 \/ N = Len(lim) + 1
  <2>1. CASE Len(lim) >= Len(assumption)
    <3>1. Len(lim) + 1 \in T
      BY <1>1, <2>1
    <3> QED
      BY <1>1, <1>4, <1>5, <3>1
  <2>2. CASE Len(lim) < Len(assumption)
    <3>1. Len(assumption) + 1 \in T
      BY <1>1, <2>2
    <3> QED
      BY <1>4, <3>1
  <2> QED
    BY <2>1, <2>2, <1>1
<1>8. Levels(N) = lim \o [y \in 1 .. N - 1 - Len(lim) |-> Len(trail)]
  BY <1>1 DEF Levels
<1> QED
  BY <1>1, <1>5, <1>6, <1>7, <1>8 DEF N

LEMMA CutFacts ==
  ASSUME SoundInv, NEW k \in Nat,
         NEW u, u = KeptTrail(k), NEW p, p = KeptLim(k),
         NEW q, q = IF Level > k THEN lim[k + 1] ELSE qhead
  PROVE  /\ Shape(u, p) /\ Reasoned(u, p, Models) /\ Assumed(u, p, assumption)
         /\ Cuts(trail, lim, k, u, p)
         /\ q \in 0 .. Len(u) /\ Len(p) \in Nat /\ Len(p) <= k
         /\ Len(p) > 0 => p[Len(p)] <= q
         /\ qhead = Len(trail) => q = Len(u)
         /\ PutBack(k) \subseteq Var
<1>1. u = KeptT(trail, lim, k) /\ p = KeptM(lim, k)
  BY DEF KeptTrail, KeptLim, KeptT, KeptM, Level
<1>2. Shape(u, p) /\ Cuts(trail, lim, k, u, p)
  BY <1>1, CutShape, Basics
<1>3. Reasoned(u, p, Models) /\ Assumed(u, p, assumption)
  BY <1>1, CutReasoned, CutAssumed, Basics
<1>4. /\ Len(u) \in Nat /\ Len(p) \in Nat /\ DOMAIN p = 1 .. Len(p)
      /\ \A j \in DOMAIN p : p[j] \in Nat
  BY <1>2, ShapeFacts
<1>5. ASSUME Len(lim) > k
      PROVE  /\ q \in 0 .. Len(u) /\ Len(p) <= k
             /\ Len(p) > 0 => p[Len(p)] <= q
             /\ q = Len(u)
  <2>1. k + 1 \in DOMAIN lim /\ q = lim[k + 1] /\ Len(u) = q /\ Len(p) = k
    BY <1>2, <1>5, Basics DEF Cuts
  <2>2. ASSUME Len(p) > 0 PROVE p[Len(p)] <= q
    <3>1. Len(p) \in DOMAIN p /\ Len(p) <= k + 1
      BY <1>4, <2>1, <2>2
    <3>2. Len(p) \in DOMAIN lim /\ p[Len(p)] = lim[Len(p)]
      BY <1>2, <3>1 DEF Cuts
    <3>3. \A i, j \in DOMAIN lim : i <= j => lim[i] <= lim[j]
      BY Basics DEF Shape
    <3>4. lim[Len(p)] <= lim[k + 1]
      BY <2>1, <3>1, <3>2, <3>3
    <3> QED
      BY <2>1, <3>2, <3>4
  <2> QED
    BY <1>4, <2>1, <2>2
<1>6. ASSUME ~(Len(lim) > k)
      PROVE  /\ q \in 0 .. Len(u) /\ Len(p) <= k
             /\ Len(p) > 0 => p[Len(p)] <= q
             /\ qhead = Len(trail) => q = Len(u)
  <2>1. u = trail /\ p = lim /\ q = qhead /\ Len(lim) <= k
    BY <1>2, <1>6, Basics DEF Cuts
  <2> QED
    BY <2>1, Basics
<1>7. PutBack(k) \subseteq Var
  <2>1. heap \subseteq Var /\ TrailLits \subseteq Lit
    BY Basics DEF SoundInv, TypesRight
  <2> QED
    BY <2>1, LitFacts DEF PutBack, VarsOf
<1> QED
  BY <1>2, <1>3, <1>4, <1>5, <1>6, <1>7

LEMMA AnswerFacts ==
  ASSUME frames \in Seq(Frames), NEW b \in BOOLEAN, NEW kept, LitsOf(kept) \subseteq Lit,
         Answer(b, kept)
  PROVE  /\ frames' \in Seq(Frames) /\ Len(frames') = Len(frames)
         /\ frames = << >> <=> frames' = << >>
         /\ frames = << >> => activeModel' = activeModel
         /\ frames # << >> => /\ activeModel' = b /\ frames'[1].sat = b
                              /\ frames'[1].units = {l \in LitsOf(kept) : VarOf(l) \in frames[1].vars}
         /\ \A x \in DOMAIN frames : x > 1 => frames'[x] = frames[x]
         /\ \A x \in DOMAIN frames : frames'[x].vars = frames[x].vars
         /\ answer' = b /\ pc' = "answered" /\ pending' = pending /\ calls' = calls
<1>1. answer' = b /\ pc' = "answered" /\ pending' = pending /\ calls' = calls
  BY DEF Answer
<1>2. CASE frames = << >>
  <2>1. frames' = frames /\ activeModel' = activeModel
    BY <1>2 DEF Answer
  <2> QED
    BY <1>1, <1>2, <2>1
<1>3. CASE frames # << >>
  <2> DEFINE U == {l \in LitsOf(kept) : VarOf(l) \in frames[1].vars}
             g == [frames[1] EXCEPT !.sat = b, !.units = U]
  <2>1. Len(frames) \in Nat /\ DOMAIN frames = 1 .. Len(frames) /\ Len(frames) > 0
    BY <1>3, LenProperties, EmptySeq
  <2>2. {e.lit : e \in ToSet(kept)} = LitsOf(kept)
    BY DEF ToSet, LitsOf
  <2>3. 1 \in DOMAIN frames /\ frames[1] \in Frames
    BY <2>1, ElementOfSeq
  <2>4. frames' = [frames EXCEPT ![1].sat = b, ![1].units = U]
    BY <1>3, <2>2 DEF Answer
  <2>5. frames' = [frames EXCEPT ![1] = g]
    BY <2>3, <2>4
  <2>6. g \in Frames /\ g.sat = b /\ g.units = U /\ g.vars = frames[1].vars
    BY <2>3 DEF Frames
  <2> HIDE DEF g, U
  <2>7. frames' \in Seq(Frames) /\ Len(frames') = Len(frames)
    BY <2>3, <2>5, <2>6, ExceptSeq
  <2>8. frames'[1] = g /\ \A x \in DOMAIN frames : x # 1 => frames'[x] = frames[x]
    BY <2>3, <2>5
  <2>9. frames' # << >>
    BY <2>1, <2>7
  <2>10. activeModel' = b
    BY <1>3 DEF Answer
  <2> QED
    BY <1>1, <1>3, <2>1, <2>6, <2>7, <2>8, <2>9, <2>10 DEF U
<1> QED
  BY <1>2, <1>3

------------------------------------------------------------------------------
(* addClause *)

LEMMA AddClauseSound ==
  ASSUME SoundInv, AddClause
  PROVE  SoundInv'
<1> DEFINE c == input.clauses[read + 1]
           left == {l \in c : -l \notin TrailLits}
<1>0. /\ Models' = Models /\ (Glucose' <=> Glucose)
      /\ UNCHANGED << input, lim, qhead, visit, confl, restarts, problemVariable, inTheHeap,
                      heap, model, activeModel, assumption, pending, pc, answer, frames, calls >>
      /\ pc = "add" /\ Quiet /\ confl = {} /\ read < Len(input.clauses) /\ read' = read + 1
  BY SameInput DEF AddClause, order, caller, propagation
<1>1. \/ UNCHANGED << ok, db, trail >>
      \/ /\ ok /\ c \cap TrailLits = {} /\ \A l \in c : -l \notin c
         /\ ok' = (left # {})
         /\ db' = IF Cardinality(left) > 1 THEN db \cup {Attached(left)} ELSE db
         /\ trail' = IF Cardinality(left) = 1
                     THEN Enqueue(trail, CHOOSE l \in left : TRUE, {}, 0)
                     ELSE trail
  BY DEF AddClause
<1>2. /\ lim = << >> /\ assumption = << >> /\ frames = << >> /\ Len(lim) = 0
      /\ visit = {} /\ qhead = Len(trail)
  BY <1>0 DEF SoundInv, PcRight, Quiet
<1>3. c \in formula /\ c \in SUBSET Lit /\ read + 1 \in 1 .. Len(input.clauses)
  <2>1. input \in Inputs /\ read \in 0 .. Len(input.clauses)
    BY DEF SoundInv, TypesRight
  <2>2. Len(input.clauses) \in Nat /\ DOMAIN input.clauses = 1 .. Len(input.clauses)
    BY <2>1, FormulaLits, LenProperties
  <2>3. read + 1 \in 1 .. Len(input.clauses)
    BY <1>0, <2>1, <2>2
  <2>4. c \in formula
    BY <2>2, <2>3 DEF formula, ToSet
  <2> QED
    BY <2>1, <2>3, <2>4, FormulaLits
<1> HIDE DEF c
<1>4. TypesRight'
  <2>1. ok' \in BOOLEAN
    BY <1>1 DEF SoundInv, TypesRight
  <2> QED
    BY <1>0, <1>3, <2>1 DEF SoundInv, TypesRight
<1>5. PcRight'
  BY <1>0 DEF SoundInv, PcRight
<1>6. CASE UNCHANGED << ok, db, trail >>
  BY <1>0, <1>4, <1>5, <1>6 DEF SoundInv, TrailRight, DbRight, QueueRight, ConflRight
<1>7. ASSUME c \cap TrailLits = {}, \A l \in c : -l \notin c,
             ok' = (left # {}),
             db' = IF Cardinality(left) > 1 THEN db \cup {Attached(left)} ELSE db,
             trail' = IF Cardinality(left) = 1
                      THEN Enqueue(trail, CHOOSE l \in left : TRUE, {}, 0)
                      ELSE trail
      PROVE  SoundInv'
  <2>1. left \in SUBSET Lit /\ \A l \in left : -l \notin left
    BY <1>3, <1>7
  <2>2. Follows(left, Models)
    <3> SUFFICES ASSUME NEW A \in Models PROVE left \cap A # {}
      BY DEF Follows
    <3>1. PICK l \in c : l \in A
      BY <1>3 DEF Models
    <3>2. LitsOf(trail) \subseteq A
      BY <1>2, RootInModels
    <3>3. -l \notin LitsOf(trail)
      BY <1>3, <3>1, <3>2, ModelsTotal, TotalLit
    <3> QED
      BY <3>1, <3>3, TrailLitsOf
  <2> HIDE DEF left
  <2>3. left = {} => Models = {}
    BY <2>2 DEF Follows
  <2>4. Cardinality(left) > 1 => Attachable(Attached(left), Models)
    BY <2>1, <2>2, AttachedFacts
  <2>5. DbRight'
    BY <1>0, <1>7, <2>3, <2>4 DEF SoundInv, DbRight
  <2>6. CASE Cardinality(left) = 1
    <3>1. PICK a : left = {a}
      BY <2>1, <2>6, TwoIn
    <3>2. trail' = Enqueue(trail, a, {}, Len(lim)) /\ a \in Lit /\ {} \in SUBSET Lit
      BY <1>2, <1>7, <2>1, <2>6, <3>1
    <3>3. a \notin LitsOf(trail) /\ -a \notin LitsOf(trail)
      BY <1>7, <3>1, TrailLitsOf DEF left
    <3>4. \A A \in Models : a \in A
      BY <2>2, <3>1 DEF Follows
    <3>5. Justified(trail, lim, Models, a, {})
      BY <1>2, <3>4 DEF Justified
    <3>6. Shape(trail', lim) /\ Extends(trail, trail', a, {}, Len(lim))
      BY <3>2, <3>3, Basics, EnqueueShape
    <3>7. Reasoned(trail', lim, Models)
      BY <3>2, <3>3, <3>5, Basics, EnqueueReasoned
    <3>a. Len(lim) \notin 1 .. Len(assumption)
      BY <1>2
    <3>8. Assumed(trail', lim, assumption)
      BY <3>a, <3>2, <3>3, Basics, EnqueueAssumed
    <3>9. TrailRight'
      BY <1>0, <3>6, <3>7, <3>8 DEF TrailRight
    <3>10. QueueRight' /\ ConflRight'
      BY <1>0, <1>2, <3>6, Basics DEF Extends, QueueRight, ConflRight
    <3> QED
      BY <1>4, <1>5, <2>5, <3>9, <3>10 DEF SoundInv
  <2>7. CASE Cardinality(left) # 1
    <3>1. trail' = trail
      BY <1>7, <2>7
    <3>2. TrailRight' /\ QueueRight' /\ ConflRight'
      BY <1>0, <1>2, <3>1 DEF SoundInv, TrailRight, QueueRight, ConflRight
    <3> QED
      BY <1>4, <1>5, <2>5, <3>2 DEF SoundInv
  <2> QED
    BY <2>6, <2>7
<1> QED
  BY <1>1, <1>6, <1>7

(* A conflict at level 0 refutes the formula. *)
LEMMA RootConflict ==
  ASSUME SoundInv, Len(lim) = 0, confl # {}
  PROVE  Models = {}
<1>1. Conflict(confl, trail, Models)
  BY DEF SoundInv, ConflRight
<1> QED
  BY <1>1, RootRefutes, Basics DEF Conflict

LEMMA AddConflictSound ==
  ASSUME SoundInv, AddConflict
  PROVE  SoundInv'
<1> USE DEF AddConflict, loaded, order, caller
<1>0. Models' = Models /\ (Glucose' <=> Glucose)
  BY SameInput
<1>1. Models = {}
  <2>1. lim = << >>
    BY DEF SoundInv, PcRight
  <2> QED
    BY <2>1, RootConflict
<1>2. TypesRight' /\ TrailRight' /\ DbRight' /\ ConflRight'
  BY <1>0, <1>1 DEF SoundInv, TypesRight, TrailRight, DbRight, ConflRight
<1>3. QueueRight'
  BY <1>0, Basics DEF SoundInv, QueueRight, Quiet
<1>4. PcRight'
  BY <1>0 DEF SoundInv, PcRight
<1> QED
  BY <1>2, <1>3, <1>4 DEF SoundInv

------------------------------------------------------------------------------
(* search *)

LEMMA ConflictAtRootSound ==
  ASSUME SoundInv, ConflictAtRoot
  PROVE  SoundInv'
<1>0. /\ Models' = Models /\ (Glucose' <=> Glucose)
      /\ UNCHANGED << input, read, db, trail, lim, visit, restarts, problemVariable, inTheHeap,
                      heap, model, assumption >>
      /\ pc = "search" /\ Quiet /\ confl # {} /\ Level = 0 /\ confl' = {} /\ qhead' = Len(trail)
      /\ ok' = (ok /\ ~Glucose) /\ Answer(FALSE, trail)
  BY SameInput DEF ConflictAtRoot, loaded, order
<1>1. Models = {}
  BY <1>0, RootConflict, Basics
<1>2. /\ frames' \in Seq(Frames) /\ Len(frames') = Len(frames) /\ (frames = << >> <=> frames' = << >>)
      /\ frames = << >> => activeModel' = activeModel
      /\ frames # << >> => activeModel' = FALSE
      /\ answer' = FALSE /\ pc' = "answered" /\ pending' = pending /\ calls' = calls
  BY <1>0, AnswerFacts, Basics, SeqFacts
<1>3. activeModel' = FALSE
  BY <1>0, <1>2 DEF SoundInv, PcRight, TypesRight
<1>4. TypesRight'
  BY <1>0, <1>2, <1>3 DEF SoundInv, TypesRight
<1>5. TrailRight' /\ DbRight' /\ ConflRight'
  BY <1>0, <1>1 DEF SoundInv, TrailRight, DbRight, ConflRight
<1>6. QueueRight'
  BY <1>0, Basics DEF SoundInv, QueueRight, Quiet
<1>7. ~Sat(Models, assumption)
  BY <1>1 DEF Sat
<1>8. PcRight'
  BY <1>0, <1>2, <1>3, <1>7, Basics DEF SoundInv, PcRight, Still, Quiet
<1> QED
  BY <1>4, <1>5, <1>6, <1>8 DEF SoundInv

LEMMA ResolveSound ==
  ASSUME SoundInv, Resolve
  PROVE  SoundInv'
<1> USE DEF Resolve, loaded, order, caller
<1>0. Models' = Models /\ (Glucose' <=> Glucose)
  BY SameInput
<1>1. Conflict(confl, trail, Models) /\ Latest(confl, trail, lim)
  BY DEF SoundInv, ConflRight
<1>2. \E z \in DOMAIN trail : -trail[z].lit \in confl /\ trail[z].level = Level
  BY <1>1 DEF Latest, Level
<1>3. /\ Conflict(confl', trail, Models)
      /\ \E z \in DOMAIN trail : -trail[z].lit \in confl' /\ trail[z].level = Level
  BY <1>1, <1>2, ResolveFacts, Basics
<1>4. ConflRight'
  BY <1>0, <1>3 DEF ConflRight, Latest, Level
<1>5. TypesRight' /\ TrailRight' /\ DbRight'
  BY <1>0 DEF SoundInv, TypesRight, TrailRight, DbRight
<1>6. QueueRight'
  BY <1>0 DEF SoundInv, QueueRight, Quiet
<1>7. PcRight'
  BY <1>0 DEF SoundInv, PcRight
<1> QED
  BY <1>4, <1>5, <1>6, <1>7 DEF SoundInv

(* A learnt clause, of which all literals but one stay false. *)
LearntRight(c, l, u, p) ==
  /\ Conflict(c, trail, Models)
  /\ BacktrackLevel(c) \in Nat /\ BacktrackLevel(c) < Len(lim)
  /\ u = KeptTrail(BacktrackLevel(c)) /\ p = KeptLim(BacktrackLevel(c))
  /\ Len(p) = BacktrackLevel(c)
  /\ Cuts(trail, lim, BacktrackLevel(c), u, p)
  /\ Shape(u, p) /\ Reasoned(u, p, Models) /\ Assumed(u, p, assumption)
  /\ l = UIP(c) /\ l \in c /\ l \in Lit /\ l \notin LitsOf(u) /\ -l \notin LitsOf(u)
  /\ \A k \in c \ {l} : -k \in LitsOf(u) /\ LevelOf(k) > 0 /\ LevelOf(k) <= BacktrackLevel(c)
  /\ c = {l} => BacktrackLevel(c) = 0
  /\ c # {l} => BacktrackLevel(c) > 0
  /\ Cardinality(c) = 1 <=> c = {l}
  /\ lim[BacktrackLevel(c) + 1] = Len(u)
  /\ Len(p) > 0 => p[Len(p)] <= Len(u)

LEMMA LearntClauseRight ==
  ASSUME SoundInv, confl # {}, Level > 0, Current(confl) = {UIP(confl)},
         NEW c \in LearntClauses
  PROVE  LearntRight(c, UIP(c), KeptTrail(BacktrackLevel(c)), KeptLim(BacktrackLevel(c)))
<1> DEFINE l == UIP(c)
           b == BacktrackLevel(c)
           u == KeptTrail(b)
           p == KeptLim(b)
<1>1. Conflict(confl, trail, Models)
  BY DEF SoundInv, ConflRight
<1>2. \A d \in db : Follows(d.lits, Models)
  BY DEF SoundInv, DbRight, Attachable
<1>3. /\ Conflict(c, trail, Models) /\ c \subseteq Above(confl)
      /\ l \in c /\ Current(c) = {l}
  BY <1>1, <1>2, LearntFacts, Basics
<1>4. c \in SUBSET Lit /\ (\A k \in c : -k \in LitsOf(trail)) /\ \A k \in c : LevelOf(k) > 0
  BY <1>3 DEF Conflict, Above
<1>5. /\ b \in Nat /\ b < Level
      /\ \A k \in c \ {l} : LevelOf(k) <= b
      /\ c = {l} => b = 0
      /\ c # {l} => b > 0
  BY <1>3, <1>4, BacktrackFacts, Basics
<1> HIDE DEF b, l
<1>6. /\ Shape(u, p) /\ Reasoned(u, p, Models) /\ Assumed(u, p, assumption)
      /\ Cuts(trail, lim, b, u, p)
  BY <1>5, CutFacts
<1> HIDE DEF u, p
<1>7. b < Len(lim) /\ Len(p) = b /\ lim[b + 1] = Len(u)
  BY <1>5, <1>6, Basics DEF Cuts
<1>8. l \in Lit /\ LevelOf(l) = Len(lim)
  BY <1>3, <1>4 DEF Current, Level
<1>9. PICK x \in DOMAIN trail : trail[x].lit = -l /\ LevelOf(l) = trail[x].level
  BY <1>3, <1>4, <1>8, FalseAt, Basics
<1>10. ASSUME l \in LitsOf(u) \/ -l \in LitsOf(u) PROVE FALSE
  <2>1. PICK y \in DOMAIN u : u[y].lit = l \/ u[y].lit = -l
    BY <1>10 DEF LitsOf
  <2>2. y \in DOMAIN trail /\ trail[y] = u[y] /\ trail[y].level <= b
    BY <1>6, <2>1 DEF Cuts
  <2>3. VarOf(trail[y].lit) = VarOf(trail[x].lit)
    BY <1>8, <1>9, <2>1, <2>2, LitFacts
  <2>4. y = x
    BY <2>2, <2>3, <1>9, OneEntry, Basics
  <2> QED
    BY <2>2, <2>4, <1>5, <1>8, <1>9, Basics
<1>11. ASSUME NEW k \in c \ {l} PROVE -k \in LitsOf(u)
  <2>1. PICK y \in DOMAIN trail : trail[y].lit = -k /\ LevelOf(k) = trail[y].level
    BY <1>4, FalseAt, Basics
  <2>2. trail[y].level <= b
    BY <1>5, <2>1
  <2>3. y \in DOMAIN u /\ u[y] = trail[y]
    BY <1>6, <2>1, <2>2 DEF Cuts
  <2> QED
    BY <2>1, <2>3, LitsOfAt
<1>12. Cardinality(c) = 1 <=> c = {l}
  BY <1>3, <1>4, TwoIn
<1>13. ASSUME Len(p) > 0 PROVE p[Len(p)] <= Len(u)
  <2>1. Len(p) \in DOMAIN p
    BY <1>6, <1>13, ShapeFacts
  <2> QED
    BY <2>1, <1>6 DEF Shape
<1> QED
  BY <1>3, <1>4, <1>5, <1>6, <1>7, <1>8, <1>10, <1>11, <1>12, <1>13 DEF LearntRight, b, l, u, p

LEMMA LearntEnqueued ==
  ASSUME SoundInv, NEW c, NEW l, NEW u, NEW p, LearntRight(c, l, u, p),
         NEW why, why = IF Cardinality(c) = 1 THEN {} ELSE c,
         NEW v, v = Enqueue(u, l, why, Len(p))
  PROVE  /\ Shape(v, p) /\ Reasoned(v, p, Models) /\ Assumed(v, p, assumption)
         /\ Extends(u, v, l, why, Len(p))
<1> USE DEF LearntRight
<1>1. why \in SUBSET Lit /\ c \in SUBSET Lit /\ Follows(c, Models)
  BY DEF Conflict
<1>2. Shape(v, p) /\ Extends(u, v, l, why, Len(p))
  BY <1>1, EnqueueShape
<1>3. Len(p) = 0 <=> c = {l}
  OBVIOUS
<1>4. c = {l} => \A A \in Models : l \in A
  BY <1>1 DEF Follows
<1>5. why = {} <=> c = {l}
  OBVIOUS
<1>6. Justified(u, p, Models, l, why)
  BY <1>1, <1>3, <1>4, <1>5 DEF Justified
<1>7. Reasoned(v, p, Models)
  BY <1>1, <1>6, EnqueueReasoned
<1>8. ~(why = {} /\ Len(p) \in 1 .. Len(assumption))
  BY <1>3, <1>5
<1>9. Assumed(v, p, assumption)
  BY <1>1, <1>8, EnqueueAssumed, Basics
<1> QED
  BY <1>2, <1>7, <1>9

LEMMA LearnSound ==
  ASSUME SoundInv, Learn
  PROVE  SoundInv'
<1>0. /\ Models' = Models /\ (Glucose' <=> Glucose)
      /\ UNCHANGED << input, read, ok, visit, restarts, problemVariable, inTheHeap, model,
                      activeModel, assumption, pending, pc, answer, frames, calls >>
      /\ pc = "search" /\ Quiet /\ confl # {} /\ Level > 0 /\ confl' = {}
      /\ Current(confl) = {UIP(confl)}
  BY SameInput DEF Learn, loaded, caller
<1>1. PICK c \in LearntClauses :
        LET level == BacktrackLevel(c) IN
        /\ trail' = Asserted(c, level)
        /\ lim' = KeptLim(level)
        /\ qhead' = lim[level + 1]
        /\ heap' = PutBack(level)
        /\ IF Cardinality(c) = 1 THEN UNCHANGED db
           ELSE \E l \in c \ {UIP(c)} :
                  /\ LevelOf(l) = BacktrackLevel(c)
                  /\ db' = db \cup {[lits |-> c, learnt |-> TRUE,
                                     watched |-> {UIP(c), l}]}
  BY DEF Learn
<1> DEFINE b == BacktrackLevel(c)
           u == KeptTrail(b)
           p == KeptLim(b)
           why == IF Cardinality(c) = 1 THEN {} ELSE c
<1>2. LearntRight(c, UIP(c), u, p)
  BY <1>0, LearntClauseRight
<1>3. trail' = Enqueue(u, UIP(c), why, Len(p)) /\ lim' = p
  BY <1>1, <1>2 DEF Asserted, LearntRight
<1>4. /\ Shape(trail', lim') /\ Reasoned(trail', lim', Models) /\ Assumed(trail', lim', assumption)
      /\ Extends(u, trail', UIP(c), why, Len(p))
  BY <1>2, <1>3, LearntEnqueued
<1>5. TrailRight'
  BY <1>0, <1>4 DEF TrailRight
<1>6. c \in SUBSET Lit /\ Follows(c, Models) /\ UIP(c) \in c /\ b \in Nat
  BY <1>2 DEF LearntRight, Conflict
<1>7. DbRight' /\ db \subseteq db'
  <2>1. CASE Cardinality(c) = 1
    BY <1>0, <1>1, <2>1 DEF SoundInv, DbRight
  <2>2. CASE Cardinality(c) # 1
    <3>1. PICK l \in c \ {UIP(c)} :
            db' = db \cup {[lits |-> c, learnt |-> TRUE, watched |-> {UIP(c), l}]}
      BY <1>1, <2>2
    <3>2. Attachable([lits |-> c, learnt |-> TRUE, watched |-> {UIP(c), l}], Models)
      BY <1>6, <3>1 DEF Attachable, Clauses
    <3> QED
      BY <1>0, <3>1, <3>2 DEF SoundInv, DbRight
  <2> QED
    BY <2>1, <2>2
<1>8. qhead' = Len(u) /\ Len(trail') = Len(u) + 1 /\ Len(u) \in Nat
      /\ (Len(lim') > 0 => lim'[Len(lim')] <= Len(u))
  BY <1>1, <1>2, <1>3, <1>4, ShapeFacts DEF LearntRight, Extends
<1>9. QueueRight' /\ ConflRight'
  BY <1>0, <1>8 DEF QueueRight, ConflRight, Quiet
<1>10. TypesRight'
  <2>1. heap' \subseteq Var
    BY <1>1, <1>6, CutFacts
  <2> QED
    BY <1>0, <2>1 DEF SoundInv, TypesRight
<1>11. PcRight'
  BY <1>0 DEF SoundInv, PcRight
<1> QED
  BY <1>5, <1>7, <1>9, <1>10, <1>11 DEF SoundInv

LEMMA RestartSound ==
  ASSUME SoundInv, Restart
  PROVE  SoundInv'
<1> DEFINE k == IF Glucose THEN 0 ELSE Len(assumption)
<1>0. /\ Models' = Models /\ (Glucose' <=> Glucose)
      /\ UNCHANGED << input, read, ok, db, visit, confl, problemVariable, inTheHeap, model,
                      activeModel, assumption, pending, pc, answer, frames, calls >>
      /\ pc = "search" /\ Quiet /\ confl = {} /\ CancelUntil(k)
  BY SameInput DEF Restart, loaded, caller
<1>1. k \in Nat
  BY Basics
<1>2. /\ Shape(trail', lim') /\ Reasoned(trail', lim', Models) /\ Assumed(trail', lim', assumption)
      /\ qhead' \in 0 .. Len(trail')
      /\ Len(lim') > 0 => lim'[Len(lim')] <= qhead'
      /\ heap' \subseteq Var
  BY <1>0, <1>1, CutFacts DEF CancelUntil
<1>3. TrailRight' /\ DbRight' /\ QueueRight' /\ ConflRight'
  BY <1>0, <1>2 DEF SoundInv, TrailRight, DbRight, QueueRight, ConflRight, Quiet
<1>4. TypesRight' /\ PcRight'
  BY <1>0, <1>2 DEF SoundInv, TypesRight, PcRight
<1> QED
  BY <1>3, <1>4 DEF SoundInv

LEMMA SimplifySound ==
  ASSUME SoundInv, Simplify \/ ReduceDB
  PROVE  SoundInv'
<1>0. /\ Models' = Models /\ (Glucose' <=> Glucose)
      /\ UNCHANGED << input, read, ok, trail, lim, qhead, visit, confl, problemVariable,
                      inTheHeap, model, activeModel, assumption, pending, pc, answer, frames, calls >>
      /\ pc = "search" /\ Quiet /\ confl = {} /\ db' \subseteq db
      /\ heap' = heap \/ heap' \subseteq problemVariable
  BY SameInput DEF Simplify, ReduceDB, loaded, caller, propagation, order
<1>1. TrailRight' /\ DbRight' /\ QueueRight' /\ ConflRight'
  BY <1>0 DEF SoundInv, TrailRight, DbRight, QueueRight, ConflRight, Quiet
<1>2. TypesRight' /\ PcRight'
  BY <1>0 DEF SoundInv, TypesRight, PcRight
<1> QED
  BY <1>1, <1>2 DEF SoundInv

(* The levels of the assumptions that are true already. *)
LEMMA OpenedRight ==
  ASSUME SoundInv, NEW n \in Nat, NEW p, p = lim \o [y \in 1 .. n |-> Len(trail)],
         \A k \in Len(lim) + 1 .. Len(lim) + n :
           k <= Len(assumption) => assumption[k] \in LitsOf(trail)
  PROVE  /\ Shape(trail, p) /\ Reasoned(trail, p, Models) /\ Assumed(trail, p, assumption)
         /\ Len(p) = Len(lim) + n
         /\ Len(p) > 0 /\ qhead = Len(trail) => p[Len(p)] <= qhead
<1>1. Shape(trail, p) /\ Opens(trail, lim, n, p)
  BY OpenShape, Basics
<1>2. Reasoned(trail, p, Models) /\ Assumed(trail, p, assumption)
  BY OpenReasoned, OpenAssumed, Basics
<1>3. Len(p) = Len(lim) + n /\ DOMAIN p = 1 .. Len(lim) + n
  BY <1>1 DEF Opens
<1>4. Len(p) > 0 => Len(p) \in DOMAIN p
  BY <1>3, Basics
<1>5. Len(p) > 0 => p[Len(p)] <= Len(trail)
  BY <1>1, <1>4 DEF Shape
<1> QED
  BY <1>1, <1>2, <1>3, <1>5

LEMMA NextLevels ==
  ASSUME SoundInv, NEW p, p = Levels(NextAssumption)
  PROVE  /\ Shape(trail, p) /\ Reasoned(trail, p, Models) /\ Assumed(trail, p, assumption)
         /\ Len(p) = NextAssumption - 1
         /\ Len(p) > 0 /\ qhead = Len(trail) => p[Len(p)] <= qhead
<1> DEFINE N == NextAssumption
<1>1. /\ N \in Nat /\ N - 1 - Len(lim) \in Nat
      /\ p = lim \o [y \in 1 .. N - 1 - Len(lim) |-> Len(trail)]
      /\ \A k \in Len(lim) + 1 .. N - 1 : k <= Len(assumption) => assumption[k] \in LitsOf(trail)
  BY NextFacts
<1> HIDE DEF N
<1>2. Len(lim) + (N - 1 - Len(lim)) = N - 1
  BY <1>1, Basics
<1> QED
  BY <1>1, <1>2, OpenedRight DEF N

(* A new level, for an assumption or a decision. *)
LEMMA NewLevel ==
  ASSUME SoundInv, NEW l \in Lit, l \notin LitsOf(trail), -l \notin LitsOf(trail),
         NextAssumption <= Len(assumption) => l = assumption[NextAssumption],
         NEW p, p = Append(Levels(NextAssumption), Len(trail)),
         NEW u, u = Enqueue(trail, l, {}, NextAssumption)
  PROVE  /\ Shape(u, p) /\ Reasoned(u, p, Models) /\ Assumed(u, p, assumption)
         /\ Len(p) = NextAssumption /\ p[Len(p)] = Len(trail)
         /\ Extends(trail, u, l, {}, Len(p))
<1> DEFINE q == Levels(NextAssumption)
<1>1. /\ Shape(trail, q) /\ Reasoned(trail, q, Models) /\ Assumed(trail, q, assumption)
      /\ Len(q) = NextAssumption - 1
  BY NextLevels
<1> HIDE DEF q
<1>2. Len(q) < NextAssumption /\ NextAssumption <= Len(q) + 1
  BY <1>1, NextFacts
<1>3. p = Append(q, Len(trail)) /\ NextAssumption \in Nat
  BY NextFacts DEF q
<1>4. /\ Shape(u, p) /\ Reasoned(u, p, Models) /\ Assumed(u, p, assumption)
      /\ Len(p) = NextAssumption /\ p[Len(p)] = Len(trail)
      /\ Extends(trail, u, l, {}, Len(p))
  <2>1. Opener(assumption, NextAssumption, l)
    BY DEF Opener
  <2>2. Standing(trail, q, Models, assumption)
    BY <1>1 DEF Standing
  <2>3. Standing(u, p, Models, assumption) /\ NewTop(trail, u, p, l, NextAssumption)
    BY <1>2, <1>3, <2>1, <2>2, DecideRight, Basics
  <2> QED
    BY <2>3 DEF Standing, NewTop
<1> QED
  BY <1>4

LEMMA NewLevelSound ==
  ASSUME SoundInv, Ready, NEW l \in Lit, l \notin LitsOf(trail), -l \notin LitsOf(trail),
         NextAssumption <= Len(assumption) => l = assumption[NextAssumption],
         lim' = Append(Levels(NextAssumption), Len(trail)),
         trail' = Enqueue(trail, l, {}, NextAssumption), heap' \subseteq Var,
         UNCHANGED << input, read, ok, db, qhead, visit, confl, problemVariable, inTheHeap, model,
                      activeModel, assumption, pending, pc, answer, frames, calls >>
  PROVE  SoundInv'
<1>0. Models' = Models /\ (Glucose' <=> Glucose)
  BY SameInput
<1>1. /\ Shape(trail', lim') /\ Reasoned(trail', lim', Models) /\ Assumed(trail', lim', assumption)
      /\ lim'[Len(lim')] = Len(trail) /\ Len(trail') = Len(trail) + 1
  BY NewLevel DEF Extends
<1>2. TrailRight' /\ DbRight' /\ QueueRight' /\ ConflRight'
  BY <1>0, <1>1, Basics DEF SoundInv, TrailRight, DbRight, QueueRight, ConflRight, Ready, Quiet
<1>3. TypesRight' /\ PcRight'
  BY <1>0 DEF SoundInv, TypesRight, PcRight, Ready
<1> QED
  BY <1>2, <1>3 DEF SoundInv

LEMMA AssumeSound ==
  ASSUME SoundInv, Assume
  PROVE  SoundInv'
<1> USE DEF Assume, loaded, propagation, order, caller
<1> DEFINE l == assumption[NextAssumption]
<1>1. l \in Lit
  BY NextFacts, Basics, ElementOfSeq
<1>2. l \notin LitsOf(trail) /\ -l \notin LitsOf(trail)
  BY TrailLitsOf DEF Undef
<1>3. heap' \subseteq Var
  BY DEF SoundInv, TypesRight
<1> QED
  BY <1>1, <1>2, <1>3, NewLevelSound

LEMMA DecideFacts ==
  ASSUME SoundInv, Decide
  PROVE  \E v \in Candidates : \E l \in {v, -v} :
           /\ v \in Var /\ l \in Lit /\ l \notin LitsOf(trail) /\ -l \notin LitsOf(trail)
           /\ trail' = Enqueue(trail, l, {}, NextAssumption)
           /\ heap' = Candidates \ {v}
<1>1. PICK v \in Candidates : \E l \in {v, -v} :
        /\ trail' = Enqueue(trail, l, {}, Len(Levels(NextAssumption)) + 1)
        /\ heap' = Candidates \ {v}
  BY DEF Decide
<1>2. PICK l \in {v, -v} :
        /\ trail' = Enqueue(trail, l, {}, Len(Levels(NextAssumption)) + 1)
        /\ heap' = Candidates \ {v}
  BY <1>1
<1>3. v \in Var /\ Undef(v)
  BY <1>1 DEF Candidates, SoundInv, TypesRight
<1>4. v \in Lit /\ -v \in Lit /\ -(-v) = v
  BY <1>3, VarIsLit, LitFacts
<1>5. l \in Lit /\ l \notin LitsOf(trail) /\ -l \notin LitsOf(trail)
  BY <1>2, <1>3, <1>4, TrailLitsOf DEF Undef
<1>6. Len(Levels(NextAssumption)) + 1 = NextAssumption
  BY NextLevels, NextFacts
<1> QED
  BY <1>1, <1>2, <1>3, <1>5, <1>6

LEMMA DecideSound ==
  ASSUME SoundInv, Decide
  PROVE  SoundInv'
<1>1. PICK v \in Candidates : \E l \in {v, -v} :
        /\ v \in Var /\ l \in Lit /\ l \notin LitsOf(trail) /\ -l \notin LitsOf(trail)
        /\ trail' = Enqueue(trail, l, {}, NextAssumption)
        /\ heap' = Candidates \ {v}
  BY DecideFacts
<1>2. PICK l \in {v, -v} :
        /\ l \in Lit /\ l \notin LitsOf(trail) /\ -l \notin LitsOf(trail)
        /\ trail' = Enqueue(trail, l, {}, NextAssumption)
        /\ heap' = Candidates \ {v}
  BY <1>1
<1>3. /\ Ready /\ NextAssumption > Len(assumption)
      /\ lim' = Append(Levels(NextAssumption), Len(trail))
      /\ UNCHANGED << input, read, ok, db, qhead, visit, confl, problemVariable, inTheHeap, model,
                      activeModel, assumption, pending, pc, answer, frames, calls >>
  BY DEF Decide, loaded, propagation, caller
<1>4. heap' \subseteq Var
  BY <1>2 DEF Candidates, SoundInv, TypesRight
<1>5. ~(NextAssumption <= Len(assumption))
  BY <1>3, NextFacts, Basics
<1> QED
  BY <1>2, <1>3, <1>4, <1>5, NewLevelSound

LEMMA FailedAssumption ==
  ASSUME SoundInv, NextAssumption <= Len(assumption), -assumption[NextAssumption] \in TrailLits,
         NEW p, p = Levels(NextAssumption)
  PROVE  /\ Shape(trail, p) /\ Reasoned(trail, p, Models) /\ Assumed(trail, p, assumption)
         /\ Len(p) = NextAssumption - 1 /\ Len(p) < Len(assumption)
         /\ Len(p) > 0 /\ qhead = Len(trail) => p[Len(p)] <= qhead
         /\ ~Sat(Models, assumption)
         /\ assumption[NextAssumption] \in Lit
<1> DEFINE N == NextAssumption
           l == assumption[N]
<1>1. N \in Nat /\ N > Len(lim) /\ Len(lim) \in Nat
  BY NextFacts, Basics
<1>3. l \in Lit /\ N \in DOMAIN assumption
  BY <1>1, Basics, ElementOfSeq
<1>4. /\ Shape(trail, p) /\ Reasoned(trail, p, Models) /\ Assumed(trail, p, assumption)
      /\ Len(p) = N - 1
      /\ Len(p) > 0 /\ qhead = Len(trail) => p[Len(p)] <= qhead
  BY NextLevels
<1>5. Len(p) <= Len(assumption) /\ Len(p) < Len(assumption)
  BY <1>1, <1>4, Basics
<1>6. ASSUME NEW A \in Models, ToSet(assumption) \subseteq A PROVE FALSE
  <2>1. LitsOf(trail) \subseteq A
    BY <1>4, <1>5, <1>6, AssumptionsImply, Basics
  <2>2. l \in A /\ -l \in A
    BY <1>3, <1>6, <2>1, TrailLitsOf DEF ToSet
  <2> QED
    BY <1>3, <2>2, ModelsTotal, TotalLit
<1> QED
  BY <1>3, <1>4, <1>5, <1>6 DEF Sat

LEMMA AssumptionFailsSound ==
  ASSUME SoundInv, AssumptionFails
  PROVE  SoundInv'
<1> DEFINE p == assumption[NextAssumption]
<1>0. /\ Models' = Models /\ (Glucose' <=> Glucose)
      /\ UNCHANGED << input, read, ok, visit, confl, problemVariable, inTheHeap, model, assumption >>
      /\ pc = "search" /\ visit = {} /\ qhead = Len(trail) /\ confl = {}
      /\ NextAssumption <= Len(assumption) /\ -p \in TrailLits
      /\ IF Glucose \/ Blamed(p) # {}
         THEN /\ lim' = Levels(NextAssumption)
              /\ UNCHANGED << trail, qhead, heap >>
         ELSE CancelUntil(0)
      /\ db' = IF Glucose \/ Blamed(p) = {} THEN db ELSE db \cup {FinalClause(p)}
      /\ Answer(FALSE, trail)
  BY SameInput DEF AssumptionFails, loaded, Ready, Quiet
<1>1. /\ Shape(trail, Levels(NextAssumption)) /\ Reasoned(trail, Levels(NextAssumption), Models)
      /\ Assumed(trail, Levels(NextAssumption), assumption)
      /\ Len(Levels(NextAssumption)) < Len(assumption) /\ Len(Levels(NextAssumption)) = NextAssumption - 1
      /\ Len(Levels(NextAssumption)) > 0 => Levels(NextAssumption)[Len(Levels(NextAssumption))] <= qhead
      /\ ~Sat(Models, assumption) /\ p \in Lit
  BY <1>0, FailedAssumption
<1>2. /\ frames' \in Seq(Frames) /\ Len(frames') = Len(frames) /\ (frames = << >> <=> frames' = << >>)
      /\ frames = << >> => activeModel' = activeModel
      /\ frames # << >> => activeModel' = FALSE
      /\ answer' = FALSE /\ pc' = "answered" /\ pending' = pending /\ calls' = calls
  BY <1>0, AnswerFacts, Basics, SeqFacts
<1>3. activeModel' = FALSE
  BY <1>0, <1>2 DEF SoundInv, PcRight, TypesRight
<1>4. DbRight'
  <2>1. Blamed(p) # {} => Attachable(FinalClause(p), Models)
    BY <1>0, <1>1, FinalClauseFacts, Basics
  <2> QED
    BY <1>0, <2>1 DEF SoundInv, DbRight
<1>5. /\ Shape(trail', lim') /\ Reasoned(trail', lim', Models) /\ Assumed(trail', lim', assumption)
      /\ qhead' = Len(trail') /\ qhead' \in Nat /\ Len(lim') <= Len(assumption)
      /\ Len(lim') > 0 => lim'[Len(lim')] <= qhead'
      /\ heap' \subseteq Var
  <2>1. CASE Glucose \/ Blamed(p) # {}
    <3>1. lim' = Levels(NextAssumption) /\ trail' = trail /\ qhead' = qhead /\ heap' = heap
      BY <1>0, <2>1
    <3>2. heap' \subseteq Var
      BY <3>1 DEF SoundInv, TypesRight
    <3>3. Len(lim') <= Len(assumption)
      BY <1>1, <3>1, NextFacts, Basics
    <3> QED
      BY <1>0, <1>1, <3>1, <3>2, <3>3, Basics
  <2>2. CASE ~(Glucose \/ Blamed(p) # {})
    <3>1. CancelUntil(0)
      BY <1>0, <2>2
    <3>2. trail' = KeptTrail(0) /\ lim' = KeptLim(0) /\ heap' = PutBack(0)
          /\ qhead' = IF Level > 0 THEN lim[0 + 1] ELSE qhead
      BY <3>1 DEF CancelUntil
    <3>3. /\ Shape(trail', lim') /\ Reasoned(trail', lim', Models) /\ Assumed(trail', lim', assumption)
          /\ qhead' \in 0 .. Len(trail') /\ Len(lim') \in Nat /\ Len(lim') <= 0
          /\ Len(lim') > 0 => lim'[Len(lim')] <= qhead'
          /\ qhead' = Len(trail')
          /\ heap' \subseteq Var
      BY <1>0, <3>2, CutFacts
    <3> QED
      BY <3>3, Basics
  <2> QED
    BY <2>1, <2>2
<1>6. TrailRight' /\ ConflRight'
  BY <1>0, <1>5 DEF TrailRight, ConflRight
<1>7. QueueRight'
  BY <1>0, <1>5 DEF QueueRight
<1>8. TypesRight'
  BY <1>0, <1>2, <1>3, <1>5 DEF SoundInv, TypesRight
<1>9. PcRight'
  BY <1>0, <1>1, <1>2, <1>3, <1>5 DEF SoundInv, PcRight, Still
<1> QED
  BY <1>4, <1>6, <1>7, <1>8, <1>9 DEF SoundInv

(* A model, with a level for every assumption again. *)
LEMMA ModelFoundTrail ==
  ASSUME SoundInv, ModelFound
  PROVE  /\ Shape(trail', lim') /\ Reasoned(trail', lim', Models) /\ Assumed(trail', lim', assumption)
         /\ qhead' = Len(trail') /\ qhead' \in Nat /\ Len(lim') = Len(assumption)
         /\ Len(lim') > 0 => lim'[Len(lim')] <= qhead'
         /\ Cuts(trail, lim, Len(assumption), trail', KeptLim(Len(assumption)))
         /\ heap' \subseteq Var
         /\ ToSet(assumption) \subseteq LitsOf(trail')
<1> DEFINE k == Len(assumption)
<1>0. /\ visit = {} /\ qhead = Len(trail) /\ NextAssumption > k
      /\ lim' = KeptLim(k) \o [x \in 1 .. k - Level |-> Len(trail)]
      /\ trail' = KeptTrail(k) /\ qhead' = Len(trail') /\ heap' = PutBack(k)
  BY DEF ModelFound, Ready, Quiet, KeptAfterModel
<1>1. k \in Nat /\ Len(lim) \in Nat /\ Level = Len(lim) /\ lim \in Seq(Nat)
  BY Basics DEF Shape
<1>2. /\ Shape(trail', KeptLim(k)) /\ Reasoned(trail', KeptLim(k), Models)
      /\ Assumed(trail', KeptLim(k), assumption)
      /\ Cuts(trail, lim, k, trail', KeptLim(k)) /\ heap' \subseteq Var
      /\ Len(KeptLim(k)) \in Nat /\ Len(KeptLim(k)) <= k
  <2>1. PICK j \in Nat : j = k
    BY <1>1
  <2>2. PICK q : q = IF Level > j THEN lim[j + 1] ELSE qhead
    OBVIOUS
  <2>3. trail' = KeptTrail(j) /\ heap' = PutBack(j)
    BY <1>0, <2>1
  <2>4. /\ Shape(trail', KeptLim(j)) /\ Reasoned(trail', KeptLim(j), Models)
        /\ Assumed(trail', KeptLim(j), assumption)
        /\ Cuts(trail, lim, j, trail', KeptLim(j)) /\ heap' \subseteq Var
        /\ Len(KeptLim(j)) \in Nat /\ Len(KeptLim(j)) <= j
    BY <2>2, <2>3, CutFacts
  <2> QED
    BY <2>1, <2>4
<1>3. /\ Shape(trail', lim') /\ Reasoned(trail', lim', Models) /\ Assumed(trail', lim', assumption)
      /\ Len(lim') = k
  <2>1. CASE Len(lim) >= k
    <3>1. 1 .. k - Level = {}
      BY <1>1, <2>1
    <3>2. [x \in 1 .. k - Level |-> Len(trail)] = << >>
      BY <3>1
    <3>3. KeptLim(k) \in Seq(Nat)
      BY <1>2 DEF Shape
    <3>4. lim' = KeptLim(k)
      BY <1>0, <3>2, <3>3, ConcatEmptySeq
    <3>5. Len(KeptLim(k)) = k
      BY <1>1, <1>2, <2>1 DEF Cuts
    <3> QED
      BY <1>2, <3>4, <3>5
  <2>2. CASE Len(lim) < k
    <3>1. trail' = trail /\ KeptLim(k) = lim
      BY <1>0, <1>1, <2>2 DEF KeptTrail, KeptLim
    <3>2. k - Len(lim) \in Nat /\ lim' = lim \o [x \in 1 .. k - Len(lim) |-> Len(trail)]
      BY <1>0, <1>1, <2>2, <3>1
    <3>3. Len(lim) + (k - Len(lim)) = k
      BY <1>1
    <3>4. \A j \in Len(lim) + 1 .. Len(lim) + (k - Len(lim)) :
            j <= k => assumption[j] \in LitsOf(trail)
      BY <1>0, <1>1, <3>3, NextFacts
    <3>5. /\ Shape(trail, lim') /\ Reasoned(trail, lim', Models) /\ Assumed(trail, lim', assumption)
          /\ Len(lim') = Len(lim) + (k - Len(lim))
      BY <3>2, <3>4, OpenedRight
    <3> QED
      BY <3>1, <3>3, <3>5
  <2> QED
    BY <1>1, <2>1, <2>2
<1>4. qhead' \in Nat /\ DOMAIN lim' = 1 .. Len(lim')
  BY <1>0, <1>3, ShapeFacts
<1>5. Len(lim') > 0 => lim'[Len(lim')] <= qhead'
  <2>1. \A j \in DOMAIN lim' : lim'[j] <= Len(trail')
    BY <1>3 DEF Shape
  <2>2. Len(lim') \in Nat
    BY <1>1, <1>3
  <2>3. Len(lim') > 0 => Len(lim') \in DOMAIN lim'
    BY <1>4, <2>2
  <2> QED
    BY <1>0, <2>1, <2>3
<1>6. ToSet(assumption) \subseteq LitsOf(trail')
  <2> SUFFICES ASSUME NEW j \in 1 .. k PROVE assumption[j] \in LitsOf(trail')
    BY Basics DEF ToSet
  <2>1. j \in DOMAIN lim' /\ j <= k
    BY <1>3, <1>4
  <2> QED
    BY <2>1, <1>3, LitsOfAt DEF Assumed
<1> QED
  BY <1>0, <1>2, <1>3, <1>4, <1>5, <1>6

LEMMA ModelFoundSound ==
  ASSUME SoundInv, ModelFound
  PROVE  SoundInv'
<1>0. /\ Models' = Models /\ (Glucose' <=> Glucose)
      /\ UNCHANGED << input, read, ok, db, visit, confl, problemVariable, inTheHeap, assumption >>
      /\ pc = "search" /\ visit = {} /\ confl = {}
      /\ model' = Model /\ Answer(TRUE, trail')
  BY SameInput DEF ModelFound, loaded, Ready, Quiet
<1>1. /\ Shape(trail', lim') /\ Reasoned(trail', lim', Models) /\ Assumed(trail', lim', assumption)
      /\ qhead' = Len(trail') /\ qhead' \in Nat /\ Len(lim') = Len(assumption)
      /\ Len(lim') > 0 => lim'[Len(lim')] <= qhead'
      /\ heap' \subseteq Var
  BY ModelFoundTrail
<1>2. LitsOf(trail') \subseteq Lit
  BY <1>1, ShapeFacts
<1>3. /\ frames' \in Seq(Frames) /\ Len(frames') = Len(frames) /\ (frames = << >> <=> frames' = << >>)
      /\ frames = << >> => activeModel' = activeModel
      /\ frames # << >> => activeModel' = TRUE
      /\ answer' = TRUE /\ pc' = "answered" /\ pending' = pending /\ calls' = calls
  BY <1>0, <1>2, AnswerFacts, SeqFacts
<1>4. model' \subseteq Lit
  <2>1. model \subseteq Lit /\ TrailLits \subseteq Lit
    BY Basics DEF SoundInv, TypesRight
  <2> QED
    BY <1>0, <2>1 DEF Model
<1>5. TypesRight'
  BY <1>0, <1>1, <1>3, <1>4 DEF SoundInv, TypesRight
<1>6. TrailRight' /\ DbRight' /\ ConflRight'
  BY <1>0, <1>1 DEF SoundInv, TrailRight, DbRight, ConflRight
<1>7. QueueRight'
  BY <1>0, <1>1 DEF QueueRight
<1>8. PcRight'
  BY <1>0, <1>1, <1>3, Basics DEF SoundInv, PcRight, Still
<1> QED
  BY <1>5, <1>6, <1>7, <1>8 DEF SoundInv

------------------------------------------------------------------------------
(* The wrapper and its caller *)

(* While the caller may act, propagation has come to its end. *)
AskQuiet == pc = "ask" /\ Glucose => confl = {}

LEMMA QuietAtEnd ==
  ASSUME SoundInv, AskQuiet, pc = "ask", Quiet
  PROVE  visit = {} /\ qhead = Len(trail)
<1>1. visit = {} /\ (confl # {} \/ qhead = Len(trail))
  BY DEF Quiet
<1>2. confl # {} => ~Glucose
  BY DEF AskQuiet
<1>3. confl # {} /\ ~Glucose => qhead = Len(trail)
  BY DEF SoundInv, QueueRight
<1> QED
  BY <1>1, <1>2, <1>3

LEMMA SolveSound ==
  ASSUME SoundInv, AskQuiet, Solve
  PROVE  SoundInv'
<1>0. /\ Models' = Models /\ (Glucose' <=> Glucose) /\ (QuickExit' <=> QuickExit)
      /\ UNCHANGED << input, read, ok, db, trail, lim, qhead, visit, activeModel,
                      assumption, pending, answer, frames >>
      /\ pc = "ask" /\ Quiet /\ pending = << >> /\ confl' = {} /\ calls' = calls + 1
      /\ pc' = IF QuickExit \/ ~ok THEN "return" ELSE "search"
  BY SameInput DEF Solve, loaded, QuickExit
<1>1. visit = {} /\ qhead = Len(trail)
  BY <1>0, QuietAtEnd
<1>2. /\ problemVariable' \subseteq Var /\ inTheHeap' \subseteq Var /\ heap' \subseteq Var
      /\ model' \subseteq Lit
  <2>1. /\ problemVariable \subseteq Var /\ inTheHeap \subseteq Var /\ heap \subseteq Var
        /\ model \subseteq Lit
    BY DEF SoundInv, TypesRight
  <2>2. CASE QuickExit
    BY <2>1, <2>2 DEF Solve, order
  <2>3. CASE ~QuickExit
    <3> DEFINE vars == IF frames = << >> THEN Var ELSE frames[1].vars
    <3>1. vars \subseteq Var
      <4>1. frames # << >> => frames[1] \in Frames
        BY SeqFacts
      <4> QED
        BY <4>1 DEF Frames
    <3>2. /\ problemVariable' = IF frames = << >> THEN {v \in vars : Undef(v)} ELSE vars
          /\ inTheHeap' = {v \in vars : Undef(v)} /\ heap' = {v \in vars : Undef(v)}
          /\ model' = IF Glucose THEN {} ELSE model
      BY <2>3 DEF Solve
    <3> HIDE DEF vars
    <3> QED
      BY <2>1, <3>1, <3>2
  <2> QED
    BY <2>2, <2>3
<1>3. TypesRight'
  BY <1>0, <1>2 DEF SoundInv, TypesRight
<1>4. TrailRight' /\ DbRight' /\ QueueRight' /\ ConflRight'
  BY <1>0, <1>1 DEF SoundInv, TrailRight, DbRight, QueueRight, ConflRight
<1>5. PcRight'
  BY <1>0, <1>1 DEF SoundInv, PcRight, Still
<1> QED
  BY <1>3, <1>4, <1>5 DEF SoundInv

LEMMA SolveAtOnceSound ==
  ASSUME SoundInv, SolveAtOnce
  PROVE  SoundInv'
<1>0. /\ Models' = Models /\ (Glucose' <=> Glucose)
      /\ UNCHANGED << input, read, ok, db, trail, lim, qhead, visit, confl, problemVariable,
                      inTheHeap, heap, model, assumption >>
      /\ pc = "return" /\ Answer(QuickExit, trail) /\ QuickExit \in BOOLEAN
  BY SameInput DEF SolveAtOnce, loaded, propagation, order, QuickExit
<1>1. /\ frames' \in Seq(Frames) /\ Len(frames') = Len(frames) /\ (frames = << >> <=> frames' = << >>)
      /\ frames = << >> => activeModel' = activeModel
      /\ frames # << >> => activeModel' = QuickExit
      /\ answer' = QuickExit /\ pc' = "answered" /\ pending' = pending /\ calls' = calls
  BY <1>0, AnswerFacts, Basics, SeqFacts
<1>2. QuickExit => activeModel /\ frames # << >>
  BY DEF QuickExit
<1>3. ~QuickExit => ~Sat(Models, assumption)
  BY <1>0 DEF SoundInv, PcRight, DbRight, Sat
<1>4. TypesRight'
  BY <1>0, <1>1 DEF SoundInv, TypesRight
<1>5. TrailRight' /\ DbRight' /\ QueueRight' /\ ConflRight'
  BY <1>0 DEF SoundInv, TrailRight, DbRight, QueueRight, ConflRight
<1>6. PcRight'
  BY <1>0, <1>1, <1>2, <1>3 DEF SoundInv, PcRight, Still
<1> QED
  BY <1>4, <1>5, <1>6 DEF SoundInv

LEMMA PushAssumptionSound ==
  ASSUME SoundInv, AskQuiet, PushAssumption
  PROVE  SoundInv'
<1> DEFINE l == Head(pending)
           more == Append(assumption, l)
<1>0. /\ Models' = Models /\ (Glucose' <=> Glucose)
      /\ UNCHANGED << input, read, ok, db, qhead, visit, problemVariable, inTheHeap, heap, model,
                      pc, answer, frames, calls >>
      /\ pc = "ask" /\ Quiet /\ pending # << >> /\ confl' = {} /\ pending' = Tail(pending)
      /\ assumption' = more /\ activeModel' = StillActive(l)
      /\ lim' = IF StillActive(l) THEN Append(lim, Len(trail)) ELSE lim
      /\ trail' = IF StillActive(l) THEN Enqueue(trail, l, {}, Level + 1) ELSE trail
  BY SameInput DEF PushAssumption, loaded, order
<1>1. visit = {} /\ qhead = Len(trail)
  BY <1>0, QuietAtEnd
<1>2. /\ l \in Lit /\ Tail(pending) \in Seq(Lit)
      /\ Len(Tail(pending)) = Len(pending) - 1 /\ Len(pending) > 0
  BY <1>0, SeqFacts, HeadTailProperties
<1>3. Len(lim) <= Len(assumption) /\ (activeModel => Len(lim) = Len(assumption))
  BY <1>0 DEF SoundInv, PcRight
<1>4. Assumed(trail, lim, more) /\ more \in Seq(Lit) /\ Len(more) = Len(assumption) + 1
  BY <1>2, <1>3, MoreAssumed, Basics
<1>5. more[Len(assumption) + 1] = l
  BY <1>2, Basics, AppendProperties
<1> HIDE DEF l, more
<1>6. StillActive(l) \in BOOLEAN
  BY DEF StillActive
<1>7. /\ Shape(trail', lim') /\ Reasoned(trail', lim', Models) /\ Assumed(trail', lim', more)
      /\ Len(trail) <= Len(trail') /\ Len(trail') \in Nat
      /\ Len(lim') > 0 => lim'[Len(lim')] <= qhead
      /\ Len(lim') <= Len(more)
      /\ StillActive(l) => Len(lim') = Len(more)
  <2>1. CASE StillActive(l)
    <3>1. l \notin LitsOf(trail) /\ -l \notin LitsOf(trail) /\ activeModel
      BY <2>1, TrailLitsOf DEF StillActive, Undef
    <3>2. PICK k \in Nat : k = Len(lim) + 1
      BY Basics
    <3>3. Standing(trail, lim, Models, more)
      BY <1>4, Basics DEF Standing
    <3>4. Opener(more, k, l)
      BY <1>3, <1>5, <3>1, <3>2 DEF Opener
    <3>5. Len(lim) < k /\ k <= Len(lim) + 1
      BY <3>2, Basics
    <3>6. lim' = Append(lim, Len(trail)) /\ trail' = Enqueue(trail, l, {}, k)
      BY <1>0, <2>1, <3>2 DEF Level
    <3>7. Standing(trail', lim', Models, more) /\ NewTop(trail, trail', lim', l, k)
      BY <1>2, <1>4, <3>1, <3>3, <3>4, <3>5, <3>6, DecideRight
    <3>8. Len(lim') = k /\ lim'[Len(lim')] = Len(trail) /\ Len(trail') = Len(trail) + 1
      BY <3>7 DEF NewTop, Extends
    <3>9. Len(lim') = Len(more)
      BY <1>3, <1>4, <3>1, <3>2, <3>8
    <3> QED
      BY <1>1, <3>7, <3>8, <3>9, Basics DEF Standing
  <2>2. CASE ~StillActive(l)
    <3>1. trail' = trail /\ lim' = lim
      BY <1>0, <2>2
    <3>a. Len(lim) \in Nat /\ Len(assumption) \in Nat /\ Len(trail) \in Nat
      BY Basics
    <3>2. Len(lim) <= Len(more) /\ Len(trail) <= Len(trail)
      BY <1>3, <1>4, <3>a
    <3>3. /\ Shape(trail, lim) /\ Reasoned(trail, lim, Models) /\ Len(trail) \in Nat
          /\ Len(lim) > 0 => lim[Len(lim)] <= qhead
      BY Basics
    <3> QED
      BY <1>4, <2>2, <3>1, <3>2, <3>3
  <2> QED
    BY <2>1, <2>2
<1>8. TypesRight'
  BY <1>0, <1>2, <1>4, <1>6 DEF SoundInv, TypesRight
<1>9. TrailRight'
  BY <1>0, <1>7 DEF TrailRight
<1>10. DbRight' /\ ConflRight'
  BY <1>0 DEF SoundInv, DbRight, ConflRight
<1>11. QueueRight'
  BY <1>0, <1>1, <1>7, Basics DEF QueueRight
<1>12. Len(frames) <= Len(more) + Len(Tail(pending)) + 1
  <2>1. Len(frames) <= Len(assumption) + Len(pending) + 1
    BY DEF SoundInv, PcRight
  <2> QED
    BY <1>2, <1>4, <2>1, SeqFacts, Basics
<1>13. frames = << >> => ~StillActive(l)
  BY <1>0 DEF SoundInv, PcRight, StillActive
<1>14. PcRight'
  BY <1>0, <1>7, <1>12, <1>13 DEF PcRight
<1> QED
  BY <1>8, <1>9, <1>10, <1>11, <1>14 DEF SoundInv

LEMMA PopFacts ==
  ASSUME SoundInv, NEW n \in 0 .. Len(assumption), PopAssumption(n)
  PROVE  /\ Shape(trail', lim') /\ Reasoned(trail', lim', Models) /\ Assumed(trail', lim', assumption')
         /\ assumption' \in Seq(Lit) /\ Len(assumption') = Len(assumption) - n
         /\ Cuts(trail, lim, Len(assumption) - n, trail', lim')
         /\ Prefix(assumption', assumption, Len(assumption) - n)
         /\ qhead' \in 0 .. Len(trail') /\ (qhead = Len(trail) => qhead' = Len(trail'))
         /\ Len(lim') \in Nat /\ Len(lim') <= Len(assumption')
         /\ Len(lim') > 0 => lim'[Len(lim')] <= qhead'
         /\ heap' \subseteq Var
         /\ Len(lim) = Len(assumption) => Len(lim') = Len(assumption')
<1>a. Len(assumption) \in Nat /\ assumption \in Seq(Lit)
  BY Basics
<1>b. Len(assumption) - n \in Nat
  BY <1>a
<1>1. PICK k \in Nat : k = Len(assumption) - n
  BY <1>b
<1>2. /\ trail' = KeptTrail(k) /\ lim' = KeptLim(k) /\ heap' = PutBack(k)
      /\ qhead' = IF Level > k THEN lim[k + 1] ELSE qhead
      /\ assumption' = SubSeq(assumption, 1, k)
  BY <1>1 DEF PopAssumption, CancelUntil
<1>3. /\ Shape(trail', lim') /\ Reasoned(trail', lim', Models) /\ Assumed(trail', lim', assumption)
      /\ Cuts(trail, lim, k, trail', lim')
      /\ qhead' \in 0 .. Len(trail') /\ Len(lim') \in Nat /\ Len(lim') <= k
      /\ Len(lim') > 0 => lim'[Len(lim')] <= qhead'
      /\ qhead = Len(trail) => qhead' = Len(trail')
      /\ heap' \subseteq Var
  BY <1>2, CutFacts
<1>4. k \in 0 .. Len(assumption)
  BY <1>1, <1>a
<1>5. /\ Assumed(trail', lim', assumption') /\ assumption' \in Seq(Lit) /\ Len(assumption') = k
      /\ Prefix(assumption', assumption, k)
  <2>1. Prefix(assumption', assumption, k)
    BY <1>2, <1>4, <1>a, PrefixOf
  <2> QED
    BY <1>3, <1>a, <2>1, FewerAssumed DEF Prefix
<1>6. Len(lim) = Len(assumption) => Len(lim') = k
  <2>1. CASE Len(lim) > k
    BY <1>3, <2>1 DEF Cuts
  <2>2. CASE ~(Len(lim) > k)
    <3>1. lim' = lim
      BY <1>3, <2>2, Basics DEF Cuts
    <3> QED
      BY <1>4, <2>2, <3>1, Basics
  <2> QED
    BY <2>1, <2>2
<1> QED
  BY <1>1, <1>3, <1>5, <1>6

LEMMA SetAssumptionSound ==
  ASSUME SoundInv, Quiet, confl = {}, NEW assums \in Seq(Lit), SetAssumption(assums),
         frames' \in Seq(Frames), Len(frames') <= 1,
         frames' = << >> => ~activeModel
  PROVE  SoundInv'
<1>0. /\ Models' = Models /\ (Glucose' <=> Glucose)
      /\ UNCHANGED << input, read, ok, db, visit, confl, problemVariable, inTheHeap,
                      model, activeModel, answer, calls >>
      /\ PopAssumption(Len(assumption)) /\ pending' = assums /\ pc' = "ask"
      /\ visit = {} /\ qhead = Len(trail)
  BY SameInput DEF SetAssumption, loaded, Quiet
<1>1. Len(assumption) \in 0 .. Len(assumption)
  BY Basics
<1>2. /\ Shape(trail', lim') /\ Reasoned(trail', lim', Models) /\ Assumed(trail', lim', assumption')
      /\ assumption' \in Seq(Lit) /\ Len(assumption') = Len(assumption) - Len(assumption)
      /\ qhead' \in 0 .. Len(trail')
      /\ Len(lim') \in Nat /\ Len(lim') <= Len(assumption')
      /\ Len(lim') > 0 => lim'[Len(lim')] <= qhead'
      /\ heap' \subseteq Var
  BY <1>0, <1>1, PopFacts
<1>3. Len(assumption') = 0 /\ Len(lim') = 0
  BY <1>2, Basics
<1>4. Len(frames') <= Len(assumption') + Len(pending') + 1
  <2>1. Len(pending') \in Nat /\ Len(frames') \in Nat
    BY <1>0, LenProperties
  <2> QED
    BY <1>3, <2>1
<1>5. TypesRight'
  BY <1>0, <1>2 DEF SoundInv, TypesRight
<1>6. TrailRight'
  BY <1>0, <1>2 DEF TrailRight
<1>7. DbRight' /\ ConflRight'
  BY <1>0 DEF SoundInv, DbRight, ConflRight
<1>8. QueueRight'
  BY <1>0, <1>2 DEF QueueRight
<1>9. PcRight'
  BY <1>0, <1>2, <1>3, <1>4 DEF PcRight
<1> QED
  BY <1>5, <1>6, <1>7, <1>8, <1>9 DEF SoundInv

LEMMA StillQuiet ==
  ASSUME SoundInv, pc \in {"return", "answered", "back", "done", "unsat"}
  PROVE  Quiet /\ confl = {} /\ qhead = Len(trail) /\ visit = {}
  BY DEF SoundInv, PcRight, Still, Quiet

LEMMA OneFrame ==
  ASSUME NEW S \in SUBSET Var
  PROVE  << Frame(S) >> \in Seq(Frames) /\ Len(<< Frame(S) >>) = 1 /\ << Frame(S) >> # << >>
<1>1. Frame(S) \in Frames
  BY DEF Frame, Frames
<1> QED
  BY <1>1

LEMMA LoadedSound ==
  ASSUME SoundInv, Loaded \/ WarmQuery \/ WarmDone \/ Count
  PROVE  SoundInv'
<1>1. frames \in Seq(Frames) /\ (frames = << >> => Len(frames) <= 1)
  BY SeqFacts
<1>e. << >> \in Seq(Lit)
  BY EmptySeq
<1>2. CASE Loaded
  <2>1. Quiet /\ confl = {} /\ SetAssumption(<< >>) /\ frames' = frames /\ pc = "add"
    BY <1>2 DEF Loaded
  <2>2. frames = << >> /\ ~activeModel
    BY <2>1 DEF SoundInv, PcRight
  <2> QED
    BY <1>1, <1>e, <2>1, <2>2, SetAssumptionSound
<1>3. CASE WarmQuery
  <2>1. pc = "answered" /\ frames = << >> /\ frames' = frames
    BY <1>3 DEF WarmQuery, Warm
  <2>2. PICK q \in Queries : SetAssumption(q)
    BY <1>3 DEF WarmQuery
  <2>3. q \in Seq(Lit)
    BY SolverAssumption
  <2>4. ~activeModel
    BY <2>1 DEF SoundInv, PcRight
  <2>5. Quiet /\ confl = {}
    BY <2>1, StillQuiet
  <2> QED
    BY <1>1, <2>1, <2>2, <2>3, <2>4, <2>5, SetAssumptionSound
<1>4. CASE WarmDone
  <2>1. pc = "answered" /\ frames' = << Frame(Var) >> /\ SetAssumption(<< >>)
    BY <1>4 DEF WarmDone, Warm
  <2>2. frames' \in Seq(Frames) /\ Len(frames') <= 1 /\ frames' # << >>
    BY <2>1, OneFrame
  <2>3. Quiet /\ confl = {}
    BY <2>1, StillQuiet
  <2> QED
    BY <1>e, <2>1, <2>2, <2>3, SetAssumptionSound
<1>5. CASE Count
  <2>1. PICK call \in CountCalls : SetAssumption(call.assums) /\ frames' = << Frame(call.vars) >>
    BY <1>5 DEF Count
  <2>2. call.assums \in Seq(Lit) /\ call.vars \in SUBSET Var
    BY SolverAssumption
  <2>3. frames' \in Seq(Frames) /\ Len(frames') <= 1 /\ frames' # << >>
    BY <2>1, <2>2, OneFrame
  <2>4. Quiet /\ confl = {}
    BY <1>5, StillQuiet DEF Count
  <2> QED
    BY <2>1, <2>2, <2>3, <2>4, SetAssumptionSound
<1> QED
  BY <1>2, <1>3, <1>4, <1>5

LEMMA DeeperFacts ==
  ASSUME SoundInv, Deeper
  PROVE  \E comp \in SUBSET Var, l \in Lit :
           /\ comp \in Components \cup {frames[1].vars}
           /\ VarOf(l) \in comp
           /\ frames' = << Frame(comp) >> \o frames
           /\ frames' \in Seq(Frames) /\ Len(frames') = Len(frames) + 1
           /\ frames'[1] = Frame(comp)
           /\ \A x \in DOMAIN frames : frames'[x + 1] = frames[x]
           /\ pending' = << l >> /\ pending' \in Seq(Lit) /\ Len(pending') = 1
<1>1. PICK comp \in Components \cup {frames[1].vars}, l \in Lit :
        /\ VarOf(l) \in comp \ VarsOf(ToSet(assumption))
        /\ frames' = << Frame(comp) >> \o frames
        /\ pending' = << l >>
  BY DEF Deeper
<1>2. frames # << >> /\ frames[1] \in Frames /\ frames[1].vars \subseteq Var
  <2>1. frames # << >>
    BY DEF Deeper
  <2>2. frames[1] \in Frames
    BY <2>1, SeqFacts
  <2> QED
    BY <2>1, <2>2 DEF Frames
<1>3. comp \in SUBSET Var
  BY <1>1, <1>2 DEF Components
<1>4. << Frame(comp) >> \in Seq(Frames) /\ Len(<< Frame(comp) >>) = 1
      /\ << Frame(comp) >>[1] = Frame(comp)
  BY <1>3, OneFrame
<1>5. /\ frames' \in Seq(Frames) /\ Len(frames') = Len(frames) + 1
      /\ frames'[1] = Frame(comp)
      /\ \A x \in DOMAIN frames : frames'[x + 1] = frames[x]
  <2>1. PICK one : one = << Frame(comp) >>
    OBVIOUS
  <2>2. one \in Seq(Frames) /\ Len(one) = 1 /\ one[1] = Frame(comp) /\ frames' = one \o frames
    BY <1>1, <1>4, <2>1
  <2>3. frames \in Seq(Frames) /\ Len(frames) \in Nat /\ DOMAIN frames = 1 .. Len(frames)
    BY SeqFacts
  <2>4. /\ frames' \in Seq(Frames) /\ Len(frames') = 1 + Len(frames)
        /\ \A i \in 1 .. 1 + Len(frames) :
             frames'[i] = IF i <= 1 THEN one[i] ELSE frames[i - 1]
    BY <2>2, <2>3, ConcatProperties
  <2>5. ASSUME NEW x \in DOMAIN frames PROVE frames'[x + 1] = frames[x]
    <3>1. x + 1 \in 1 .. 1 + Len(frames) /\ ~(x + 1 <= 1) /\ (x + 1) - 1 = x
      BY <2>3
    <3> QED
      BY <2>4, <3>1
  <2> QED
    BY <2>2, <2>3, <2>4, <2>5
<1>6. pending' \in Seq(Lit) /\ Len(pending') = 1
  BY <1>1
<1> QED
  BY <1>1, <1>3, <1>5, <1>6

LEMMA DeeperSound ==
  ASSUME SoundInv, Deeper
  PROVE  SoundInv'
<1>0. /\ Models' = Models /\ (Glucose' <=> Glucose)
      /\ UNCHANGED << input, read, ok, db, trail, lim, qhead, visit, confl, problemVariable,
                      inTheHeap, heap, model, activeModel, assumption, answer, calls >>
      /\ pc \in {"answered", "back"} /\ pc' = "ask"
  BY SameInput DEF Deeper, loaded, propagation, order
<1>1. /\ frames' \in Seq(Frames) /\ Len(frames') = Len(frames) + 1
      /\ pending' \in Seq(Lit) /\ Len(pending') = 1
  BY DeeperFacts
<1>2. Len(frames') \in Nat /\ Len(frames') > 0
  BY <1>1, SeqFacts
<1>3. Len(frames') <= Len(assumption) + Len(pending') + 1 /\ frames' # << >>
  <2>1. Len(frames) <= Len(assumption) + Len(pending) + 1 /\ Len(pending) = 0
    BY <1>0, SeqFacts DEF SoundInv, PcRight
  <2> QED
    BY <1>1, <1>2, <2>1, SeqFacts, Basics
<1>4. TypesRight' /\ TrailRight' /\ DbRight' /\ QueueRight' /\ ConflRight'
  BY <1>0, <1>1 DEF SoundInv, TypesRight, TrailRight, DbRight, QueueRight, ConflRight
<1>5. PcRight'
  BY <1>0, <1>3 DEF SoundInv, PcRight
<1> QED
  BY <1>4, <1>5 DEF SoundInv

LEMMA BackSound ==
  ASSUME SoundInv, Back
  PROVE  SoundInv'
<1>0. /\ Models' = Models /\ (Glucose' <=> Glucose)
      /\ UNCHANGED << input, read, ok, db, visit, confl, problemVariable, inTheHeap,
                      model, activeModel, pending, answer, calls >>
      /\ pc \in {"answered", "back"} /\ frames # << >> /\ frames' = Tail(frames)
  BY SameInput DEF Back, loaded
<1>1. visit = {} /\ confl = {} /\ qhead = Len(trail) /\ pending = << >> /\ Len(pending) = 0
  BY <1>0, StillQuiet, SeqFacts DEF SoundInv, PcRight
<1>2. /\ frames' \in Seq(Frames) /\ Len(frames') = Len(frames) - 1
      /\ Len(frames) > 0 /\ Len(frames') \in Nat
  BY <1>0, SeqFacts, HeadTailProperties, LenProperties
<1>3. Len(frames) <= Len(assumption) + 1
  BY <1>1, SeqFacts, Basics DEF SoundInv, PcRight
<1>4. Len(lim) <= Len(assumption) /\ (activeModel => Len(lim) = Len(assumption))
  BY <1>0 DEF SoundInv, PcRight
<1>5. CASE Len(frames) > 1
  <2>1. PopAssumption(1) /\ pc' = "back"
    BY <1>5 DEF Back
  <2>2. 1 \in 0 .. Len(assumption)
    BY <1>3, <1>5, Basics, SeqFacts
  <2>3. /\ Shape(trail', lim') /\ Reasoned(trail', lim', Models) /\ Assumed(trail', lim', assumption')
        /\ assumption' \in Seq(Lit) /\ Len(assumption') = Len(assumption) - 1
        /\ qhead' \in 0 .. Len(trail') /\ qhead' = Len(trail')
        /\ Len(lim') \in Nat /\ Len(lim') <= Len(assumption')
        /\ Len(lim') > 0 => lim'[Len(lim')] <= qhead'
        /\ heap' \subseteq Var
        /\ Len(lim) = Len(assumption) => Len(lim') = Len(assumption')
    BY <1>1, <2>1, <2>2, PopFacts
  <2>4. Len(frames') <= Len(assumption') + Len(pending') + 1 /\ frames' # << >>
    <3>1. Len(pending') = 0 /\ Len(assumption) \in Nat /\ Len(frames) \in Nat
      BY <1>0, <1>1, Basics, SeqFacts
    <3>2. Len(frames') > 0
      BY <1>2, <1>5, <3>1
    <3>3. Len(frames') <= Len(assumption') + Len(pending') + 1
      BY <1>2, <1>3, <2>3, <3>1
    <3> QED
      BY <3>2, <3>3
  <2>5. TypesRight'
    BY <1>0, <1>2, <2>1, <2>3 DEF SoundInv, TypesRight
  <2>6a. TrailRight'
    BY <1>0, <2>3 DEF TrailRight
  <2>6. DbRight' /\ ConflRight'
    BY <1>0, <1>1 DEF SoundInv, DbRight, ConflRight
  <2>7. QueueRight'
    BY <1>0, <1>1, <2>3 DEF SoundInv, QueueRight
  <2>8. PcRight'
    BY <1>0, <1>1, <1>4, <2>1, <2>3, <2>4 DEF PcRight, Still
  <2> QED
    BY <2>5, <2>6, <2>6a, <2>7, <2>8 DEF SoundInv
<1>6. CASE ~(Len(frames) > 1)
  <2>1. pc' = "done" /\ UNCHANGED << assumption, trail, lim, qhead, heap >>
    BY <1>6 DEF Back
  <2>2. Len(frames') = 0 /\ frames' = << >>
    BY <1>2, <1>6, SeqFacts, EmptySeq
  <2>3. TypesRight' /\ TrailRight' /\ DbRight' /\ QueueRight' /\ ConflRight'
    BY <1>0, <1>2, <2>1 DEF SoundInv, TypesRight, TrailRight, DbRight, QueueRight, ConflRight
  <2>4. Len(frames') <= Len(assumption') + Len(pending') + 1
    <3>1. Len(pending') = 0 /\ Len(assumption') \in Nat
      BY <1>0, <1>1, <2>1, Basics
    <3> QED
      BY <2>2, <3>1
  <2>5. PcRight'
    BY <1>0, <1>1, <1>4, <2>1, <2>2, <2>4 DEF PcRight, Still
  <2> QED
    BY <2>3, <2>5 DEF SoundInv
<1> QED
  BY <1>5, <1>6

LEMMA RestSound ==
  ASSUME SoundInv, WarmFails \/ Finished \/ UNCHANGED solverVars
  PROVE  SoundInv'
<1>0. /\ Models' = Models /\ (Glucose' <=> Glucose)
      /\ UNCHANGED << input, read, ok, db, trail, lim, qhead, visit, confl, problemVariable,
                      inTheHeap, heap, model, activeModel, assumption, pending, answer, frames, calls >>
      /\ \/ pc' = pc
         \/ pc = "answered" /\ frames = << >> /\ pc' = "unsat"
  BY SameInput DEF WarmFails, Finished, solverVars, loaded, propagation, order, caller
<1>1. TypesRight' /\ TrailRight' /\ DbRight' /\ QueueRight' /\ ConflRight'
  BY <1>0 DEF SoundInv, TypesRight, TrailRight, DbRight, QueueRight, ConflRight
<1>2. PcRight'
  BY <1>0 DEF SoundInv, PcRight, Still, QuickExit
<1> QED
  BY <1>1, <1>2 DEF SoundInv

LEMMA SoundStep ==
  ASSUME SoundInv, AskQuiet, [SolverNext]_solverVars
  PROVE  SoundInv'
  BY PropagateNextSound, PropagateVisitSound, ConflictAtRootSound, ResolveSound, LearnSound,
     RestartSound, SimplifySound, AssumeSound, AssumptionFailsSound, DecideSound,
     ModelFoundSound, AddClauseSound, AddConflictSound, LoadedSound, RestSound,
     PushAssumptionSound, SolveSound, SolveAtOnceSound, DeeperSound, BackSound
     DEF SolverNext, SearchStep, CallerStep

------------------------------------------------------------------------------
(* The calls of the caller, nested. *)

LEMMA BeforeFacts ==
  ASSUME NEW all \in Seq(Lit), NEW x \in 1 .. Len(all) + 1
  PROVE  Prefix(Before(all, x), all, Len(all) + 1 - x)
<1>1. Len(all) \in Nat
  BY LenProperties
<1>2. Len(all) + 1 - x \in 0 .. Len(all)
  BY <1>1
<1> QED
  BY <1>2, PrefixOf DEF Before

LEMMA PrefixSame ==
  ASSUME NEW s, NEW t, NEW n, NEW a, NEW b, Prefix(s, a, n), Prefix(t, b, n),
         \A i \in 1 .. n : a[i] = b[i]
  PROVE  s = t
<1>1. /\ s \in Seq(Lit) /\ t \in Seq(Lit) /\ Len(s) = n /\ Len(t) = n
      /\ \A i \in 1 .. n : s[i] = a[i] /\ t[i] = b[i]
  BY DEF Prefix
<1> QED
  BY <1>1, SeqEqual

LEMMA PrefixSet ==
  ASSUME NEW s, NEW a \in Seq(Lit), NEW n, Prefix(s, a, n)
  PROVE  ToSet(s) \subseteq ToSet(a)
<1>1. DOMAIN s = 1 .. n /\ DOMAIN a = 1 .. Len(a)
  BY LenProperties DEF Prefix
<1> QED
  BY <1>1 DEF Prefix, ToSet

LEMMA BeforeFirst ==
  ASSUME NEW all \in Seq(Lit)
  PROVE  Before(all, 1) = all
<1>1. Len(all) \in Nat /\ Len(all) + 1 - 1 = Len(all)
  BY LenProperties
<1> QED
  BY <1>1, SubSeqFull DEF Before

LEMMA BeforeWithin ==
  ASSUME NEW all \in Seq(Lit), NEW x \in 1 .. Len(all) + 1, NEW y \in 1 .. Len(all) + 1, y <= x
  PROVE  ToSet(Before(all, x)) \subseteq ToSet(Before(all, y))
<1>1. Prefix(Before(all, x), all, Len(all) + 1 - x) /\ Prefix(Before(all, y), all, Len(all) + 1 - y)
  BY BeforeFacts
<1>2. Len(all) \in Nat
  BY LenProperties
<1>3. /\ DOMAIN Before(all, x) = 1 .. Len(all) + 1 - x
      /\ DOMAIN Before(all, y) = 1 .. Len(all) + 1 - y
      /\ \A i \in 1 .. Len(all) + 1 - x : Before(all, x)[i] = all[i]
      /\ \A i \in 1 .. Len(all) + 1 - y : Before(all, y)[i] = all[i]
  BY <1>1, LenProperties DEF Prefix
<1>4. \A i \in 1 .. Len(all) + 1 - x : i \in 1 .. Len(all) + 1 - y
  BY <1>2
<1> QED
  BY <1>3, <1>4 DEF ToSet

LEMMA BeforeAppend ==
  ASSUME NEW all \in Seq(Lit), NEW l \in Lit, NEW x \in 1 .. Len(all) + 1
  PROVE  Before(Append(all, l), x + 1) = Before(all, x)
<1> DEFINE more == Append(all, l)
<1>1. Len(all) \in Nat
  BY LenProperties
<1>2. /\ more \in Seq(Lit) /\ Len(more) = Len(all) + 1
      /\ \A i \in 1 .. Len(all) : more[i] = all[i]
  BY AppendProperties
<1> HIDE DEF more
<1>3. x + 1 \in 1 .. Len(more) + 1 /\ Len(more) + 1 - (x + 1) = Len(all) + 1 - x
      /\ Len(all) + 1 - x <= Len(all)
  BY <1>1, <1>2
<1>4. Prefix(Before(more, x + 1), more, Len(more) + 1 - (x + 1)) /\ Prefix(Before(all, x), all, Len(all) + 1 - x)
  BY <1>2, <1>3, BeforeFacts
<1>5. Prefix(Before(more, x + 1), more, Len(all) + 1 - x)
  BY <1>3, <1>4
<1>6. \A i \in 1 .. Len(all) + 1 - x : more[i] = all[i]
  BY <1>1, <1>2, <1>3
<1>7. Before(more, x + 1) = Before(all, x)
  BY <1>4, <1>5, <1>6, PrefixSame
<1> QED
  BY <1>7 DEF more

LEMMA BeforeShorter ==
  ASSUME NEW all \in Seq(Lit), NEW less, Prefix(less, all, Len(all) - 1),
         NEW x \in 1 .. Len(all)
  PROVE  Before(less, x) = Before(all, x + 1)
<1>1. Len(all) \in Nat
  BY LenProperties
<1>2. less \in Seq(Lit) /\ Len(less) = Len(all) - 1 /\ \A i \in 1 .. Len(all) - 1 : less[i] = all[i]
  BY DEF Prefix
<1>3. /\ x + 1 \in 1 .. Len(all) + 1 /\ x \in 1 .. Len(less) + 1
      /\ Len(less) + 1 - x = Len(all) - x /\ Len(all) + 1 - (x + 1) = Len(all) - x
      /\ Len(all) - x <= Len(all) - 1
  BY <1>1, <1>2
<1>4. Prefix(Before(less, x), less, Len(less) + 1 - x) /\ Prefix(Before(all, x + 1), all, Len(all) + 1 - (x + 1))
  BY <1>2, <1>3, BeforeFacts
<1>5. Prefix(Before(less, x), less, Len(all) - x) /\ Prefix(Before(all, x + 1), all, Len(all) - x)
  BY <1>3, <1>4
<1>6. \A i \in 1 .. Len(all) - x : i \in 1 .. Len(all) - 1
  BY <1>1, <1>3
<1>7. \A i \in 1 .. Len(all) - x : less[i] = all[i]
  BY <1>2, <1>6
<1> QED
  BY <1>5, <1>7, PrefixSame

(* An answer changes only the units of the innermost call. *)
LEMMA NestedAnswer ==
  ASSUME NEW fr \in Seq(Frames), NEW gr \in Seq(Frames), NEW all, NEW M, NEW F,
         Nested(fr, all, M, F), Len(gr) = Len(fr),
         \A x \in DOMAIN fr : gr[x].vars = fr[x].vars /\ (x > 1 => gr[x] = fr[x])
  PROVE  Nested(gr, all, M, F) /\ UnitsFrom(gr, 2) = UnitsFrom(fr, 2)
<1>1. Len(fr) \in Nat /\ DOMAIN fr = 1 .. Len(fr) /\ DOMAIN gr = DOMAIN fr
  BY LenProperties
<1>2. ASSUME NEW x \in Nat, x > 1 PROVE UnitsFrom(gr, x) = UnitsFrom(fr, x)
  <2>1. \A y \in x .. Len(fr) : y \in DOMAIN fr /\ y > 1
    BY <1>1, <1>2
  <2>2. \A y \in x .. Len(fr) : gr[y] = fr[y]
    BY <2>1
  <2> QED
    BY <2>2 DEF UnitsFrom
<1>3. ASSUME NEW x \in DOMAIN gr PROVE NestedAt(gr, all, M, F, x)
  <2>1. NestedAt(fr, all, M, F, x)
    BY <1>1 DEF Nested
  <2>2. x + 1 \in Nat /\ x + 1 > 1
    BY <1>1
  <2>3. UnitsFrom(gr, x + 1) = UnitsFrom(fr, x + 1)
    BY <1>2, <2>2
  <2> QED
    BY <1>1, <2>1, <2>3 DEF NestedAt
<1> QED
  BY <1>1, <1>2, <1>3 DEF Nested

(* A call more, for part of the variables of the innermost. *)
LEMMA NestedDeeper ==
  ASSUME NEW fr \in Seq(Frames), NEW gr \in Seq(Frames), NEW all \in Seq(Lit), NEW l \in Lit,
         NEW M, NEW F, Nested(fr, all, M, F), Len(gr) = Len(fr) + 1, Len(fr) > 0,
         \A x \in DOMAIN fr : gr[x + 1] = fr[x],
         VarOf(l) \in gr[1].vars,
         Uncrossed(F, ToSet(all) \cup UnitsFrom(fr, 1), gr[1].vars),
         Implies(M, all, fr[1].units)
  PROVE  Nested(gr, Append(all, l), M, F)
<1> DEFINE more == Append(all, l)
<1>1. /\ Len(fr) \in Nat /\ DOMAIN fr = 1 .. Len(fr) /\ Len(all) \in Nat
      /\ DOMAIN gr = 1 .. Len(fr) + 1
  BY LenProperties
<1>2. /\ Len(more) = Len(all) + 1 /\ \A i \in 1 .. Len(all) : more[i] = all[i]
      /\ more[Len(all) + 1] = l
  BY AppendProperties
<1>3. Len(fr) <= Len(all) + 1
  BY DEF Nested
<1>4. ASSUME NEW x \in 1 .. Len(fr) PROVE Before(more, x + 1) = Before(all, x)
  <2>1. x \in 1 .. Len(all) + 1
    BY <1>1, <1>3
  <2> QED
    BY <2>1, BeforeAppend
<1> HIDE DEF more
<1>5. ASSUME NEW x \in Nat, x > 0 PROVE UnitsFrom(gr, x + 1) = UnitsFrom(fr, x)
  <2>1. \A y \in x .. Len(fr) : y \in DOMAIN fr /\ y + 1 \in x + 1 .. Len(gr)
    BY <1>1, <1>5
  <2>2. \A z \in x + 1 .. Len(gr) : z - 1 \in x .. Len(fr) /\ z - 1 \in DOMAIN fr /\ z = (z - 1) + 1
    BY <1>1, <1>5
  <2>3. \A z \in x + 1 .. Len(gr) : gr[z] = fr[z - 1]
    BY <2>2
  <2>4. UnitsFrom(gr, x + 1) \subseteq UnitsFrom(fr, x)
    BY <2>2, <2>3 DEF UnitsFrom
  <2>5. UnitsFrom(fr, x) \subseteq UnitsFrom(gr, x + 1)
    BY <2>1 DEF UnitsFrom
  <2> QED
    BY <2>4, <2>5
<1>6. NestedAt(gr, more, M, F, 1)
  <2>1. Before(more, 2) = all
    BY <1>1, <1>4, BeforeFirst
  <2>2. UnitsFrom(gr, 2) = UnitsFrom(fr, 1)
    BY <1>5
  <2>3. Len(more) + 1 - 1 = Len(all) + 1 /\ 1 < Len(gr) /\ 1 + 1 = 2 /\ 1 # Len(gr) /\ ~(1 > 1)
    BY <1>1, <1>2
  <2> QED
    BY <1>2, <2>1, <2>2, <2>3 DEF NestedAt
<1>7. ASSUME NEW x \in 1 .. Len(fr) PROVE NestedAt(gr, more, M, F, x + 1)
  <2>1. NestedAt(fr, all, M, F, x)
    BY <1>1 DEF Nested
  <2>2. gr[x + 1] = fr[x] /\ Before(more, x + 1) = Before(all, x)
    BY <1>1, <1>4
  <2>3. ASSUME x + 1 = Len(gr)
        PROVE  /\ Sat(M, Before(more, x + 1))
               /\ Uncrossed(F, ToSet(Before(more, x + 1)), gr[x + 1].vars)
    <3>1. x = Len(fr)
      BY <1>1, <2>3
    <3> QED
      BY <2>1, <2>2, <3>1 DEF NestedAt
  <2>4. ASSUME x + 1 < Len(gr)
        PROVE  /\ VarOf(more[Len(more) + 1 - (x + 1)]) \in gr[x + 1].vars
               /\ Uncrossed(F, ToSet(Before(more, (x + 1) + 1)) \cup UnitsFrom(gr, (x + 1) + 1),
                            gr[x + 1].vars)
    <3>1. x < Len(fr) /\ x + 1 \in 1 .. Len(fr) /\ x + 1 \in Nat /\ x + 1 > 0
      BY <1>1, <2>4
    <3>2. /\ VarOf(all[Len(all) + 1 - x]) \in fr[x].vars
          /\ Uncrossed(F, ToSet(Before(all, x + 1)) \cup UnitsFrom(fr, x + 1), fr[x].vars)
      BY <2>1, <3>1 DEF NestedAt
    <3>3. Len(more) + 1 - (x + 1) = Len(all) + 1 - x /\ Len(all) + 1 - x \in 1 .. Len(all)
      BY <1>1, <1>2, <1>3, <3>1
    <3>4. more[Len(more) + 1 - (x + 1)] = all[Len(all) + 1 - x]
      BY <1>2, <3>3
    <3>5. Before(more, (x + 1) + 1) = Before(all, x + 1) /\ UnitsFrom(gr, (x + 1) + 1) = UnitsFrom(fr, x + 1)
      BY <1>4, <1>5, <3>1
    <3> QED
      BY <2>2, <3>2, <3>4, <3>5
  <2>5. Implies(M, Before(more, x + 1), gr[x + 1].units)
    <3>1. CASE x = 1
      BY <2>2, <3>1, BeforeFirst
    <3>2. CASE x > 1
      BY <2>1, <2>2, <3>2 DEF NestedAt
    <3> QED
      BY <3>1, <3>2
  <2> QED
    BY <2>3, <2>4, <2>5 DEF NestedAt
<1>8. ASSUME NEW y \in DOMAIN gr PROVE NestedAt(gr, more, M, F, y)
  <2>1. CASE y = 1
    BY <1>6, <2>1
  <2>2. CASE y # 1
    <3>1. y - 1 \in 1 .. Len(fr) /\ (y - 1) + 1 = y
      BY <1>1, <2>2
    <3>2. NestedAt(gr, more, M, F, (y - 1) + 1)
      BY <1>7, <3>1
    <3> QED
      BY <3>1, <3>2
  <2> QED
    BY <2>1, <2>2
<1>9. Len(gr) <= Len(more) + 1
  BY <1>1, <1>2, <1>3
<1>10. Nested(gr, more, M, F)
  BY <1>8, <1>9 DEF Nested
<1> QED
  BY <1>10 DEF more

(* A call less. *)
LEMMA NestedBack ==
  ASSUME NEW fr \in Seq(Frames), NEW gr \in Seq(Frames), NEW all \in Seq(Lit), NEW less,
         Prefix(less, all, Len(all) - 1),
         NEW M, NEW F, Nested(fr, all, M, F), Len(gr) = Len(fr) - 1, Len(fr) > 1,
         \A x \in DOMAIN gr : gr[x] = fr[x + 1]
  PROVE  Nested(gr, less, M, F) /\ Implies(M, less, gr[1].units)
<1>1. /\ Len(fr) \in Nat /\ DOMAIN fr = 1 .. Len(fr) /\ Len(all) \in Nat
      /\ DOMAIN gr = 1 .. Len(fr) - 1
  BY LenProperties
<1>2. less \in Seq(Lit) /\ Len(less) = Len(all) - 1 /\ \A i \in 1 .. Len(all) - 1 : less[i] = all[i]
  BY DEF Prefix
<1>3. Len(fr) <= Len(all) + 1
  BY DEF Nested
<1>4. ASSUME NEW x \in 1 .. Len(fr) - 1 PROVE Before(less, x) = Before(all, x + 1)
  <2>1. x \in 1 .. Len(all)
    BY <1>1, <1>3
  <2> QED
    BY <2>1, BeforeShorter
<1>5. ASSUME NEW x \in Nat, x > 0 PROVE UnitsFrom(gr, x) = UnitsFrom(fr, x + 1)
  <2>1. \A y \in x .. Len(gr) : y \in DOMAIN gr /\ y + 1 \in x + 1 .. Len(fr)
    BY <1>1, <1>5
  <2>2. \A z \in x + 1 .. Len(fr) : z - 1 \in x .. Len(gr) /\ z - 1 \in DOMAIN gr /\ z = (z - 1) + 1
    BY <1>1, <1>5
  <2>3. \A z \in x + 1 .. Len(fr) : gr[z - 1] = fr[z]
    BY <2>2
  <2>4. UnitsFrom(gr, x) \subseteq UnitsFrom(fr, x + 1)
    BY <2>1 DEF UnitsFrom
  <2>5. UnitsFrom(fr, x + 1) \subseteq UnitsFrom(gr, x)
    BY <2>2, <2>3 DEF UnitsFrom
  <2> QED
    BY <2>4, <2>5
<1>6. ASSUME NEW x \in DOMAIN gr
      PROVE  NestedAt(gr, less, M, F, x) /\ Implies(M, Before(less, x), gr[x].units)
  <2>0. x \in Nat /\ x > 0 /\ x + 1 \in DOMAIN fr /\ x + 1 > 1 /\ x \in 1 .. Len(fr) - 1
    BY <1>1
  <2>1. NestedAt(fr, all, M, F, x + 1)
    BY <2>0 DEF Nested
  <2>2. gr[x] = fr[x + 1] /\ Before(less, x) = Before(all, x + 1)
    BY <1>4, <2>0
  <2>3. ASSUME x = Len(gr)
        PROVE  /\ Sat(M, Before(less, x))
               /\ Uncrossed(F, ToSet(Before(less, x)), gr[x].vars)
    <3>1. x + 1 = Len(fr)
      BY <1>1, <2>3
    <3> QED
      BY <2>1, <2>2, <3>1 DEF NestedAt
  <2>4. ASSUME x < Len(gr)
        PROVE  /\ VarOf(less[Len(less) + 1 - x]) \in gr[x].vars
               /\ Uncrossed(F, ToSet(Before(less, x + 1)) \cup UnitsFrom(gr, x + 1), gr[x].vars)
    <3>1. x + 1 < Len(fr) /\ x + 1 \in 1 .. Len(fr) - 1 /\ x + 1 \in Nat /\ x + 1 > 0
      BY <1>1, <2>0, <2>4
    <3>2. /\ VarOf(all[Len(all) + 1 - (x + 1)]) \in fr[x + 1].vars
          /\ Uncrossed(F, ToSet(Before(all, (x + 1) + 1)) \cup UnitsFrom(fr, (x + 1) + 1), fr[x + 1].vars)
      BY <2>1, <3>1 DEF NestedAt
    <3>3. Len(less) + 1 - x = Len(all) + 1 - (x + 1) /\ Len(all) + 1 - (x + 1) \in 1 .. Len(all) - 1
      BY <1>1, <1>2, <1>3, <2>0, <3>1
    <3>4. less[Len(less) + 1 - x] = all[Len(all) + 1 - (x + 1)]
      BY <1>2, <3>3
    <3>5. Before(less, x + 1) = Before(all, (x + 1) + 1) /\ UnitsFrom(gr, x + 1) = UnitsFrom(fr, (x + 1) + 1)
      BY <1>4, <1>5, <3>1
    <3> QED
      BY <2>2, <3>2, <3>4, <3>5
  <2>5. Implies(M, Before(less, x), gr[x].units)
    BY <2>0, <2>1, <2>2 DEF NestedAt
  <2> QED
    BY <2>3, <2>4, <2>5 DEF NestedAt
<1>7. Len(gr) <= Len(less) + 1
  BY <1>1, <1>2, <1>3
<1>8. 1 \in DOMAIN gr /\ Before(less, 1) = less
  BY <1>1, <1>2, BeforeFirst
<1> QED
  BY <1>6, <1>7, <1>8 DEF Nested

------------------------------------------------------------------------------
(* Glucose: propagate *)

LEMMA CompleteInit ==
  ASSUME SolverInit
  PROVE  CompleteInv
<1>1. WatchRight
  <2>1. 1 .. read = {} /\ DOMAIN trail = {}
    BY DEF SolverInit
  <2> QED
    BY <2>1 DEF SolverInit, WatchRight, Guarded
<1>2. ModelRight /\ HeapRight /\ TrueRight /\ AskRight
  BY DEF SolverInit, ModelRight, HeapRight, TrueRight, AskRight
<1>3. FramesRight /\ WarmRight
  <2>1. << >> \o << >> = << >> /\ << >> \in Seq(Lit)
    OBVIOUS
  <2>2. Nested(<< >>, << >>, Models, formula)
    BY DEF Nested
  <2> QED
    BY <2>1, <2>2 DEF SolverInit, FramesRight, WarmRight
<1> QED
  BY <1>1, <1>2, <1>3 DEF CompleteInv

(* The clauses of the input stay covered. *)
LEMMA CoveredStep ==
  ASSUME WatchRight, ok, UNCHANGED << input, read >>, RootKept(trail, trail'),
         \A d \in db : ~d.learnt => \/ \E e \in db' : ~e.learnt /\ e.lits = d.lits
                                    \/ \E l \in d.lits : RootTrue(trail', l)
  PROVE  \A x \in 1 .. read' : Covered(input'.clauses[x], trail', db')
<1> SUFFICES ASSUME NEW x \in 1 .. read PROVE Covered(input.clauses[x], trail', db')
  OBVIOUS
<1>1. Covered(input.clauses[x], trail, db)
  BY DEF WatchRight
<1> QED
  BY <1>1, CoveredKept

(* A step of the search leaves the calls alone. *)
LEMMA SearchKeeps ==
  ASSUME CompleteInv, pc = "search",
         UNCHANGED << input, read, assumption, pending, pc, answer, frames, calls >>
  PROVE  ModelRight' /\ FramesRight' /\ WarmRight' /\ TrueRight' /\ AskRight'
<1>0. Models' = Models /\ formula' = formula
  BY SameInput
<1>1. FramesRight'
  BY <1>0 DEF CompleteInv, FramesRight
<1>2. WarmRight'
  BY <1>0 DEF CompleteInv, WarmRight
<1> QED
  BY <1>1, <1>2 DEF ModelRight, TrueRight, AskRight

LEMMA WatchQuiet ==
  ASSUME SoundInv, WatchRight, ok, visit = {}, confl = {}
  PROVE  Guarded(trail, db, qhead, qhead, {})
  BY DEF WatchRight, Settled

LEMMA PropagateNextComplete ==
  ASSUME SoundInv, Glucose, CompleteInv, PropagateNext
  PROVE  CompleteInv'
<1> USE DEF PropagateNext, loaded, order, caller
<1>0. Models' = Models /\ formula' = formula
  BY SameInput
<1>1. WatchRight'
  <2> SUFFICES ASSUME ok PROVE WatchRight'
    BY DEF WatchRight
  <2>1. Guarded(trail, db, qhead, qhead, {})
    BY WatchQuiet DEF CompleteInv
  <2>2. Guarded(trail, db, qhead + 1, qhead + 1, {c \in db : -trail[qhead + 1].lit \in c.watched})
    BY <2>1, GuardedNext, Basics
  <2> QED
    BY <2>2 DEF CompleteInv, WatchRight, Settled
<1>2. pc \in {"add", "ask", "search"}
  BY Basics DEF SoundInv, PcRight, Still, TypesRight
<1>3. pc = "ask" => activeModel
  BY Basics DEF CompleteInv, AskRight
<1>4. FramesRight' /\ WarmRight'
  BY <1>0, <1>2 DEF CompleteInv, FramesRight, WarmRight
<1>5. ModelRight' /\ HeapRight' /\ TrueRight' /\ AskRight'
  BY <1>0, <1>2, <1>3 DEF CompleteInv, ModelRight, HeapRight, TrueRight, AskRight
<1> QED
  BY <1>1, <1>4, <1>5 DEF CompleteInv

LEMMA PropagateVisitComplete ==
  ASSUME SoundInv, Glucose, CompleteInv, PropagateVisit
  PROVE  CompleteInv'
<1>0. /\ Models' = Models /\ formula' = formula
      /\ UNCHANGED << input, read, ok, lim, restarts, problemVariable, inTheHeap, heap, model,
                      activeModel, assumption, pending, pc, answer, frames, calls >>
  BY SameInput DEF PropagateVisit, loaded, order, caller
<1>1. PICK c \in visit :
        LET p == trail[qhead].lit
            first == CHOOSE l \in c.watched : l # -p
        IN
        \/ /\ c.lits \cap TrailLits # {}
           /\ visit' = visit \ {c}
           /\ UNCHANGED << db, trail, qhead, confl >>
        \/ /\ first \notin TrailLits
           /\ \E l \in NewWatch(c) :
                db' = (db \ {c}) \cup {Rewatched(c, p, l)}
           /\ visit' = visit \ {c}
           /\ UNCHANGED << trail, qhead, confl >>
        \/ /\ NewWatch(c) = {}
           /\ Undef(first)
           /\ trail' = Enqueue(trail, first, c.lits, Level)
           /\ visit' = visit \ {c}
           /\ UNCHANGED << db, qhead, confl >>
        \/ /\ NewWatch(c) = {}
           /\ -first \in TrailLits
           /\ confl' = c.lits
           /\ qhead' = IF Glucose /\ Cardinality(c.lits) = 2 THEN qhead ELSE Len(trail)
           /\ visit' = {}
           /\ UNCHANGED << db, trail >>
  BY DEF PropagateVisit
<1> DEFINE p == trail[qhead].lit
           first == CHOOSE l \in c.watched : l # -p
<1>2. /\ qhead \in DOMAIN trail /\ c \in db /\ Attachable(c, Models)
      /\ p \in Lit /\ first \in Lit /\ first \in c.lits /\ c.lits \in SUBSET Lit
      /\ c.watched = {-p, first} /\ first # -p /\ -p \in c.lits
      /\ -(-p) = p
      /\ trail[qhead].level = Len(lim)
      /\ confl = {}
      /\ NewWatch(c) = {} => \A l \in c.lits \ {first} : -l \in LitsOf(trail)
  BY VisitFacts
<1> HIDE DEF p, first
<1>3. pc \in {"add", "ask", "search"}
  BY DEF SoundInv, PcRight, Still, TypesRight
<1>4. pc = "ask" => activeModel
  BY DEF CompleteInv, AskRight
<1>5. FramesRight' /\ WarmRight' /\ TrueRight'
  BY <1>0, <1>3 DEF CompleteInv, FramesRight, WarmRight, TrueRight
<1>6. ok => Guarded(trail, db, qhead, qhead, visit)
  BY <1>2 DEF CompleteInv, WatchRight, Settled
<1>7. \A y \in DOMAIN trail : trail[y].level <= trail[qhead].level
  BY <1>2, Basics
<1>8. RootKept(trail, trail)
  BY DEF RootKept
<1>9. ASSUME c.lits \cap TrailLits # {}, visit' = visit \ {c},
             UNCHANGED << db, trail, qhead, confl >>
      PROVE  CompleteInv'
  <2>1. \E y \in DOMAIN trail : trail[y].lit \in c.lits
    BY <1>9 DEF TrailLits
  <2>2. ok => Guarded(trail, db, qhead, qhead, visit \ {c})
    BY <1>2, <1>6, <1>7, <2>1, GuardedTrue
  <2>3. WatchRight'
    BY <1>0, <1>2, <1>9, <2>2 DEF CompleteInv, WatchRight, Settled
  <2>4. ModelRight' /\ HeapRight' /\ AskRight'
    BY <1>0, <1>3, <1>4, <1>9 DEF CompleteInv, ModelRight, HeapRight, AskRight
  <2> QED
    BY <1>5, <2>3, <2>4 DEF CompleteInv
<1>10. ASSUME NEW l \in NewWatch(c), db' = (db \ {c}) \cup {Rewatched(c, p, l)},
              visit' = visit \ {c}, UNCHANGED << trail, qhead, confl >>
       PROVE  CompleteInv'
  <2>1. l \in c.lits /\ l \in Lit /\ -l \notin LitsOf(trail)
    BY <1>2, TrailLitsOf DEF NewWatch
  <2> DEFINE e == Rewatched(c, p, l)
  <2>2. c \in Clauses
    BY <1>2 DEF Attachable
  <2>3. e.lits = c.lits /\ e.watched = (c.watched \ {-p}) \cup {l} /\ e.learnt = c.learnt
    BY <2>2 DEF Rewatched, Clauses
  <2> HIDE DEF e
  <2>4. db' = (db \ {c}) \cup {e}
    BY <1>10 DEF e
  <2>5. ok => Guarded(trail, db', qhead, qhead, visit \ {c})
    BY <1>2, <1>6, <2>1, <2>3, <2>4, GuardedRewatch, Basics DEF p
  <2>6. \A d \in db : ~d.learnt => \E f \in db' : ~f.learnt /\ f.lits = d.lits
    BY <2>3, <2>4
  <2>7. ok => \A x \in 1 .. read' : Covered(input'.clauses[x], trail', db')
    BY <1>0, <1>8, <1>10, <2>6, CoveredStep DEF CompleteInv
  <2>8. WatchRight'
    BY <1>0, <1>2, <1>10, <2>5, <2>7 DEF WatchRight, Settled
  <2>9. Fits(model, db) => Fits(model, db')
    <3>1. \A f \in db' : \E d \in db : f.lits = d.lits
      BY <1>2, <2>3, <2>4
    <3> QED
      BY <3>1, FitsSame
  <2>10. ModelRight' /\ HeapRight' /\ AskRight'
    BY <1>0, <1>3, <1>4, <1>10, <2>9 DEF CompleteInv, ModelRight, HeapRight, AskRight
  <2> QED
    BY <1>5, <2>8, <2>10 DEF CompleteInv
<1>11. ASSUME NewWatch(c) = {}, Undef(first), trail' = Enqueue(trail, first, c.lits, Level),
              visit' = visit \ {c}, UNCHANGED << db, qhead, confl >>
       PROVE  CompleteInv'
  <2>1. first \notin LitsOf(trail) /\ -first \notin LitsOf(trail)
    BY <1>11, TrailLitsOf DEF Undef
  <2>2. trail' = Enqueue(trail, first, c.lits, Len(lim))
    BY <1>11 DEF Level
  <2>3. Shape(trail', lim) /\ Extends(trail, trail', first, c.lits, Len(lim))
    BY <1>2, <2>1, <2>2, Basics, EnqueueShape
  <2>4. /\ DOMAIN trail' = DOMAIN trail \cup {Len(trail) + 1}
        /\ \A x \in DOMAIN trail : trail'[x] = trail[x]
        /\ trail'[Len(trail) + 1].lit = first /\ trail'[Len(trail) + 1].level = Len(lim)
        /\ LitsOf(trail') = LitsOf(trail) \cup {first}
    BY <2>3 DEF Extends
  <2>5. ok => Guarded(trail', db, qhead, qhead, visit)
    BY <1>6, <2>3, GuardedExtend, Basics
  <2>6. /\ qhead \in DOMAIN trail' /\ trail'[qhead].level = Len(lim)
        /\ \A y \in DOMAIN trail' : trail'[y].level <= trail'[qhead].level
        /\ \E y \in DOMAIN trail' : trail'[y].lit \in c.lits
    BY <1>2, <1>7, <2>4, Basics
  <2>7. ok => Guarded(trail', db, qhead, qhead, visit \ {c})
    BY <2>5, <2>6, GuardedTrue
  <2>8. RootKept(trail, trail')
    BY <2>3, RootKeptBy
  <2>9. ok => \A x \in 1 .. read' : Covered(input'.clauses[x], trail', db')
    BY <1>0, <1>11, <2>8, CoveredStep DEF CompleteInv
  <2>10. WatchRight'
    BY <1>0, <1>2, <1>11, <2>7, <2>9 DEF WatchRight, Settled
  <2>11. ModelRight'
    <3> SUFFICES ASSUME activeModel, pc \notin {"search", "return"}
                 PROVE  LitsOf(trail') \subseteq model /\ Fits(model, db)
      BY <1>0, <1>11 DEF ModelRight
    <3>1. LitsOf(trail) \subseteq model /\ Fits(model, db)
      BY DEF CompleteInv, ModelRight
    <3>2. first \in model
      BY <1>2, <1>11, <3>1, FitsUnit
    <3> QED
      BY <2>4, <3>1, <3>2
  <2>12. HeapRight'
    <3>1. \A v : Open(LitsOf(trail'), v) => Open(LitsOf(trail), v)
      BY <2>4 DEF Open
    <3>2. \A v : RootTrue(trail, v) => RootTrue(trail', v)
      BY <2>8, RootTrueKept
    <3> QED
      BY <1>0, <3>1, <3>2 DEF CompleteInv, HeapRight
  <2>13. AskRight'
    BY <1>0, <1>2, <1>4, <1>11 DEF AskRight
  <2> QED
    BY <1>5, <2>10, <2>11, <2>12, <2>13 DEF CompleteInv
<1>12. ASSUME NewWatch(c) = {}, -first \in TrailLits, confl' = c.lits,
              visit' = {}, UNCHANGED << db, trail >>
       PROVE  CompleteInv'
  <2>1. pc # "ask" /\ (activeModel => pc \in {"search", "return"})
    <3> SUFFICES ASSUME activeModel, pc \notin {"search", "return"} PROVE FALSE
      BY <1>4
    <3>1. LitsOf(trail) \subseteq model /\ Fits(model, db)
      BY DEF CompleteInv, ModelRight
    <3>2. first \in model
      BY <1>2, <1>12, <3>1, FitsUnit
    <3>3. -first \in model
      BY <1>12, <3>1, TrailLitsOf
    <3> QED
      BY <3>1, <3>2, <3>3 DEF Fits
  <2> DEFINE w == IF Len(lim) = 0 THEN 0 ELSE lim[Len(lim)]
  <2>2. w \in Nat /\ w <= qhead /\ w < qhead
    BY <1>1, Basics DEF SoundInv, QueueRight
  <2>3. c.lits # {} /\ Settled' = w
    BY <1>0, <1>2, <1>12 DEF Settled
  <2> HIDE DEF w
  <2>4. ok => Guarded(trail, db, w, qhead', {})
    BY <1>6, <2>2, GuardedEarlier, Basics
  <2>5. WatchRight'
    BY <1>0, <1>12, <2>3, <2>4 DEF CompleteInv, WatchRight
  <2>6. ModelRight' /\ HeapRight' /\ AskRight'
    BY <1>0, <1>12, <2>1 DEF CompleteInv, ModelRight, HeapRight, AskRight
  <2> QED
    BY <1>5, <2>5, <2>6 DEF CompleteInv
<1> QED
  BY <1>1, <1>9, <1>10, <1>11, <1>12 DEF p, first

------------------------------------------------------------------------------
(* Glucose: addClause *)

(* Before any call. *)
LEMMA AddKeeps ==
  ASSUME SoundInv, CompleteInv, pc = "add",
         UNCHANGED << input, assumption, pending, pc, answer, frames, calls, activeModel, model >>
  PROVE  ModelRight' /\ HeapRight' /\ FramesRight' /\ WarmRight' /\ TrueRight' /\ AskRight'
<1>0. Models' = Models /\ formula' = formula
  BY SameInput
<1>1. ~activeModel
  BY DEF SoundInv, PcRight
<1>2. FramesRight' /\ WarmRight'
  BY <1>0 DEF CompleteInv, FramesRight, WarmRight
<1> QED
  BY <1>1, <1>2 DEF ModelRight, HeapRight, TrueRight, AskRight

LEMMA AddClauseComplete ==
  ASSUME SoundInv, Glucose, CompleteInv, AddClause
  PROVE  CompleteInv'
<1> DEFINE c == input.clauses[read + 1]
           left == {l \in c : -l \notin TrailLits}
<1>0. /\ UNCHANGED << input, lim, qhead, visit, confl, restarts, problemVariable, inTheHeap,
                      heap, model, activeModel, assumption, pending, pc, answer, frames, calls >>
      /\ pc = "add" /\ visit = {} /\ qhead = Len(trail) /\ confl = {}
      /\ read < Len(input.clauses) /\ read' = read + 1
  BY DEF AddClause, order, caller, propagation, Quiet
<1>1. \/ /\ ~ok \/ c \cap TrailLits # {} \/ \E l \in c : -l \in c
         /\ UNCHANGED << ok, db, trail >>
      \/ /\ ok /\ c \cap TrailLits = {} /\ \A l \in c : -l \notin c
         /\ ok' = (left # {})
         /\ db' = IF Cardinality(left) > 1 THEN db \cup {Attached(left)} ELSE db
         /\ trail' = IF Cardinality(left) = 1
                     THEN Enqueue(trail, CHOOSE l \in left : TRUE, {}, 0)
                     ELSE trail
  BY DEF AddClause
<1>2. lim = << >> /\ Len(lim) = 0
  BY <1>0 DEF SoundInv, PcRight
<1>3. \A l : l \in LitsOf(trail) => RootTrue(trail, l)
  BY <1>2, Basics DEF LitsOf, RootTrue
<1>4. read \in Nat /\ c \in SUBSET Lit
  <2>1. input \in Inputs /\ read \in 0 .. Len(input.clauses)
    BY DEF SoundInv, TypesRight
  <2>2. Len(input.clauses) \in Nat
    BY <2>1, FormulaLits, LenProperties
  <2>3. read + 1 \in 1 .. Len(input.clauses)
    BY <1>0, <2>1, <2>2
  <2> QED
    BY <2>1, <2>3, FormulaLits, ElementOfSeq
<1>5. \A x \in 1 .. read + 1 : x \in 1 .. read \/ x = read + 1
  BY <1>4
<1>6. ModelRight' /\ HeapRight' /\ FramesRight' /\ WarmRight' /\ TrueRight' /\ AskRight'
  BY <1>0, AddKeeps
<1> SUFFICES ASSUME ok' PROVE WatchRight'
  BY <1>6 DEF CompleteInv, WatchRight
<1>7. ok
  BY <1>1
<1>8. /\ Guarded(trail, db, qhead, qhead, {})
      /\ \A x \in 1 .. read : Covered(input.clauses[x], trail, db)
  BY <1>0, <1>7, WatchQuiet DEF CompleteInv, WatchRight
<1> HIDE DEF c
<1>9. SUFFICES /\ Guarded(trail', db', qhead, qhead, {})
               /\ \A x \in 1 .. read : Covered(input.clauses[x], trail', db')
               /\ Covered(c, trail', db')
  BY <1>0, <1>5 DEF WatchRight, Settled, c
<1>10. CASE /\ c \cap TrailLits # {} \/ \E l \in c : -l \in c
            /\ UNCHANGED << db, trail >>
  <2>1. Covered(c, trail, db)
    BY <1>3, <1>10, TrailLitsOf DEF Covered
  <2> QED
    BY <1>8, <1>10, <2>1
<1>11. ASSUME c \cap TrailLits = {}, \A l \in c : -l \notin c, left # {},
              db' = IF Cardinality(left) > 1 THEN db \cup {Attached(left)} ELSE db,
              trail' = IF Cardinality(left) = 1
                       THEN Enqueue(trail, CHOOSE l \in left : TRUE, {}, 0)
                       ELSE trail
       PROVE  /\ Guarded(trail', db', qhead, qhead, {})
              /\ \A x \in 1 .. read : Covered(input.clauses[x], trail', db')
              /\ Covered(c, trail', db')
  <2>1. /\ left \in SUBSET Lit /\ \A l \in left : -l \notin left
        /\ left \subseteq c /\ \A l \in c \ left : RootTrue(trail, -l)
        /\ \A l \in left : -l \notin LitsOf(trail)
    BY <1>3, <1>4, <1>11, TrailLitsOf
  <2> HIDE DEF left
  <2>2. Cardinality(left) = 1 \/ Cardinality(left) > 1
    <3>1. Cardinality(left) # 0 /\ Cardinality(left) \in Nat
      BY <1>11, <2>1, TwoIn, LitFinite
    <3> QED
      BY <3>1
  <2>3. CASE Cardinality(left) = 1
    <3>1. PICK a : left = {a}
      BY <2>1, <2>3, TwoIn
    <3>2. trail' = Enqueue(trail, a, {}, Len(lim)) /\ a \in Lit /\ {} \in SUBSET Lit /\ db' = db
      BY <1>2, <1>11, <2>1, <2>3, <3>1
    <3>3. a \notin LitsOf(trail) /\ -a \notin LitsOf(trail)
      BY <1>11, <2>1, <3>1, TrailLitsOf
    <3>4. Extends(trail, trail', a, {}, Len(lim))
      BY <3>2, <3>3, Basics, EnqueueShape
    <3>5. Guarded(trail', db', qhead, qhead, {})
      BY <1>8, <3>2, <3>4, GuardedExtend, Basics
    <3>6. RootKept(trail, trail')
      BY <3>4, RootKeptBy
    <3>7. \A x \in 1 .. read : Covered(input.clauses[x], trail', db')
      BY <1>8, <3>2, <3>6, CoveredKept
    <3>8. RootTrue(trail', a)
      BY <1>2, <3>4 DEF Extends, RootTrue
    <3>9. Covered(c, trail', db')
      BY <2>1, <3>1, <3>8 DEF Covered
    <3> QED
      BY <3>5, <3>7, <3>9
  <2>4. CASE Cardinality(left) > 1
    <3> DEFINE e == Attached(left)
    <3>1. trail' = trail /\ db' = db \cup {e}
      BY <1>11, <2>4
    <3>2. Attachable(e, {}) /\ e.lits = left /\ e.learnt = FALSE
      <4>1. Follows(left, {})
        BY DEF Follows
      <4> QED
        BY <2>1, <2>4, <4>1, AttachedFacts
    <3> HIDE DEF e
    <3>3. e.watched \subseteq left
      BY <3>2 DEF Attachable
    <3>4. \A x \in DOMAIN trail : -trail[x].lit \notin e.watched
      <4> SUFFICES ASSUME NEW x \in DOMAIN trail, -trail[x].lit \in left PROVE FALSE
        BY <3>3
      <4>1. -(-trail[x].lit) = trail[x].lit
        BY Basics, LitFacts
      <4> QED
        BY <2>1, <4>1, LitsOfAt
    <3>5. Guarded(trail', db', qhead, qhead, {})
      BY <1>8, <3>1, <3>4, GuardedMore
    <3>6. RootKept(trail, trail)
      BY DEF RootKept
    <3>7. \A x \in 1 .. read : Covered(input.clauses[x], trail', db')
      BY <1>8, <3>1, <3>6, CoveredKept
    <3>8. Covered(c, trail', db')
      BY <2>1, <3>1, <3>2 DEF Covered
    <3> QED
      BY <3>5, <3>7, <3>8
  <2> QED
    BY <2>2, <2>3, <2>4
<1> QED
  BY <1>1, <1>7, <1>10, <1>11

LEMMA AddConflictComplete ==
  ASSUME SoundInv, Glucose, CompleteInv, AddConflict
  PROVE  CompleteInv'
<1>1. /\ UNCHANGED << input, read, assumption, pending, pc, answer, frames, calls, activeModel, model >>
      /\ pc = "add" /\ ok' = FALSE
  BY DEF AddConflict, loaded, caller
<1>2. ModelRight' /\ HeapRight' /\ FramesRight' /\ WarmRight' /\ TrueRight' /\ AskRight'
  BY <1>1, AddKeeps
<1> QED
  BY <1>1, <1>2 DEF CompleteInv, WatchRight

------------------------------------------------------------------------------
(* Glucose: search *)

(* An answer leaves the outer calls alone. *)
LEMMA AnswerKeeps ==
  ASSUME SoundInv, CompleteInv, pc \in {"search", "return"},
         NEW b \in BOOLEAN, NEW kept, LitsOf(kept) \subseteq Lit, Answer(b, kept),
         UNCHANGED << input, read, assumption >>,
         b => Implies(Models, assumption, LitsOf(kept)),
         b /\ frames = << >> => Models # {}
  PROVE  HeapRight' /\ FramesRight' /\ WarmRight' /\ AskRight'
<1>0. Models' = Models /\ formula' = formula
  BY SameInput
<1>1. /\ frames' \in Seq(Frames) /\ Len(frames') = Len(frames)
      /\ frames = << >> <=> frames' = << >>
      /\ frames # << >> => /\ frames'[1].sat = b
                           /\ frames'[1].units = {l \in LitsOf(kept) : VarOf(l) \in frames[1].vars}
      /\ \A x \in DOMAIN frames : x > 1 => frames'[x] = frames[x]
      /\ \A x \in DOMAIN frames : frames'[x].vars = frames[x].vars
      /\ answer' = b /\ pc' = "answered" /\ pending' = pending /\ calls' = calls
  BY AnswerFacts, SeqFacts
<1>2. Nested(frames, assumption \o pending, Models, formula)
  BY DEF CompleteInv, FramesRight
<1>3. Nested(frames', assumption \o pending, Models, formula)
  BY <1>1, <1>2, SeqFacts, NestedAnswer
<1>4. frames # << >> /\ b => Implies(Models, assumption, frames'[1].units)
  BY <1>1 DEF Implies
<1>5. FramesRight'
  BY <1>0, <1>1, <1>3, <1>4 DEF FramesRight
<1>6. WarmRight'
  BY <1>0, <1>1 DEF CompleteInv, WarmRight
<1> QED
  BY <1>1, <1>5, <1>6 DEF HeapRight, AskRight

LEMMA ConflictAtRootComplete ==
  ASSUME SoundInv, Glucose, CompleteInv, ConflictAtRoot
  PROVE  CompleteInv'
<1>1. /\ UNCHANGED << input, read, assumption >>
      /\ pc = "search" /\ ok' = FALSE /\ Answer(FALSE, trail)
  BY DEF ConflictAtRoot, loaded
<1>2. HeapRight' /\ FramesRight' /\ WarmRight' /\ AskRight'
  BY <1>1, AnswerKeeps, Basics
<1>3. ~activeModel' /\ answer' = FALSE
  BY <1>1, AnswerFacts, Basics, SeqFacts DEF SoundInv, PcRight, TypesRight
<1> QED
  BY <1>1, <1>2, <1>3 DEF CompleteInv, WatchRight, ModelRight, TrueRight

LEMMA ResolveComplete ==
  ASSUME SoundInv, SoundInv', Glucose, CompleteInv, Resolve
  PROVE  CompleteInv'
<1> USE DEF Resolve, loaded, order, caller
<1>1. ModelRight' /\ FramesRight' /\ WarmRight' /\ TrueRight' /\ AskRight'
  BY SearchKeeps
<1>2. confl' # {}
  <2>1. Conflict(confl, trail, Models) /\ Latest(confl, trail, lim)
    BY DEF SoundInv, ConflRight
  <2>2. \E z \in DOMAIN trail : -trail[z].lit \in confl /\ trail[z].level = Level
    BY <2>1 DEF Latest, Level
  <2>3. \E z \in DOMAIN trail : -trail[z].lit \in confl' /\ trail[z].level = Level
    BY <2>1, <2>2, ResolveFacts, Basics
  <2> QED
    BY <2>3
<1>3. WatchRight' /\ HeapRight'
  BY <1>2 DEF CompleteInv, WatchRight, HeapRight, Settled
<1> QED
  BY <1>1, <1>3 DEF CompleteInv

(* cancelUntil puts back what it takes off the trail. *)
LEMMA PutBackAll ==
  ASSUME SoundInv, Glucose, CompleteInv, pc = "search", NEW k \in Nat, NEW v \in problemVariable,
         NEW T, LitsOf(KeptTrail(k)) \subseteq T, Open(T, v)
  PROVE  v \in PutBack(k)
<1>1. v \in Var
  BY DEF SoundInv, TypesRight
<1>2. CASE Open(LitsOf(trail), v)
  BY <1>2 DEF CompleteInv, HeapRight, PutBack
<1>3. ASSUME NEW l \in {v, -v}, l \in LitsOf(trail) PROVE v \in PutBack(k)
  <2>1. l \notin LitsOf(KeptTrail(k))
    BY <1>3 DEF Open
  <2>2. {e.lit : e \in ToSet(KeptTrail(k))} = LitsOf(KeptTrail(k))
    BY DEF ToSet, LitsOf
  <2>3. VarOf(l) = v
    BY <1>1, <1>3, VarIsLit
  <2> QED
    BY <1>3, <2>1, <2>2, <2>3, TrailLitsOf DEF PutBack, VarsOf
<1> QED
  BY <1>2, <1>3 DEF Open

(* What a backtrack to level k leaves. *)
LEMMA CutKeeps ==
  ASSUME SoundInv, Glucose, CompleteInv, pc = "search", NEW k \in Nat,
         UNCHANGED << input, pc, frames, problemVariable >>, heap' = PutBack(k),
         LitsOf(KeptTrail(k)) \subseteq LitsOf(trail'), RootKept(trail, trail')
  PROVE  HeapRight'
<1>1. \A v \in problemVariable : Open(LitsOf(trail'), v) => v \in heap'
  BY PutBackAll
<1>2. \A v : RootTrue(trail, v) => RootTrue(trail', v)
  BY RootTrueKept
<1> QED
  BY <1>1, <1>2 DEF CompleteInv, HeapRight

LEMMA LearnComplete ==
  ASSUME SoundInv, Glucose, CompleteInv, Learn
  PROVE  CompleteInv'
<1>0. /\ UNCHANGED << input, read, ok, visit, restarts, problemVariable, inTheHeap, model,
                      activeModel, assumption, pending, pc, answer, frames, calls >>
      /\ pc = "search" /\ visit = {} /\ confl # {} /\ Level > 0 /\ confl' = {}
      /\ Current(confl) = {UIP(confl)}
  BY DEF Learn, loaded, caller, Quiet
<1>1. PICK c \in LearntClauses :
        LET level == BacktrackLevel(c) IN
        /\ trail' = Asserted(c, level)
        /\ lim' = KeptLim(level)
        /\ qhead' = lim[level + 1]
        /\ heap' = PutBack(level)
        /\ IF Cardinality(c) = 1 THEN UNCHANGED db
           ELSE \E l \in c \ {UIP(c)} :
                  /\ LevelOf(l) = BacktrackLevel(c)
                  /\ db' = db \cup {[lits |-> c, learnt |-> TRUE,
                                     watched |-> {UIP(c), l}]}
  BY DEF Learn
<1> DEFINE b == BacktrackLevel(c)
           u == KeptTrail(b)
           p == KeptLim(b)
           why == IF Cardinality(c) = 1 THEN {} ELSE c
<1>2. LearntRight(c, UIP(c), u, p)
  BY <1>0, LearntClauseRight
<1>3. trail' = Enqueue(u, UIP(c), why, Len(p)) /\ lim' = p
  BY <1>1, <1>2 DEF Asserted, LearntRight
<1>4. Shape(trail', lim') /\ Extends(u, trail', UIP(c), why, Len(p))
  BY <1>2, <1>3, LearntEnqueued
<1>5. /\ b \in Nat /\ b < Len(lim) /\ Len(p) = b /\ Cuts(trail, lim, b, u, p) /\ Shape(u, p)
      /\ lim[b + 1] = Len(u) /\ UIP(c) \in c /\ UIP(c) \in Lit /\ c \in SUBSET Lit
      /\ \A k \in c : -k \in LitsOf(trail)
  BY <1>2 DEF LearntRight, Conflict
<1>6. qhead' = Len(u) /\ heap' = PutBack(b)
  BY <1>1, <1>5
<1> HIDE DEF b, u, p, why
<1>7. /\ Len(u) \in Nat /\ DOMAIN u = 1 .. Len(u)
      /\ DOMAIN trail' = DOMAIN u \cup {Len(u) + 1}
      /\ \A x \in DOMAIN u : trail'[x] = u[x]
      /\ trail'[Len(u) + 1].lit = UIP(c) /\ trail'[Len(u) + 1].level = b
      /\ LitsOf(trail') = LitsOf(u) \cup {UIP(c)}
  BY <1>4, <1>5, ShapeFacts DEF Extends
<1>8. RootKept(trail, trail')
  <2>1. RootKept(trail, u)
    BY <1>5, RootKeptBy
  <2> QED
    BY <1>7, <2>1 DEF RootKept
<1>9. ModelRight' /\ FramesRight' /\ WarmRight' /\ TrueRight' /\ AskRight'
  BY <1>0, SearchKeeps
<1>10. HeapRight'
  <2>1. LitsOf(KeptTrail(b)) \subseteq LitsOf(trail')
    BY <1>7 DEF u
  <2> QED
    BY <1>0, <1>5, <1>6, <1>8, <2>1, CutKeeps
<1>11. db \subseteq db'
  BY <1>1
<1>12. ok /\ \A x \in 1 .. read' : Covered(input'.clauses[x], trail', db')
  <2>1. ok
    BY <1>0 DEF SoundInv, PcRight
  <2> QED
    BY <1>0, <1>8, <1>11, <2>1, CoveredStep DEF CompleteInv
<1>13. Guarded(trail', db, Len(u), Len(u), {})
  <2> DEFINE z == lim[Len(lim)]
  <2>1. Guarded(trail, db, z, qhead, {})
    BY <1>0, <1>12, Basics DEF CompleteInv, WatchRight, Settled, Level
  <2>2. z \in Nat /\ Len(u) <= z
    BY <1>0, <1>5, Basics
  <2> HIDE DEF z
  <2>3. Guarded(u, db, Len(u), Len(u), {})
    BY <1>5, <1>7, <2>1, <2>2, GuardedCut, Basics
  <2>4. Len(u) \in 0 .. Len(u)
    BY <1>7
  <2> QED
    BY <1>4, <1>5, <2>3, <2>4, GuardedExtend
<1>14. Guarded(trail', db', Len(u), Len(u), {})
  <2>1. CASE Cardinality(c) = 1
    BY <1>1, <1>13, <2>1
  <2>2. CASE Cardinality(c) # 1
    <3>1. PICK l \in c \ {UIP(c)} :
            /\ LevelOf(l) = b
            /\ db' = db \cup {[lits |-> c, learnt |-> TRUE, watched |-> {UIP(c), l}]}
      BY <1>1, <2>2 DEF b
    <3>2. ASSUME NEW x \in DOMAIN trail', -trail'[x].lit \in {UIP(c), l}
          PROVE  \E y \in DOMAIN trail' : trail'[y].lit \in c /\ trail'[y].level <= trail'[x].level
      <4>1. trail'[x].lit \in Lit /\ -trail'[x].lit \notin LitsOf(trail')
        BY <1>4, ShapeFacts
      <4>2. -trail'[x].lit = l
        BY <1>7, <3>2, <4>1
      <4>3. trail'[x].lit # UIP(c)
        <5>1. trail'[x].lit = -l /\ l \in Lit
          BY <1>5, <4>1, <4>2, LitFacts
        <5>2. -l \in LitsOf(u)
          BY <1>2, <3>1 DEF LearntRight
        <5>3. UIP(c) \notin LitsOf(u)
          BY <1>2 DEF LearntRight
        <5> QED
          BY <5>1, <5>2, <5>3
      <4>4. x \in DOMAIN u
        BY <1>7, <4>3
      <4>5. x \in DOMAIN trail /\ trail[x] = u[x] /\ trail'[x] = trail[x]
        BY <1>5, <1>7, <4>4 DEF Cuts
      <4>6. VarOf(trail[x].lit) = VarOf(l)
        BY <4>1, <4>2, <4>5, LitFacts
      <4>7. trail[x].level = b
        BY <3>1, <4>5, <4>6, LevelAt, Basics
      <4> QED
        BY <1>5, <1>7, <4>5, <4>7
    <3>3. \A x \in DOMAIN trail' : -trail'[x].lit \in {UIP(c), l} =>
            \E y \in DOMAIN trail' : trail'[y].lit \in c /\ trail'[y].level <= trail'[x].level
      BY <3>2
    <3>4. PICK e : e = [lits |-> c, learnt |-> TRUE, watched |-> {UIP(c), l}]
      OBVIOUS
    <3>5. e.lits = c /\ e.watched = {UIP(c), l} /\ db' = db \cup {e}
      BY <3>1, <3>4
    <3> QED
      BY <1>13, <3>3, <3>5, GuardedMore
  <2> QED
    BY <2>1, <2>2
<1>15. WatchRight'
  BY <1>0, <1>6, <1>12, <1>14 DEF WatchRight, Settled
<1> QED
  BY <1>9, <1>10, <1>15 DEF CompleteInv

(* Backtracking to level k leaves the watches right. *)
LEMMA WatchCut ==
  ASSUME SoundInv, WatchRight, Quiet, confl = {}, NEW k \in Nat, Shape(trail', lim'),
         Cuts(trail, lim, k, trail', lim'), qhead' = Len(trail'),
         UNCHANGED << input, read, ok, db, visit, confl >>
  PROVE  WatchRight' /\ RootKept(trail, trail') /\ LitsOf(trail') \subseteq LitsOf(trail)
<1>0. visit = {} /\ qhead = Len(trail)
  BY DEF Quiet
<1>1. RootKept(trail, trail')
  BY RootKeptBy
<1>2. LitsOf(trail') \subseteq LitsOf(trail) /\ Len(trail') <= Len(trail)
  BY DEF Cuts
<1>3. ASSUME ok PROVE WatchRight'
  <2>1. \A x \in 1 .. read' : Covered(input'.clauses[x], trail', db')
    BY <1>1, <1>3, CoveredStep
  <2>2. Guarded(trail, db, qhead, qhead, {})
    BY <1>0, <1>3, WatchQuiet
  <2>3. qhead \in Nat /\ qhead' \in Nat /\ qhead' <= qhead
    <3>1. Len(trail') \in Nat /\ Len(trail) \in Nat
      BY ShapeFacts, Basics
    <3> QED
      BY <1>0, <1>2, <3>1
  <2>4. Guarded(trail', db, qhead', qhead', {})
    BY <2>2, <2>3, GuardedCut, Basics
  <2> QED
    BY <1>0, <2>1, <2>4 DEF WatchRight, Settled
<1> QED
  BY <1>1, <1>2, <1>3 DEF WatchRight

LEMMA RestartComplete ==
  ASSUME SoundInv, Glucose, CompleteInv, Restart
  PROVE  CompleteInv'
<1>0. /\ UNCHANGED << input, read, ok, db, visit, confl, problemVariable, inTheHeap,
                      model, activeModel, assumption, pending, pc, answer, frames, calls >>
      /\ pc = "search" /\ visit = {} /\ confl = {} /\ qhead = Len(trail)
      /\ trail' = KeptTrail(0) /\ lim' = KeptLim(0) /\ heap' = PutBack(0)
      /\ qhead' = IF Level > 0 THEN lim[1] ELSE qhead
  BY DEF Restart, loaded, caller, Quiet, CancelUntil
<1>1. 0 \in Nat /\ 0 + 1 = 1
  OBVIOUS
<1>2. /\ Shape(trail', lim') /\ Cuts(trail, lim, 0, trail', lim')
      /\ qhead' \in 0 .. Len(trail') /\ qhead' = Len(trail')
  BY <1>0, <1>1, CutFacts
<1>3. ModelRight' /\ FramesRight' /\ WarmRight' /\ TrueRight' /\ AskRight'
  BY <1>0, SearchKeeps
<1>4. WatchRight' /\ RootKept(trail, trail')
  BY <1>0, <1>1, <1>2, WatchCut DEF CompleteInv, Quiet
<1>5. HeapRight'
  BY <1>0, <1>1, <1>4, CutKeeps
<1> QED
  BY <1>3, <1>4, <1>5 DEF CompleteInv

LEMMA SimplifyComplete ==
  ASSUME SoundInv, Glucose, CompleteInv, Simplify
  PROVE  CompleteInv'
<1>0. /\ UNCHANGED << input, read, ok, trail, lim, qhead, visit, confl, problemVariable, inTheHeap,
                      model, activeModel, assumption, pending, pc, answer, frames, calls >>
      /\ pc = "search" /\ visit = {} /\ confl = {} /\ Len(lim) = 0
      /\ db' = {c \in db : c.lits \cap TrailLits = {}}
      /\ heap' = {v \in problemVariable : Undef(v)}
  BY DEF Simplify, loaded, caller, propagation, Quiet, Level
<1>1. ModelRight' /\ FramesRight' /\ WarmRight' /\ TrueRight' /\ AskRight'
  BY <1>0, SearchKeeps
<1>2. ok
  BY <1>0 DEF SoundInv, PcRight
<1>3. RootKept(trail, trail')
  BY <1>0 DEF RootKept
<1>4. \A d \in db : (\E e \in db' : e = d) \/ \E l \in d.lits : RootTrue(trail', l)
  <2> SUFFICES ASSUME NEW d \in db, d \notin db' PROVE \E l \in d.lits : RootTrue(trail, l)
    BY <1>0
  <2>1. PICK l \in d.lits : l \in LitsOf(trail)
    BY <1>0, TrailLitsOf
  <2>2. RootTrue(trail, l)
    BY <1>0, <2>1, Basics DEF LitsOf, RootTrue
  <2> QED
    BY <2>2
<1>5. \A x \in 1 .. read' : Covered(input'.clauses[x], trail', db')
  BY <1>0, <1>2, <1>3, <1>4, CoveredStep DEF CompleteInv
<1>6. Guarded(trail, db', qhead, qhead, {})
  <2>1. Guarded(trail, db, qhead, qhead, {})
    BY <1>0, <1>2, WatchQuiet DEF CompleteInv
  <2>2. db' \in SUBSET db
    BY <1>0
  <2> QED
    BY <2>1, <2>2, GuardedFewer
<1>7. WatchRight'
  BY <1>0, <1>5, <1>6 DEF WatchRight, Settled
<1>8. HeapRight'
  <2>1. \A v \in problemVariable : Open(LitsOf(trail), v) => v \in heap'
    BY <1>0, TrailLitsOf DEF Open, Undef
  <2> QED
    BY <1>0, <2>1 DEF CompleteInv, HeapRight
<1> QED
  BY <1>1, <1>7, <1>8 DEF CompleteInv

LEMMA ReduceDBComplete ==
  ASSUME SoundInv, Glucose, CompleteInv, ReduceDB
  PROVE  CompleteInv'
<1>0. /\ UNCHANGED << input, read, ok, trail, lim, qhead, visit, confl, problemVariable, inTheHeap,
                      heap, model, activeModel, assumption, pending, pc, answer, frames, calls >>
      /\ pc = "search" /\ visit = {} /\ confl = {}
      /\ \E c \in db : c.learnt /\ db' = db \ {c}
  BY DEF ReduceDB, loaded, caller, propagation, order, Quiet
<1>1. ModelRight' /\ FramesRight' /\ WarmRight' /\ TrueRight' /\ AskRight'
  BY <1>0, SearchKeeps
<1>2. ok
  BY <1>0 DEF SoundInv, PcRight
<1>3. RootKept(trail, trail')
  BY <1>0 DEF RootKept
<1>4. db' \in SUBSET db /\ \A d \in db : ~d.learnt => d \in db'
  BY <1>0
<1>5. \A x \in 1 .. read' : Covered(input'.clauses[x], trail', db')
  BY <1>0, <1>2, <1>3, <1>4, CoveredStep DEF CompleteInv
<1>6. Guarded(trail, db', qhead, qhead, {})
  BY <1>0, <1>2, <1>4, WatchQuiet, GuardedFewer DEF CompleteInv
<1>7. WatchRight'
  BY <1>0, <1>5, <1>6 DEF WatchRight, Settled
<1>8. HeapRight'
  BY <1>0 DEF CompleteInv, HeapRight
<1> QED
  BY <1>1, <1>7, <1>8 DEF CompleteInv

(* An assumption or a decision opens a level. *)
LEMMA NewLevelComplete ==
  ASSUME SoundInv, Glucose, CompleteInv, Ready, NEW l \in Lit,
         l \notin LitsOf(trail), -l \notin LitsOf(trail),
         NextAssumption <= Len(assumption) => l = assumption[NextAssumption],
         lim' = Append(Levels(NextAssumption), Len(trail)),
         trail' = Enqueue(trail, l, {}, NextAssumption),
         heap' = heap \/ heap' = Candidates \ {VarOf(l)},
         UNCHANGED << input, read, ok, db, qhead, visit, confl, problemVariable, inTheHeap, model,
                      activeModel, assumption, pending, pc, answer, frames, calls >>
  PROVE  CompleteInv'
<1>0. pc = "search" /\ visit = {} /\ confl = {} /\ qhead = Len(trail)
  BY DEF Ready, Quiet
<1>1. Shape(trail', lim') /\ Extends(trail, trail', l, {}, Len(lim'))
  BY NewLevel
<1>2. LitsOf(trail') = LitsOf(trail) \cup {l}
  BY <1>1 DEF Extends
<1>3. ModelRight' /\ FramesRight' /\ WarmRight' /\ TrueRight' /\ AskRight'
  BY <1>0, SearchKeeps
<1>4. RootKept(trail, trail')
  BY <1>1, RootKeptBy
<1>5. ok /\ \A x \in 1 .. read' : Covered(input'.clauses[x], trail', db')
  <2>1. ok
    BY <1>0 DEF SoundInv, PcRight
  <2> QED
    BY <1>4, <2>1, CoveredStep DEF CompleteInv
<1>6. Guarded(trail', db, qhead, qhead, {})
  <2>1. Guarded(trail, db, qhead, qhead, {})
    BY <1>0, <1>5, WatchQuiet DEF CompleteInv
  <2>2. qhead \in 0 .. Len(trail)
    BY Basics
  <2> QED
    BY <1>1, <2>1, <2>2, GuardedExtend, Basics
<1>7. WatchRight'
  BY <1>0, <1>5, <1>6 DEF WatchRight, Settled
<1>8. HeapRight'
  <2>1. \A v \in problemVariable : Open(LitsOf(trail'), v) => v \in heap'
    <3> SUFFICES ASSUME NEW v \in problemVariable, Open(LitsOf(trail'), v) PROVE v \in heap'
      OBVIOUS
    <3>1. v \in Var
      BY DEF SoundInv, TypesRight
    <3>2. Open(LitsOf(trail), v) /\ l # v /\ l # -v
      BY <1>2 DEF Open
    <3>3. v \in heap /\ Undef(v)
      BY <1>0, <3>2, TrailLitsOf DEF CompleteInv, HeapRight, Open, Undef
    <3>4. VarOf(l) # v
      BY <3>2, LitFacts
    <3> QED
      BY <3>3, <3>4 DEF Candidates
  <2>2. \A v : RootTrue(trail, v) => RootTrue(trail', v)
    BY <1>4, RootTrueKept
  <2> QED
    BY <1>0, <2>1, <2>2 DEF CompleteInv, HeapRight
<1> QED
  BY <1>3, <1>7, <1>8 DEF CompleteInv

LEMMA AssumeComplete ==
  ASSUME SoundInv, Glucose, CompleteInv, Assume
  PROVE  CompleteInv'
<1> DEFINE p == assumption[NextAssumption]
<1>1. /\ Undef(p) /\ NextAssumption <= Len(assumption) /\ Ready
      /\ lim' = Append(Levels(NextAssumption), Len(trail))
      /\ trail' = Enqueue(trail, p, {}, NextAssumption)
      /\ UNCHANGED << input, read, ok, db, qhead, visit, confl, heap, problemVariable, inTheHeap,
                      model, activeModel, assumption, pending, pc, answer, frames, calls >>
  BY DEF Assume, loaded, propagation, order, caller
<1>2. p \notin LitsOf(trail) /\ -p \notin LitsOf(trail)
  BY <1>1, TrailLitsOf DEF Undef
<1>3. p \in Lit
  <2>1. NextAssumption \in 1 .. Len(assumption)
    BY <1>1, NextFacts, Basics
  <2> QED
    BY <2>1, Basics, ElementOfSeq
<1> QED
  BY <1>1, <1>2, <1>3, NewLevelComplete

LEMMA DecideComplete ==
  ASSUME SoundInv, Glucose, CompleteInv, Decide
  PROVE  CompleteInv'
<1>1. /\ NextAssumption > Len(assumption) /\ Ready
      /\ lim' = Append(Levels(NextAssumption), Len(trail))
      /\ UNCHANGED << input, read, ok, db, qhead, visit, confl, problemVariable, inTheHeap,
                      model, activeModel, assumption, pending, pc, answer, frames, calls >>
  BY DEF Decide, loaded, propagation, caller
<1>2. PICK v \in Candidates : \E l \in {v, -v} :
           /\ v \in Var /\ l \in Lit /\ l \notin LitsOf(trail) /\ -l \notin LitsOf(trail)
           /\ trail' = Enqueue(trail, l, {}, NextAssumption)
           /\ heap' = Candidates \ {v}
  BY DecideFacts
<1>3. PICK l \in {v, -v} :
           /\ v \in Var /\ l \in Lit /\ l \notin LitsOf(trail) /\ -l \notin LitsOf(trail)
           /\ trail' = Enqueue(trail, l, {}, NextAssumption)
           /\ heap' = Candidates \ {v}
  BY <1>2
<1>4. VarOf(l) = v
  BY <1>3, VarIsLit
<1>5. ~(NextAssumption <= Len(assumption))
  BY <1>1, NextFacts, Basics
<1> QED
  BY <1>1, <1>3, <1>4, <1>5, NewLevelComplete

LEMMA AssumptionFailsComplete ==
  ASSUME SoundInv, Glucose, CompleteInv, AssumptionFails
  PROVE  CompleteInv'
<1>0. /\ UNCHANGED << input, read, ok, db, trail, qhead, visit, confl, problemVariable, inTheHeap,
                      heap, model, assumption >>
      /\ pc = "search" /\ visit = {} /\ confl = {}
      /\ Answer(FALSE, trail)
  BY DEF AssumptionFails, loaded, Ready, Quiet
<1>1. HeapRight' /\ FramesRight' /\ WarmRight' /\ AskRight'
  BY <1>0, AnswerKeeps, Basics
<1>2. ~activeModel' /\ answer' = FALSE
  BY <1>0, AnswerFacts, Basics, SeqFacts DEF SoundInv, PcRight, TypesRight
<1>3. WatchRight'
  BY <1>0 DEF CompleteInv, WatchRight, Settled
<1> QED
  BY <1>1, <1>2, <1>3 DEF CompleteInv, ModelRight, TrueRight

------------------------------------------------------------------------------
(* Glucose: a model *)

(* A quiet trail leaves no clause of the input empty or unit. *)
LEMMA FormulaClosed ==
  ASSUME SoundInv, CompleteInv, ok, pc # "add", visit = {}, confl = {}, qhead = Len(trail)
  PROVE  \A c \in formula :
           /\ c \in SUBSET Lit
           /\ c \cap LitsOf(trail) = {} =>
                \E a, b \in c : a # b /\ Open(LitsOf(trail), a) /\ Open(LitsOf(trail), b)
<1> SUFFICES ASSUME NEW c \in formula
             PROVE  /\ c \in SUBSET Lit
                    /\ c \cap LitsOf(trail) = {} =>
                         \E a, b \in c : a # b /\ Open(LitsOf(trail), a) /\ Open(LitsOf(trail), b)
  OBVIOUS
<1>1. input \in Inputs
  BY DEF SoundInv, TypesRight
<1>2. c \in SUBSET Lit /\ \E x \in 1 .. read : c = input.clauses[x]
  BY <1>1, FormulaLits DEF CompleteInv, WarmRight
<1>3. Covered(c, trail, db)
  BY <1>2 DEF CompleteInv, WatchRight
<1>4. Guarded(trail, db, Len(trail), qhead, {})
  BY WatchQuiet DEF CompleteInv
<1>5. \A d \in db : Attachable(d, Models)
  BY DEF SoundInv, DbRight
<1>6. Shape(trail, lim)
  BY Basics
<1> QED
  BY <1>2, <1>3, <1>4, <1>5, <1>6, InputClosed

(* Nothing to decide: the variables asked about are on the trail. *)
LEMMA AllDecided ==
  ASSUME SoundInv, CompleteInv, pc = "search", Candidates = {}, NEW v \in problemVariable
  PROVE  v \in LitsOf(trail) \/ -v \in LitsOf(trail)
<1> SUFFICES ASSUME Open(LitsOf(trail), v) PROVE FALSE
  BY DEF Open
<1>1. v \in heap
  BY DEF CompleteInv, HeapRight
<1>2. Undef(v)
  BY TrailLitsOf DEF Open, Undef
<1> QED
  BY <1>1, <1>2 DEF Candidates

LEMMA BeforeLast ==
  ASSUME NEW all \in Seq(Lit), Len(all) > 0
  PROVE  /\ ToSet(all) \subseteq ToSet(Before(all, 2)) \cup {all[Len(all)]}
         /\ ToSet(Before(all, 2)) \subseteq ToSet(all)
         /\ all[Len(all)] \in ToSet(all) /\ all[Len(all)] \in Lit
<1>1. Len(all) \in Nat /\ DOMAIN all = 1 .. Len(all)
  BY LenProperties
<1>2. 2 \in 1 .. Len(all) + 1 /\ Len(all) + 1 - 2 = Len(all) - 1
  BY <1>1
<1>3. Prefix(Before(all, 2), all, Len(all) - 1)
  BY <1>2, BeforeFacts
<1>4. /\ \A i \in 1 .. Len(all) - 1 : Before(all, 2)[i] = all[i]
      /\ DOMAIN Before(all, 2) = 1 .. Len(all) - 1
  <2>1. Before(all, 2) \in Seq(Lit) /\ Len(Before(all, 2)) = Len(all) - 1
    BY <1>3 DEF Prefix
  <2> QED
    BY <1>3, <2>1, LenProperties DEF Prefix
<1>5. \A i \in 1 .. Len(all) : i \in 1 .. Len(all) - 1 \/ i = Len(all)
  <2>1. PICK n \in Nat : n = Len(all)
    BY <1>1
  <2>2. \A i \in 1 .. n : i \in 1 .. n - 1 \/ i = n
    OBVIOUS
  <2> QED
    BY <2>1, <2>2
<1>6. Len(all) \in DOMAIN all
  BY <1>1
<1>7. ToSet(Before(all, 2)) \subseteq ToSet(all)
  BY <1>3, PrefixSet
<1>8. ToSet(all) \subseteq ToSet(Before(all, 2)) \cup {all[Len(all)]}
  BY <1>1, <1>4, <1>5 DEF ToSet
<1>9. all[Len(all)] \in ToSet(all) /\ all[Len(all)] \in Lit
  BY <1>6, ElementOfSeq, <1>1 DEF ToSet
<1> QED
  BY <1>7, <1>8, <1>9

(* What the outer calls know follows from the assumptions before the last. *)
LEMMA OuterUnits ==
  ASSUME NEW fr \in Seq(Frames), NEW all \in Seq(Lit), NEW M, NEW F, Nested(fr, all, M, F),
         NEW A \in M, ToSet(Before(all, 2)) \subseteq A, Len(fr) > 1
  PROVE  UnitsFrom(fr, 2) \subseteq A
<1> SUFFICES ASSUME NEW y \in 2 .. Len(fr) PROVE fr[y].units \subseteq A
  BY DEF UnitsFrom
<1>1. Len(fr) \in Nat /\ DOMAIN fr = 1 .. Len(fr) /\ Len(all) \in Nat
  BY LenProperties
<1>2. Len(fr) <= Len(all) + 1
  BY DEF Nested
<1>3. y \in DOMAIN fr /\ y > 1 /\ y \in 1 .. Len(all) + 1 /\ 2 \in 1 .. Len(all) + 1 /\ 2 <= y
  BY <1>1, <1>2
<1>4. Implies(M, Before(all, y), fr[y].units)
  BY <1>3 DEF Nested, NestedAt
<1>5. ToSet(Before(all, y)) \subseteq ToSet(Before(all, 2))
  BY <1>3, BeforeWithin
<1> QED
  BY <1>4, <1>5 DEF Implies

(* The assignment found for the variables of the component goes together     *)
(* with a model of the rest.                                                 *)
LEMMA ComponentModel ==
  ASSUME SoundInv, Glucose, CompleteInv, Ready, Candidates = {},
         ToSet(assumption) \subseteq LitsOf(trail)
  PROVE  \/ Sat(Models, assumption)
         \/ /\ Len(frames) > 1
            /\ \/ ~Sat(Models, Before(assumption, 2))
               \/ ~(UnitsFrom(frames, 2) \subseteq LitsOf(trail))
<1> DEFINE T == LitsOf(trail)
<1>0. pc = "search" /\ visit = {} /\ confl = {} /\ qhead = Len(trail) /\ ok
  BY DEF Ready, Quiet, SoundInv, PcRight
<1>1. /\ T \in SUBSET Lit /\ assumption \in Seq(Lit)
      /\ \A l \in T : -l \notin T
  BY Basics, ShapeFacts, LitsOfAt
<1>2. \A c \in formula :
        /\ c \in SUBSET Lit
        /\ c \cap T = {} => \E a, b \in c : a # b /\ Open(T, a) /\ Open(T, b)
  BY <1>0, FormulaClosed
<1>3. \A v \in problemVariable : v \in T \/ -v \in T
  BY <1>0, AllDecided
<1>4. pending = << >> /\ assumption \o pending = assumption
  BY <1>0, <1>1, ConcatProperties, EmptySeq DEF SoundInv, PcRight
<1>5. Nested(frames, assumption, Models, formula)
  BY <1>4 DEF CompleteInv, FramesRight
<1>6. /\ frames \in Seq(Frames) /\ Len(frames) \in Nat /\ DOMAIN frames = 1 .. Len(frames)
      /\ frames = << >> <=> Len(frames) = 0
  BY SeqFacts
<1>7. CASE frames = << >>
  <2>1. \A v \in Var : v \in T \/ -v \in T
    <3> SUFFICES ASSUME NEW v \in Var, v \notin problemVariable PROVE v \in T \/ -v \in T
      BY <1>3
    <3>1. RootTrue(trail, v) \/ RootTrue(trail, -v)
      BY <1>0, <1>7 DEF CompleteInv, HeapRight
    <3> QED
      BY <3>1 DEF RootTrue, LitsOf
  <2>2. \A c \in formula : c \subseteq Lit /\ (c \cap T = {} => \E a \in c : Open(T, a))
    BY <1>2
  <2> HIDE DEF T
  <2>3. T \in Models
    BY <1>1, <2>1, <2>2, TotalIsModel
  <2> QED
    BY <2>3 DEF Sat, T
<1>8. CASE Len(frames) = 1
  <2>1. NestedAt(frames, assumption, Models, formula, 1)
    BY <1>5, <1>6, <1>8 DEF Nested
  <2>2. Sat(Models, Before(assumption, 1))
    BY <1>8, <2>1 DEF NestedAt
  <2> QED
    BY <1>1, <2>2, BeforeFirst
<1>9. CASE Len(frames) > 1
  <2> SUFFICES ASSUME Sat(Models, Before(assumption, 2)), UnitsFrom(frames, 2) \subseteq T
               PROVE  Sat(Models, assumption)
    BY <1>9
  <2> DEFINE V == ToSet(Before(assumption, 2)) \cup UnitsFrom(frames, 2)
             S == frames[1].vars
             last == assumption[Len(assumption)]
  <2>1. PICK A \in Models : ToSet(Before(assumption, 2)) \subseteq A
    BY DEF Sat
  <2>2. UnitsFrom(frames, 2) \subseteq A
    BY <1>1, <1>5, <1>6, <1>9, <2>1, OuterUnits
  <2>3. 1 \in DOMAIN frames /\ frames # << >> /\ 1 < Len(frames) /\ 1 + 1 = 2
    BY <1>6, <1>9
  <2>4. NestedAt(frames, assumption, Models, formula, 1)
    BY <1>5, <2>3 DEF Nested
  <2>5. Len(assumption) \in Nat /\ Len(frames) <= Len(assumption) + 1
    BY <1>5, Basics DEF Nested
  <2>6. Len(assumption) > 0 /\ Len(assumption) + 1 - 1 = Len(assumption)
    BY <1>6, <1>9, <2>5
  <2>7. VarOf(last) \in S /\ Uncrossed(formula, V, S)
    BY <2>3, <2>4, <2>6 DEF NestedAt
  <2>8. /\ ToSet(assumption) \subseteq ToSet(Before(assumption, 2)) \cup {last}
        /\ ToSet(Before(assumption, 2)) \subseteq ToSet(assumption)
        /\ last \in ToSet(assumption)
    BY <1>1, <2>6, BeforeLast
  <2>9. S \in SUBSET Var /\ S = problemVariable
    BY <1>0, <2>3 DEF CompleteInv, HeapRight, SoundInv, TypesRight
  <2>10. V \in SUBSET T /\ V \subseteq A
    BY <2>1, <2>2, <2>8
  <2>11. Decides(T, S)
    BY <1>1, <1>3, <2>9 DEF Decides
  <2>12. Closed(T)
    BY <1>2 DEF Closed
  <2> HIDE DEF T, V, S, last
  <2>13. \E B \in Models : V \subseteq B /\ \A l \in T : VarOf(l) \in S => l \in B
    <3>1. T \in SUBSET Lit
      BY <1>1
    <3>2. S \in SUBSET Var /\ V \in SUBSET T /\ V \subseteq A /\ A \in Models
      BY <2>1, <2>9, <2>10
    <3> QED
      BY <2>7, <2>11, <2>12, <3>1, <3>2, Recombined
  <2>14. last \in T /\ ToSet(assumption) \subseteq V \cup {last}
    BY <2>8 DEF T, V
  <2> QED
    BY <2>7, <2>13, <2>14 DEF Sat
<1> QED
  BY <1>6, <1>7, <1>8, <1>9

LEMMA ModelFoundComplete ==
  ASSUME SoundInv, Glucose, CompleteInv, ModelFound
  PROVE  CompleteInv'
<1>0. /\ UNCHANGED << input, read, ok, db, visit, confl, problemVariable, inTheHeap, assumption >>
      /\ Ready /\ Candidates = {} /\ model' = TrailLits
      /\ Answer(TRUE, trail') /\ trail' = KeptTrail(Len(assumption))
      /\ qhead' = Len(trail')
  BY DEF ModelFound, loaded, Model, KeptAfterModel
<1>1. pc = "search" /\ visit = {} /\ confl = {} /\ qhead = Len(trail) /\ ok
  BY <1>0 DEF Ready, Quiet, SoundInv, PcRight
<1>2. /\ Shape(trail', lim') /\ Reasoned(trail', lim', Models) /\ Assumed(trail', lim', assumption)
      /\ qhead' \in Nat /\ Len(lim') = Len(assumption)
      /\ Cuts(trail, lim, Len(assumption), trail', KeptLim(Len(assumption)))
      /\ ToSet(assumption) \subseteq LitsOf(trail')
  BY ModelFoundTrail
<1>3. Len(assumption) \in Nat /\ assumption \in Seq(Lit) /\ Total(Models) /\ Shape(trail, lim)
  BY Basics
<1>4. Shape(trail', KeptLim(Len(assumption)))
  BY <1>0, <1>3, CutFacts
<1>5. RootKept(trail, trail')
  BY <1>2, <1>3, RootKeptBy
<1>6. LitsOf(trail') \subseteq LitsOf(trail) /\ LitsOf(trail') \subseteq Lit
  BY <1>2, Basics DEF Cuts
<1>7. \A x \in 1 .. read' : Covered(input'.clauses[x], trail', db')
  BY <1>0, <1>1, <1>5, CoveredStep DEF CompleteInv
<1>8. Guarded(trail, db, Len(trail), qhead, {})
  BY <1>1, WatchQuiet DEF CompleteInv
<1>9. Guarded(trail', db, Len(trail'), Len(trail'), {})
  <2>1. Len(trail) \in Nat /\ Len(trail') \in Nat /\ Len(trail') <= Len(trail)
    BY <1>0, <1>2, Basics DEF Cuts
  <2> QED
    BY <1>2, <1>3, <1>4, <1>8, <2>1, GuardedCut
<1>10. WatchRight'
  BY <1>0, <1>1, <1>7, <1>9 DEF WatchRight, Settled
<1>11. Fits(LitsOf(trail), db)
  BY <1>3, <1>8, TrailFits DEF SoundInv, DbRight
<1>12. ModelRight'
  BY <1>0, <1>6, <1>11, TrailLitsOf DEF ModelRight
<1>13. Implies(Models, assumption, LitsOf(trail'))
  <2>1. Len(lim') <= Len(assumption)
    BY <1>2, <1>3
  <2> QED
    BY <1>2, <1>3, <2>1, AssumptionsImply DEF Implies
<1>14. \/ Sat(Models, assumption)
       \/ /\ Len(frames) > 1
          /\ \/ ~Sat(Models, Before(assumption, 2))
             \/ ~(UnitsFrom(frames, 2) \subseteq LitsOf(trail))
  BY <1>0, <1>2, <1>6, ComponentModel
<1>15. frames = << >> => Models # {}
  <2>1. frames = << >> => ~(Len(frames) > 1)
    OBVIOUS
  <2> QED
    BY <1>14, <2>1 DEF Sat
<1>16. HeapRight' /\ FramesRight' /\ WarmRight' /\ AskRight'
  BY <1>0, <1>1, <1>6, <1>13, <1>15, AnswerKeeps
<1>17. TrueRight'
  <2>1. /\ frames' \in Seq(Frames) /\ Len(frames') = Len(frames)
        /\ \A x \in DOMAIN frames : x > 1 => frames'[x] = frames[x]
        /\ \A x \in DOMAIN frames : frames'[x].vars = frames[x].vars
    BY <1>0, <1>6, AnswerFacts, SeqFacts
  <2>2. UnitsFrom(frames', 2) = UnitsFrom(frames, 2)
    BY <2>1, SeqFacts, NestedAnswer DEF CompleteInv, FramesRight
  <2>3. Models' = Models
    BY <1>0, SameInput
  <2> QED
    BY <1>0, <1>1, <1>6, <1>14, <2>1, <2>2, <2>3 DEF TrueRight
<1> QED
  BY <1>10, <1>12, <1>16, <1>17 DEF CompleteInv

------------------------------------------------------------------------------
(* Glucose: the caller *)

LEMMA NestedOne ==
  ASSUME NEW S \in SUBSET Var, NEW all \in Seq(Lit), NEW M, NEW F,
         Sat(M, all), Uncrossed(F, ToSet(all), S)
  PROVE  Nested(<< Frame(S) >>, all, M, F)
<1> DEFINE fr == << Frame(S) >>
<1>1. fr \in Seq(Frames) /\ Len(fr) = 1 /\ fr[1].vars = S /\ DOMAIN fr = {1}
  BY OneFrame DEF Frame
<1>2. Before(all, 1) = all
  BY BeforeFirst
<1>3. Len(all) \in Nat
  BY LenProperties
<1> HIDE DEF fr
<1>4. NestedAt(fr, all, M, F, 1)
  BY <1>1, <1>2 DEF NestedAt
<1>5. Len(fr) <= Len(all) + 1
  BY <1>1, <1>3
<1>6. Nested(fr, all, M, F)
  BY <1>1, <1>4, <1>5 DEF Nested
<1> QED
  BY <1>6 DEF fr

(* restart and setAssumption: the trail goes back to level 0. *)
LEMMA SetAssumptionComplete ==
  ASSUME SoundInv, Glucose, CompleteInv, Quiet, confl = {}, NEW assums \in Seq(Lit),
         SetAssumption(assums), pc \notin {"search", "return"},
         Nested(frames', assums, Models, formula),
         read = Len(input.clauses), frames' = << >> => calls = 0 \/ Models # {}
  PROVE  CompleteInv'
<1>0. /\ UNCHANGED << input, read, ok, db, visit, confl, model, activeModel, answer, calls >>
      /\ PopAssumption(Len(assumption)) /\ pending' = assums /\ pc' = "ask"
      /\ visit = {} /\ qhead = Len(trail)
  BY DEF SetAssumption, loaded, Quiet
<1>1. Models' = Models /\ formula' = formula
  BY <1>0, SameInput
<1>2. Len(assumption) \in 0 .. Len(assumption) /\ Len(assumption) - Len(assumption) = 0
  BY Basics
<1>3. /\ Shape(trail', lim') /\ assumption' \in Seq(Lit) /\ Len(assumption') = 0
      /\ Cuts(trail, lim, 0, trail', lim')
      /\ qhead' \in 0 .. Len(trail') /\ qhead' = Len(trail')
      /\ Len(lim') \in Nat /\ Len(lim') <= 0
  BY <1>0, <1>2, PopFacts
<1>4. assumption' = << >> /\ assumption' \o pending' = assums
  <2>1. assumption' = << >>
    BY <1>3, EmptySeq
  <2> QED
    BY <1>0, <2>1, ConcatEmptySeq
<1>5. lim' = << >>
  <2>1. Len(lim') = 0 /\ lim' \in Seq(Nat)
    BY <1>3 DEF Shape
  <2> QED
    BY <2>1, EmptySeq
<1>6. 0 \in Nat /\ WatchRight
  BY DEF CompleteInv
<1>7. WatchRight' /\ LitsOf(trail') \subseteq LitsOf(trail)
  BY <1>0, <1>3, <1>6, WatchCut
<1>8. ModelRight'
  BY <1>0, <1>7 DEF CompleteInv, ModelRight
<1>9. FramesRight'
  BY <1>0, <1>1, <1>4 DEF FramesRight
<1>10. WarmRight'
  <2>1. frames' = << >> => calls' \in Nat /\ ((calls' > 1 \/ calls' = 1) => Models' # {})
    BY <1>0, <1>1 DEF SoundInv, TypesRight
  <2> QED
    BY <1>0, <1>5, <2>1 DEF WarmRight
<1>11. HeapRight' /\ TrueRight' /\ AskRight'
  BY <1>0, <1>3 DEF HeapRight, TrueRight, AskRight
<1> QED
  BY <1>7, <1>8, <1>9, <1>10, <1>11 DEF CompleteInv

LEMMA NoFrames ==
  ASSUME NEW all \in Seq(Lit), NEW M, NEW F
  PROVE  Nested(<< >>, all, M, F)
<1>1. Len(all) \in Nat
  BY LenProperties
<1>2. Len(<< >>) <= Len(all) + 1
  BY <1>1
<1> QED
  BY <1>2 DEF Nested

LEMMA LoadedComplete ==
  ASSUME SoundInv, Glucose, CompleteInv, Loaded
  PROVE  CompleteInv'
<1>1. /\ pc = "add" /\ Quiet /\ confl = {} /\ read = Len(input.clauses)
      /\ SetAssumption(<< >>) /\ frames' = frames
  BY DEF Loaded
<1>2. frames = << >> /\ calls = 0
  BY <1>1 DEF SoundInv, PcRight, CompleteInv, WarmRight
<1>3. << >> \in Seq(Lit)
  OBVIOUS
<1>4. Nested(frames', << >>, Models, formula)
  BY <1>1, <1>2, <1>3, NoFrames
<1> QED
  BY <1>1, <1>2, <1>3, <1>4, SetAssumptionComplete

(* warmStart goes on. *)
LEMMA WarmModels ==
  ASSUME SoundInv, CompleteInv, Warm
  PROVE  /\ Models # {} /\ frames = << >> /\ pc = "answered"
         /\ Quiet /\ confl = {} /\ read = Len(input.clauses)
<1>1. frames = << >> /\ pc = "answered" /\ (calls > 1 \/ answer)
  BY DEF Warm
<1>2. ~(Len(frames) > 1)
  BY <1>1
<1>3. Models # {}
  BY <1>1, <1>2 DEF CompleteInv, WarmRight, TrueRight, Sat
<1> QED
  BY <1>1, <1>3, StillQuiet DEF CompleteInv, WarmRight

LEMMA WarmQueryComplete ==
  ASSUME SoundInv, Glucose, CompleteInv, WarmQuery
  PROVE  CompleteInv'
<1>1. PICK q \in Queries : SetAssumption(q)
  BY DEF WarmQuery
<1>2. q \in Seq(Lit)
  BY SolverAssumption
<1>3. Warm /\ frames' = frames
  BY DEF WarmQuery
<1>4. Nested(frames', q, Models, formula)
  BY <1>2, <1>3, WarmModels, NoFrames
<1> QED
  BY <1>1, <1>2, <1>3, <1>4, WarmModels, SetAssumptionComplete

LEMMA WarmDoneComplete ==
  ASSUME SoundInv, Glucose, CompleteInv, WarmDone
  PROVE  CompleteInv'
<1>1. Warm /\ SetAssumption(<< >>) /\ frames' = << Frame(Var) >>
  BY DEF WarmDone
<1>2. << >> \in Seq(Lit) /\ ToSet(<< >>) = {}
  BY DEF ToSet
<1>3. Sat(Models, << >>)
  BY <1>1, <1>2, WarmModels DEF Sat
<1>4. Uncrossed(formula, ToSet(<< >>), Var)
  BY UncrossedVar, FormulaLits DEF SoundInv, TypesRight
<1>5. Nested(frames', << >>, Models, formula)
  BY <1>1, <1>2, <1>3, <1>4, NestedOne
<1>6. frames' # << >>
  BY <1>1, OneFrame
<1> QED
  BY <1>1, <1>2, <1>5, <1>6, WarmModels, SetAssumptionComplete

LEMMA CountComplete ==
  ASSUME SoundInv, Glucose, CompleteInv, Count
  PROVE  CompleteInv'
<1>1. PICK call \in CountCalls : /\ Satisfiable(call.assums) /\ Whole(ToSet(call.assums), call.vars)
                                 /\ SetAssumption(call.assums) /\ frames' = << Frame(call.vars) >>
  BY DEF Count
<1>2. call.assums \in Seq(Lit) /\ call.vars \in SUBSET Var
  BY SolverAssumption
<1>3. Sat(Models, call.assums)
  BY <1>1 DEF Satisfiable, Sat
<1>4. Uncrossed(formula, ToSet(call.assums), call.vars)
  BY <1>1, WholeIs
<1>5. Nested(frames', call.assums, Models, formula)
  BY <1>1, <1>2, <1>3, <1>4, NestedOne
<1>6. frames' # << >>
  BY <1>1, <1>2, OneFrame
<1>7. pc = "done"
  BY DEF Count
<1>8. Quiet /\ confl = {} /\ read = Len(input.clauses)
  BY <1>7, StillQuiet DEF CompleteInv, WarmRight
<1> QED
  BY <1>1, <1>2, <1>5, <1>6, <1>7, <1>8, SetAssumptionComplete

LEMMA WarmFailsComplete ==
  ASSUME SoundInv, Glucose, CompleteInv, WarmFails
  PROVE  CompleteInv'
<1>1. /\ UNCHANGED << input, read, ok, db, trail, lim, qhead, visit, confl, model,
                      activeModel, assumption, pending, answer, frames, calls >>
      /\ pc = "answered" /\ pc' = "unsat" /\ frames = << >>
  BY DEF WarmFails, loaded, propagation, order
<1>2. Models' = Models /\ formula' = formula
  BY <1>1, SameInput
<1>3. WatchRight'
  BY <1>1 DEF CompleteInv, WatchRight, Settled
<1>4. ModelRight' /\ HeapRight' /\ TrueRight' /\ AskRight'
  BY <1>1 DEF CompleteInv, ModelRight, HeapRight, TrueRight, AskRight
<1>5. FramesRight' /\ WarmRight'
  BY <1>1, <1>2 DEF CompleteInv, FramesRight, WarmRight
<1> QED
  BY <1>3, <1>4, <1>5 DEF CompleteInv

LEMMA PushedSame ==
  ASSUME NEW a \in Seq(Lit), NEW b \in Seq(Lit), b # << >>
  PROVE  Append(a, Head(b)) \o Tail(b) = a \o b
<1>1. Head(b) \in Lit /\ Tail(b) \in Seq(Lit) /\ << Head(b) >> \in Seq(Lit)
  BY HeadTailProperties
<1>2. Append(a, Head(b)) = a \o << Head(b) >>
  BY <1>1, AppendIsConcat
<1>3. << Head(b) >> \o Tail(b) = b
  <2>1. /\ << Head(b) >> \o Tail(b) \in Seq(Lit)
        /\ Len(<< Head(b) >> \o Tail(b)) = Len(<< Head(b) >>) + Len(Tail(b))
        /\ \A i \in 1 .. Len(<< Head(b) >>) + Len(Tail(b)) :
             (<< Head(b) >> \o Tail(b))[i]
               = IF i <= Len(<< Head(b) >>) THEN << Head(b) >>[i] ELSE Tail(b)[i - Len(<< Head(b) >>)]
    BY <1>1, ConcatProperties
  <2>2. PICK n \in Nat : n = Len(b)
    BY LenProperties
  <2>3. /\ Len(Tail(b)) = n - 1 /\ Len(<< Head(b) >>) = 1 /\ n >= 1
        /\ \A i \in 1 .. n - 1 : Tail(b)[i] = b[i + 1]
        /\ Head(b) = b[1] /\ << Head(b) >>[1] = b[1]
    BY <2>2, HeadTailProperties, EmptySeq
  <2>4. 1 + (n - 1) = n
    BY <2>2
  <2>5. ASSUME NEW i \in 1 .. n PROVE (<< Head(b) >> \o Tail(b))[i] = b[i]
    <3>0. (<< Head(b) >> \o Tail(b))[i] = IF i <= 1 THEN << Head(b) >>[i] ELSE Tail(b)[i - 1]
      BY <2>1, <2>3, <2>4
    <3>1. CASE i = 1
      <4>1. 1 <= 1
        OBVIOUS
      <4> QED
        BY <2>3, <3>0, <3>1, <4>1
    <3>2. CASE i > 1
      <4>1. ~(i <= 1) /\ i - 1 \in 1 .. n - 1 /\ (i - 1) + 1 = i
        BY <3>2
      <4> QED
        BY <2>3, <3>0, <4>1
    <3>3. i = 1 \/ i > 1
      BY <2>2
    <3> QED
      BY <3>1, <3>2, <3>3
  <2> QED
    BY <2>1, <2>2, <2>3, <2>4, <2>5, SeqEqual
<1> QED
  BY <1>1, <1>2, <1>3, ConcatAssociative

LEMMA EnqueueExtends ==
  ASSUME NEW t \in Seq(Entries), NEW l \in Lit, NEW level \in Nat
  PROVE  Extends(t, Enqueue(t, l, {}, level), l, {}, level)
<1> DEFINE e == [lit |-> l, why |-> {}, level |-> level]
           u == Enqueue(t, l, {}, level)
<1>1. e \in Entries /\ e.lit = l
  BY DEF Entries
<1>2. u = Append(t, e)
  BY DEF Enqueue
<1>3. Len(t) \in Nat /\ DOMAIN t = 1 .. Len(t)
  BY LenProperties
<1> HIDE DEF e, u
<1>4. /\ u \in Seq(Entries)
      /\ Len(u) = Len(t) + 1
      /\ \A x \in 1 .. Len(t) : u[x] = t[x]
      /\ u[Len(t) + 1] = e
  BY <1>1, <1>2, AppendProperties
<1>5. DOMAIN u = 1 .. Len(t) + 1
  BY <1>4, LenProperties
<1>6. DOMAIN u = DOMAIN t \cup {Len(t) + 1}
  BY <1>3, <1>5
<1>7. LitsOf(u) = LitsOf(t) \cup {l}
  BY <1>1, <1>3, <1>4, <1>6 DEF LitsOf
<1>8. Extends(t, u, l, {}, level)
  BY <1>3, <1>4, <1>6, <1>7 DEF e, Extends
<1> QED
  BY <1>8 DEF u

LEMMA PushAssumptionComplete ==
  ASSUME SoundInv, Glucose, CompleteInv, PushAssumption
  PROVE  CompleteInv'
<1> DEFINE l == Head(pending)
<1>0. /\ UNCHANGED << input, read, ok, db, qhead, visit, heap, model, pc, answer, frames, calls >>
      /\ pc = "ask" /\ pending # << >> /\ confl' = {} /\ pending' = Tail(pending)
      /\ assumption' = Append(assumption, l) /\ activeModel' = StillActive(l)
      /\ lim' = IF StillActive(l) THEN Append(lim, Len(trail)) ELSE lim
      /\ trail' = IF StillActive(l) THEN Enqueue(trail, l, {}, Level + 1) ELSE trail
  BY DEF PushAssumption, loaded, order
<1>1. confl = {} /\ visit = {} /\ qhead = Len(trail)
  BY DEF PushAssumption, Quiet, CompleteInv, AskRight
<1>2. l \in Lit /\ assumption \in Seq(Lit) /\ pending \in Seq(Lit)
  BY <1>0, SeqFacts, Basics, HeadTailProperties
<1>3. assumption' \o pending' = assumption \o pending
  BY <1>0, <1>2, PushedSame
<1>4. Models' = Models /\ formula' = formula
  BY <1>0, SameInput
<1> HIDE DEF l
<1>5. FramesRight'
  BY <1>0, <1>3, <1>4 DEF CompleteInv, FramesRight
<1>6. frames = << >> => ~StillActive(l)
  BY <1>0 DEF SoundInv, PcRight, StillActive
<1>7. WarmRight'
  BY <1>0, <1>4, <1>6 DEF CompleteInv, WarmRight
<1>8. HeapRight' /\ TrueRight' /\ AskRight'
  BY <1>0, <1>1 DEF HeapRight, TrueRight, AskRight
<1>9. CASE ~StillActive(l)
  <2>1. trail' = trail /\ lim' = lim /\ ~activeModel'
    BY <1>0, <1>9
  <2>2. WatchRight' /\ ModelRight'
    BY <1>0, <1>1, <2>1 DEF CompleteInv, WatchRight, ModelRight, Settled
  <2> QED
    BY <1>5, <1>7, <1>8, <2>2 DEF CompleteInv
<1>10. CASE StillActive(l)
  <2>1. PICK k \in Nat : k = Level + 1
    BY Basics
  <2>2. trail \in Seq(Entries) /\ trail' = Enqueue(trail, l, {}, k)
    BY <1>0, <1>10, <2>1, Basics DEF Shape
  <2>3. Extends(trail, trail', l, {}, k)
    BY <1>2, <2>2, EnqueueExtends
  <2>4. RootKept(trail, trail')
    BY <2>3, RootKeptBy
  <2>5. ASSUME ok PROVE WatchRight'
    <3>1. \A x \in 1 .. read' : Covered(input'.clauses[x], trail', db')
      BY <1>0, <2>4, <2>5, CoveredStep DEF CompleteInv
    <3>2. Guarded(trail, db, qhead, qhead, {}) /\ qhead \in 0 .. Len(trail)
      BY <1>1, <2>5, WatchQuiet, Basics DEF CompleteInv
    <3>3. Guarded(trail', db, qhead, qhead, {})
      BY <2>3, <3>2, GuardedExtend, Basics
    <3> QED
      BY <1>0, <1>1, <3>1, <3>3 DEF WatchRight, Settled
  <2>6. ModelRight'
    <3>1. activeModel /\ l \in model
      BY <1>10 DEF StillActive
    <3>2. LitsOf(trail) \subseteq model /\ Fits(model, db)
      BY <1>0, <3>1 DEF CompleteInv, ModelRight
    <3>3. LitsOf(trail') = LitsOf(trail) \cup {l}
      BY <2>3 DEF Extends
    <3> QED
      BY <1>0, <3>1, <3>2, <3>3 DEF ModelRight
  <2> QED
    BY <1>0, <1>5, <1>7, <1>8, <2>5, <2>6 DEF CompleteInv, WatchRight
<1> QED
  BY <1>9, <1>10

LEMMA SolveComplete ==
  ASSUME SoundInv, Glucose, CompleteInv, Solve
  PROVE  CompleteInv'
<1> DEFINE vars == IF frames = << >> THEN Var ELSE frames[1].vars
           open == {v \in vars : Undef(v)}
<1>0. /\ UNCHANGED << input, read, ok, db, trail, lim, qhead, visit, activeModel, assumption,
                      pending, answer, frames >>
      /\ pc = "ask" /\ confl' = {} /\ calls' = calls + 1
      /\ ~QuickExit
      /\ pc' = IF ~ok THEN "return" ELSE "search"
      /\ problemVariable' = IF frames = << >> THEN open ELSE vars
      /\ heap' = open
  BY DEF Solve, loaded, QuickExit
<1>1. confl = {}
  BY <1>0 DEF CompleteInv, AskRight
<1>2. Models' = Models /\ formula' = formula
  BY <1>0, SameInput
<1>3. WatchRight'
  BY <1>0, <1>1 DEF CompleteInv, WatchRight, Settled
<1>4. FramesRight'
  BY <1>0, <1>2 DEF CompleteInv, FramesRight
<1>5. WarmRight'
  <2>1. calls \in Nat
    BY DEF SoundInv, TypesRight
  <2>2. calls + 1 > 1 => calls > 1 \/ calls = 1
    BY <2>1
  <2>3. frames = << >> /\ (calls > 1 \/ calls = 1) => Models # {}
    BY <1>0 DEF CompleteInv, WarmRight
  <2>4. read = Len(input.clauses)
    BY <1>0 DEF CompleteInv, WarmRight
  <2> QED
    BY <1>0, <1>2, <2>2, <2>3, <2>4 DEF WarmRight
<1>6. ModelRight' /\ TrueRight' /\ AskRight'
  BY <1>0 DEF ModelRight, TrueRight, AskRight
<1>7. HeapRight'
  <2>1. \A v \in problemVariable' : Open(LitsOf(trail), v) => v \in heap'
    BY <1>0, TrailLitsOf DEF Open, Undef
  <2>2. ASSUME frames = << >>, NEW v \in Var \ open
        PROVE  RootTrue(trail, v) \/ RootTrue(trail, -v)
    <3>1. v \in LitsOf(trail) \/ -v \in LitsOf(trail)
      BY <2>2, TrailLitsOf DEF Undef
    <3>2. Len(lim) = 0
      BY <1>0, <2>2 DEF CompleteInv, WarmRight
    <3>3. \A x \in DOMAIN trail : trail[x].level = 0
      BY <3>2, Basics
    <3> QED
      BY <3>1, <3>3 DEF RootTrue, LitsOf
  <2> QED
    BY <1>0, <2>1, <2>2 DEF HeapRight
<1> QED
  BY <1>3, <1>4, <1>5, <1>6, <1>7 DEF CompleteInv

LEMMA SolveAtOnceComplete ==
  ASSUME SoundInv, Glucose, CompleteInv, SolveAtOnce
  PROVE  CompleteInv'
<1>0. /\ UNCHANGED << input, read, ok, db, trail, lim, qhead, visit, confl, heap, model, assumption >>
      /\ pc = "return" /\ ~QuickExit /\ Answer(FALSE, trail)
  BY DEF SolveAtOnce, loaded, propagation, order, QuickExit
<1>1. HeapRight' /\ FramesRight' /\ WarmRight' /\ AskRight'
  BY <1>0, AnswerKeeps, Basics
<1>2. ~activeModel' /\ answer' = FALSE
  BY <1>0, AnswerFacts, Basics, SeqFacts DEF SoundInv, PcRight, TypesRight
<1>3. WatchRight'
  BY <1>0 DEF CompleteInv, WatchRight, Settled
<1> QED
  BY <1>1, <1>2, <1>3 DEF CompleteInv, ModelRight, TrueRight

(* Under what the innermost call knows its variables are cut off. *)
LEMMA InnerWhole ==
  ASSUME NEW fr \in Seq(Frames), NEW all \in Seq(Lit), NEW M, NEW F, Nested(fr, all, M, F), Len(fr) > 0
  PROVE  Uncrossed(F, ToSet(all) \cup UnitsFrom(fr, 1), fr[1].vars)
<1>1. Len(fr) \in Nat /\ DOMAIN fr = 1 .. Len(fr) /\ Len(all) \in Nat
  BY LenProperties
<1>2. 1 \in DOMAIN fr
  BY <1>1
<1>3. NestedAt(fr, all, M, F, 1)
  BY <1>2 DEF Nested
<1>4. CASE Len(fr) = 1
  <2>1. Uncrossed(F, ToSet(all), fr[1].vars)
    BY <1>3, <1>4, BeforeFirst DEF NestedAt
  <2> QED
    BY <2>1, UncrossedMore
<1>5. CASE Len(fr) > 1
  <2>1. 1 < Len(fr) /\ 1 + 1 = 2
    BY <1>1, <1>5
  <2>2. Uncrossed(F, ToSet(Before(all, 2)) \cup UnitsFrom(fr, 2), fr[1].vars)
    BY <1>3, <2>1 DEF NestedAt
  <2>3. Len(all) > 0
    BY <1>1, <1>5 DEF Nested
  <2>4. ToSet(Before(all, 2)) \subseteq ToSet(all)
    BY <2>3, BeforeLast
  <2>5. UnitsFrom(fr, 2) \subseteq UnitsFrom(fr, 1)
    <3>1. \A y \in 2 .. Len(fr) : y \in 1 .. Len(fr)
      BY <1>1
    <3> QED
      BY <3>1 DEF UnitsFrom
  <2>6. ToSet(Before(all, 2)) \cup UnitsFrom(fr, 2) \subseteq ToSet(all) \cup UnitsFrom(fr, 1)
    BY <2>4, <2>5
  <2> QED
    BY <2>2, <2>6, UncrossedMore
<1> QED
  BY <1>1, <1>4, <1>5

LEMMA DeeperComplete ==
  ASSUME SoundInv, Glucose, CompleteInv, Deeper
  PROVE  CompleteInv'
<1>0. /\ UNCHANGED << input, read, ok, db, trail, lim, qhead, visit, confl, heap, model,
                      activeModel, assumption, answer, calls >>
      /\ pc \in {"answered", "back"} /\ pc' = "ask" /\ frames # << >> /\ frames[1].sat
  BY DEF Deeper, loaded, propagation, order
<1>1. Models' = Models /\ formula' = formula
  BY <1>0, SameInput
<1>2. visit = {} /\ confl = {} /\ qhead = Len(trail) /\ pending = << >>
  BY <1>0, StillQuiet DEF SoundInv, PcRight
<1>3. /\ frames \in Seq(Frames) /\ Len(frames) \in Nat /\ Len(frames) > 0
      /\ DOMAIN frames = 1 .. Len(frames)
      /\ assumption \in Seq(Lit) /\ assumption \o pending = assumption
  <2>1. frames \in Seq(Frames) /\ assumption \in Seq(Lit) /\ Len(frames) # 0 /\ Len(frames) \in Nat
    BY <1>0, SeqFacts, Basics
  <2>2. assumption \o << >> = assumption
    BY <2>1, ConcatEmptySeq
  <2> QED
    BY <1>2, <2>1, <2>2, SeqFacts
<1>4. /\ Nested(frames, assumption, Models, formula)
      /\ Implies(Models, assumption, frames[1].units)
  BY <1>0, <1>3 DEF CompleteInv, FramesRight
<1>5. PICK comp \in SUBSET Var, l \in Lit :
        /\ comp \in Components \cup {frames[1].vars}
        /\ VarOf(l) \in comp
        /\ frames' = << Frame(comp) >> \o frames
        /\ frames' \in Seq(Frames) /\ Len(frames') = Len(frames) + 1
        /\ frames'[1] = Frame(comp)
        /\ \A x \in DOMAIN frames : frames'[x + 1] = frames[x]
        /\ pending' = << l >> /\ pending' \in Seq(Lit) /\ Len(pending') = 1
  BY DeeperFacts
<1>6. Value = ToSet(assumption) \cup UnitsFrom(frames, 1)
  BY <1>3 DEF Value, UnitsFrom
<1>7. Uncrossed(formula, Value, frames[1].vars)
  BY <1>3, <1>4, <1>6, InnerWhole
<1>8. Uncrossed(formula, Value, comp)
  BY <1>5, <1>7, WholeIs, ComponentWhole
<1>9. frames'[1].vars = comp
  BY <1>5 DEF Frame
<1>10. Nested(frames', Append(assumption, l), Models, formula)
  BY <1>3, <1>4, <1>5, <1>6, <1>8, <1>9, NestedDeeper
<1>11. assumption' \o pending' = Append(assumption, l)
  BY <1>0, <1>3, <1>5, AppendIsConcat
<1>12. FramesRight'
  BY <1>0, <1>1, <1>10, <1>11 DEF FramesRight
<1>13. WatchRight' /\ ModelRight'
  BY <1>0 DEF CompleteInv, WatchRight, ModelRight, Settled
<1>14. frames' # << >>
  <2>1. Len(frames') # 0
    BY <1>3, <1>5
  <2> QED
    BY <2>1
<1>15. WarmRight'
  BY <1>0, <1>14 DEF CompleteInv, WarmRight
<1>16. HeapRight' /\ TrueRight' /\ AskRight'
  BY <1>0, <1>2 DEF HeapRight, TrueRight, AskRight
<1> QED
  BY <1>12, <1>13, <1>15, <1>16 DEF CompleteInv

LEMMA BackComplete ==
  ASSUME SoundInv, Glucose, CompleteInv, Back
  PROVE  CompleteInv'
<1>0. /\ UNCHANGED << input, read, ok, db, visit, confl, problemVariable, inTheHeap,
                      model, activeModel, pending, answer, calls >>
      /\ pc \in {"answered", "back"} /\ frames # << >> /\ frames' = Tail(frames)
  BY DEF Back, loaded
<1>1. Models' = Models /\ formula' = formula
  BY <1>0, SameInput
<1>2. Quiet /\ visit = {} /\ confl = {} /\ qhead = Len(trail) /\ pending = << >>
  BY <1>0, StillQuiet DEF SoundInv, PcRight
<1>3. /\ frames \in Seq(Frames) /\ Len(frames) \in Nat
      /\ frames' \in Seq(Frames) /\ Len(frames') = Len(frames) - 1
      /\ DOMAIN frames' = 1 .. Len(frames')
      /\ \A x \in 1 .. Len(frames') : frames'[x] = frames[x + 1]
      /\ Len(frames) > 0
  <2>1. frames \in Seq(Frames) /\ Len(frames) \in Nat /\ Len(frames) # 0
    BY <1>0, SeqFacts
  <2>2. Len(frames) > 0
    BY <2>1
  <2> QED
    BY <1>0, <2>1, <2>2, HeadTailProperties, LenProperties
<1>4. assumption \in Seq(Lit) /\ assumption \o pending = assumption
  <2>1. assumption \in Seq(Lit)
    BY Basics
  <2>2. assumption \o << >> = assumption
    BY <2>1, ConcatEmptySeq
  <2> QED
    BY <1>2, <2>1, <2>2
<1>5. Nested(frames, assumption, Models, formula)
  BY <1>4 DEF CompleteInv, FramesRight
<1>6. CASE Len(frames) > 1
  <2>1. PopAssumption(1) /\ pc' = "back"
    BY <1>6 DEF Back
  <2>2. 1 \in 0 .. Len(assumption) /\ Len(assumption) - 1 \in Nat
    <3>1. Len(frames) <= Len(assumption) + 1 /\ Len(assumption) \in Nat
      BY <1>5, Basics DEF Nested
    <3> QED
      BY <1>3, <1>6, <3>1
  <2>3. /\ Shape(trail', lim') /\ assumption' \in Seq(Lit)
        /\ Cuts(trail, lim, Len(assumption) - 1, trail', lim')
        /\ Prefix(assumption', assumption, Len(assumption) - 1)
        /\ qhead' = Len(trail')
    BY <1>2, <2>1, <2>2, PopFacts
  <2>4. WatchRight' /\ LitsOf(trail') \subseteq LitsOf(trail)
    BY <1>0, <1>2, <2>2, <2>3, WatchCut DEF CompleteInv
  <2>5. ModelRight'
    BY <1>0, <2>1, <2>4 DEF CompleteInv, ModelRight
  <2>6. /\ Nested(frames', assumption', Models, formula)
        /\ Implies(Models, assumption', frames'[1].units)
    BY <1>3, <1>4, <1>5, <1>6, <2>3, NestedBack
  <2>7. assumption' \o pending' = assumption'
    BY <1>0, <1>2, <2>3, ConcatEmptySeq
  <2>8. FramesRight'
    BY <1>1, <2>6, <2>7 DEF FramesRight
  <2>9. WarmRight'
    BY <1>0, <2>1 DEF CompleteInv, WarmRight
  <2>10. HeapRight' /\ TrueRight' /\ AskRight'
    BY <2>1 DEF HeapRight, TrueRight, AskRight
  <2> QED
    BY <2>4, <2>5, <2>8, <2>9, <2>10 DEF CompleteInv
<1>7. CASE ~(Len(frames) > 1)
  <2>1. pc' = "done" /\ UNCHANGED << assumption, trail, lim, qhead, heap >>
    BY <1>7 DEF Back
  <2>2. Len(frames') = 0
    BY <1>3, <1>7
  <2>3. frames' = << >>
    BY <1>3, <2>2, EmptySeq
  <2>4. Nested(frames', assumption' \o pending', Models', formula')
    BY <1>0, <1>1, <1>4, <2>1, <2>3, NoFrames
  <2>5. FramesRight'
    BY <2>3, <2>4 DEF FramesRight
  <2>6. WatchRight' /\ ModelRight'
    BY <1>0, <2>1 DEF CompleteInv, WatchRight, ModelRight, Settled
  <2>7. WarmRight'
    BY <1>0, <2>1 DEF CompleteInv, WarmRight
  <2>8. HeapRight' /\ TrueRight' /\ AskRight'
    BY <2>1 DEF HeapRight, TrueRight, AskRight
  <2> QED
    BY <2>5, <2>6, <2>7, <2>8 DEF CompleteInv
<1> QED
  BY <1>6, <1>7

LEMMA RestComplete ==
  ASSUME CompleteInv, UNCHANGED solverVars
  PROVE  CompleteInv'
<1>0. UNCHANGED << input, read, ok, db, trail, lim, qhead, visit, confl, problemVariable, inTheHeap,
                   heap, restarts, model, activeModel, assumption, pending, pc, answer, frames, calls >>
  BY DEF solverVars, loaded, propagation, order, caller
<1>1. Models' = Models /\ formula' = formula
  BY <1>0, SameInput
<1>2. WatchRight' /\ ModelRight' /\ HeapRight'
  BY <1>0 DEF CompleteInv, WatchRight, ModelRight, HeapRight, Settled
<1>3. FramesRight' /\ WarmRight'
  BY <1>0, <1>1 DEF CompleteInv, FramesRight, WarmRight
<1>4. TrueRight' /\ AskRight'
  BY <1>0, <1>1 DEF CompleteInv, TrueRight, AskRight
<1> QED
  BY <1>2, <1>3, <1>4 DEF CompleteInv

LEMMA CompleteStep ==
  ASSUME SoundInv, SoundInv', Glucose, CompleteInv, [SolverNext]_solverVars
  PROVE  CompleteInv'
<1>1. CASE SearchStep
  BY <1>1, PropagateNextComplete, PropagateVisitComplete, ConflictAtRootComplete, ResolveComplete,
     LearnComplete, RestartComplete, SimplifyComplete, ReduceDBComplete, AssumeComplete,
     AssumptionFailsComplete, DecideComplete, ModelFoundComplete DEF SearchStep
<1>2. CASE CallerStep
  BY <1>2, AddClauseComplete, AddConflictComplete, LoadedComplete, WarmQueryComplete,
     WarmDoneComplete, WarmFailsComplete, PushAssumptionComplete, SolveComplete,
     SolveAtOnceComplete, DeeperComplete, BackComplete, CountComplete, RestComplete
     DEF CallerStep, Finished
<1>3. CASE UNCHANGED solverVars
  BY <1>3, RestComplete
<1> QED
  BY <1>1, <1>2, <1>3 DEF SolverNext

------------------------------------------------------------------------------
(* The theorems. *)

LEMMA InputKept ==
  ASSUME [SolverNext]_solverVars
  PROVE  input' = input
<1>1. CASE SearchStep
  BY <1>1 DEF SearchStep, PropagateNext, PropagateVisit, ConflictAtRoot, Resolve, Learn, Restart,
     Simplify, ReduceDB, Assume, AssumptionFails, Decide, ModelFound, loaded
<1>2. CASE CallerStep
  BY <1>2 DEF CallerStep, AddClause, AddConflict, Loaded, WarmQuery, WarmDone, WarmFails,
     PushAssumption, Solve, SolveAtOnce, Deeper, Back, Count, Finished, SetAssumption, loaded, solverVars
<1>3. CASE UNCHANGED solverVars
  BY <1>3 DEF solverVars, loaded
<1> QED
  BY <1>1, <1>2, <1>3 DEF SolverNext

(* The invariant: every clause learnt and every reason on the trail follows  *)
(* from the formula, the levels are those of the assumptions, and, with      *)
(* Glucose, the watches leave nothing unit behind what is propagated, and    *)
(* the calls of compute_ are nested components.                              *)
THEOREM SolverInvariant == SolverSpec => []SolverInv
<1>1. SolverInit => SolverInv
  BY SoundInit, CompleteInit DEF SolverInv
<1>2. SolverInv /\ [SolverNext]_solverVars => SolverInv'
  <2> SUFFICES ASSUME SolverInv, [SolverNext]_solverVars PROVE SolverInv'
    OBVIOUS
  <2>1. SoundInv /\ (Glucose => CompleteInv)
    BY DEF SolverInv
  <2>2. AskQuiet
    BY <2>1 DEF AskQuiet, CompleteInv, AskRight
  <2>3. SoundInv'
    BY <2>1, <2>2, SoundStep
  <2>4. Glucose' <=> Glucose
    BY InputKept, SameInput
  <2>5. Glucose => CompleteInv'
    BY <2>1, <2>3, CompleteStep
  <2> QED
    BY <2>3, <2>4, <2>5 DEF SolverInv
<1> QED
  BY <1>1, <1>2, PTL DEF SolverSpec

(* The solver's data stay well formed: propagate always finds two watches in *)
(* a clause, levels start inside the trail, and no variable gets a second    *)
(* value, with either solver.                                                *)
THEOREM SolverTypes == SolverSpec => []SolverTypeOK
<1>1. SoundInv => SolverTypeOK
  <2> SUFFICES ASSUME SoundInv PROVE SolverTypeOK
    OBVIOUS
  <2>1. \A c \in db : c.watched \subseteq c.lits /\ Cardinality(c.watched) = 2
    <3> SUFFICES ASSUME NEW c \in db PROVE c.watched \subseteq c.lits /\ Cardinality(c.watched) = 2
      OBVIOUS
    <3>1. PICK a, b \in c.lits : a # b /\ c.watched = {a, b}
      BY DEF SoundInv, DbRight, Attachable
    <3> QED
      BY <3>1, PairOf
  <2>2. qhead <= Len(trail)
    BY Basics
  <2>3. ASSUME NEW x \in DOMAIN lim
        PROVE  lim[x] <= Len(trail) /\ (x > 1 => lim[x - 1] <= lim[x])
    <3>1. lim[x] <= Len(trail)
      BY <2>3, Basics
    <3>2. ASSUME x > 1 PROVE lim[x - 1] <= lim[x]
      <4>1. Len(lim) \in Nat /\ DOMAIN lim = 1 .. Len(lim)
        BY Basics
      <4>2. x - 1 \in DOMAIN lim /\ x - 1 <= x
        BY <2>3, <3>2, <4>1
      <4> QED
        BY <2>3, <4>2, Basics DEF Shape
    <3> QED
      BY <3>1, <3>2
  <2>4. \A x, y \in DOMAIN trail : x # y => VarOf(trail[x].lit) # VarOf(trail[y].lit)
    BY Basics DEF Shape
  <2>5. problemVariable \cup inTheHeap \cup heap \subseteq Var /\ assumption \in Seq(Lit)
    BY DEF SoundInv, TypesRight
  <2> QED
    BY <2>1, <2>2, <2>3, <2>4, <2>5 DEF SolverTypeOK
<1> QED
  BY <1>1, SolverInvariant, PTL DEF SolverInv

(* Every answer False of solve is right with either solver; with Glucose an  *)
(* answer True is right too, whatever was learnt, deleted or restarted, as   *)
(* long as the outer calls had right answers whose units are on the trail.   *)
THEOREM SolverAnswers == SolverSpec => [](Glucose \/ ~answer => AnswerRight)
<1>1. SolverInv => (Glucose \/ ~answer => AnswerRight)
  <2> SUFFICES ASSUME SolverInv, Glucose \/ ~answer, pc = "answered" PROVE AnswerRight
    BY DEF AnswerRight
  <2>1. SoundInv
    BY DEF SolverInv
  <2>2. \A s : Satisfiable(s) <=> Sat(Models, s)
    BY DEF Satisfiable, Sat
  <2>3. CASE ~answer
    <3>1. ~Sat(Models, assumption)
      BY <2>1, <2>3 DEF SoundInv, PcRight
    <3> QED
      BY <2>2, <2>3, <3>1 DEF AnswerRight
  <2>4. CASE answer
    <3>1. \/ Sat(Models, assumption)
          \/ /\ Len(frames) > 1
             /\ \/ ~Sat(Models, Before(assumption, 2))
                \/ ~(UnitsFrom(frames, 2) \subseteq LitsOf(trail))
      BY <2>4 DEF SolverInv, CompleteInv, TrueRight
    <3>2. Known = UnitsFrom(frames, 2)
      BY DEF Known, UnitsFrom
    <3>3. Front(assumption) = Before(assumption, 2)
      <4>1. Len(assumption) \in Nat
        BY <2>1, Basics
      <4>2. Len(assumption) + 1 - 2 = Len(assumption) - 1
        BY <4>1
      <4> QED
        BY <4>2 DEF Front, Before
    <3> QED
      BY <2>2, <2>4, <3>1, <3>2, <3>3, TrailLitsOf DEF AnswerRight, CallersRight
  <2> QED
    BY <2>3, <2>4
<1> QED
  BY <1>1, SolverInvariant, PTL

(* With Glucose, what whichAreUnits reads off the trail after an answer True *)
(* is what the counting search may rely on: the assumptions are there, every *)
(* literal follows from them, and no clause is left empty or unit.           *)
THEOREM SolverUnits == SolverSpec => [](Glucose => UnitsRight)
<1>1. SolverInv => (Glucose => UnitsRight)
  <2> SUFFICES ASSUME SolverInv, Glucose, pc = "answered", answer PROVE UnitsRight
    BY DEF UnitsRight
  <2>1. SoundInv /\ CompleteInv
    BY DEF SolverInv
  <2>2. Len(lim) = Len(assumption)
    BY <2>1 DEF SoundInv, PcRight
  <2>3. ToSet(assumption) \subseteq TrailLits
    <3> SUFFICES ASSUME NEW k \in DOMAIN assumption PROVE assumption[k] \in TrailLits
      BY DEF ToSet
    <3>1. k \in DOMAIN lim /\ k <= Len(assumption)
      BY <2>1, <2>2, Basics
    <3>2. \E x \in DOMAIN trail : trail[x].lit = assumption[k]
      BY <2>1, <3>1, Basics DEF Assumed
    <3> QED
      BY <3>2 DEF TrailLits
  <2>4. ASSUME NEW A \in Models, ToSet(assumption) \subseteq A PROVE TrailLits \subseteq A
    <3>1. Len(lim) <= Len(assumption)
      BY <2>1, <2>2, Basics
    <3> QED
      BY <2>1, <2>4, <3>1, Basics, AssumptionsImply, TrailLitsOf
  <2>5. ASSUME NEW c \in formula, c \cap TrailLits = {}
        PROVE  Cardinality({l \in c : Undef(l)}) >= 2
    <3>1. ok /\ visit = {} /\ confl = {} /\ qhead = Len(trail)
      BY <2>1, StillQuiet DEF CompleteInv, TrueRight
    <3>2. /\ c \in SUBSET Lit
          /\ \E a, b \in c : a # b /\ Open(LitsOf(trail), a) /\ Open(LitsOf(trail), b)
      BY <2>1, <2>5, <3>1, FormulaClosed, TrailLitsOf
    <3>3. \E a, b \in {l \in c : Undef(l)} : a # b
      BY <3>2, TrailLitsOf DEF Open, Undef
    <3>4. {l \in c : Undef(l)} \in SUBSET Lit
      BY <3>2
    <3> QED
      BY <3>3, <3>4, TwoIn
  <2> QED
    BY <2>3, <2>4, <2>5 DEF UnitsRight
<1> QED
  BY <1>1, SolverInvariant, PTL

(* With Glucose the assertions of pushAssumption hold: a literal of a model  *)
(* that still counts is pushed with every earlier assumption at its level,   *)
(* and propagating it gives no conflict.                                     *)
THEOREM SolverPushes == SolverSpec => [](Glucose => PushSafe)
<1>1. SolverInv => (Glucose => PushSafe)
  BY DEF SolverInv, CompleteInv, AskRight, SoundInv, PcRight, PushSafe, Level
<1> QED
  BY <1>1, SolverInvariant, PTL
============================================================================
