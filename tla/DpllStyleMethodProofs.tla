----------------------- MODULE DpllStyleMethodProofs -----------------------
(***************************************************************************)
(* The search keeps the solver and the formula manager in step, and its    *)
(* recursion is well founded, for all problems, all answers of the solver  *)
(* and whatever the cache holds; the same with the nodes of a              *)
(* decision-DNNF built beside it.                                          *)
(*                                                                         *)
(* Assumptions and values are stacks that the calls share.  The invariant  *)
(* gives every call that has not returned its level: the values without    *)
(* the units of the calls inside it, and its prefix of the assumptions.    *)
(***************************************************************************)
EXTENDS DecisionDNNF, TLAPS, FiniteSetTheorems, WellFoundedInduction

------------------------------------------------------------------------------
(* The inductive invariant. *)

Free(V, l) == l \notin V /\ -l \notin V

IsSeq(s) == s \in Seq(ToSet(s))

(* A frame has the fields of AndFrame. *)
IsFrame(f) ==
  f = [kind |-> f.kind, units |-> f.units, free |-> f.free, todo |-> f.todo,
       acc |-> f.acc, cur |-> f.cur, key |-> f.key, lits |-> f.lits, i |-> f.i,
       base |-> f.base]

(* No clause of F left under V leads out of the variables S. *)
Uncrossed(F, V, S) ==
  \A c \in F :
    c \cap V = {} =>
      \/ \A l \in c : Free(V, l) => VarOf(l) \in S
      \/ \A l \in c : Free(V, l) => VarOf(l) \notin S

(* The values val when the calls before the x-th of s have returned. *)
Level(s, val, x) == {l \in val : \A y \in 1 .. (x - 1) : l \notin s[y].units}

(* The variables of the x-th call, one of compute_. *)
Scope(s, x, vars) == IF x < Len(s) THEN s[x + 1].cur ELSE vars

(* A call of compute_ with the values V. *)
AndRight(F, f, V, scope) ==
  \A comp \in f.todo :
    /\ comp \subseteq scope /\ comp # {}
    /\ \A u \in comp : Free(V, u)
    /\ Uncrossed(F, V, comp)

(* A call of computeDecisionNode with the values V: what it assumes beyond *)
(* its first assumptions, and what it may assume, has no value yet.        *)
OrRight(F, f, V, asm) ==
  /\ f.units = {}
  /\ f.lits \in Seq(Lit) /\ Len(f.lits) > 0
  /\ f.i \in 0 .. (Len(f.lits) + 1)
  /\ f.base \in 0 .. Len(asm)
  /\ \A k \in 1 .. f.base : asm[k] \in V
  /\ \A k \in (f.base + 1) .. Len(asm) : Free(V, asm[k])
  /\ \A j \in 1 .. Len(f.lits) : Free(V, f.lits[j]) /\ VarOf(f.lits[j]) \in f.cur
  /\ f.cur \subseteq Var
  /\ Uncrossed(F, V, f.cur)

(* It is in a branch, or was: a literal of its own is assumed. *)
OpenBranch(f, asm) == f.base < Len(asm) /\ VarOf(asm[f.base + 1]) \in f.cur

(* Calls alternate, and the outermost is one of compute_. *)
Alternate(s) ==
  /\ \A x \in 1 .. Len(s) : IsFrame(s[x]) /\ s[x].kind \in {"and", "or"}
  /\ \A x \in 1 .. (Len(s) - 1) : s[x].kind # s[x + 1].kind
  /\ Len(s) > 0 => s[Len(s)].kind = "and"

OrFrames(s, val, asm, open, F) ==
  \A x \in 1 .. Len(s) : s[x].kind = "or" =>
    /\ OrRight(F, s[x], Level(s, val, x), asm)
    /\ x > 1 \/ open => s[x].i <= Len(s[x].lits)
    /\ IF s[x].i > 0 \/ x > 1 \/ open THEN OpenBranch(s[x], asm)
                                      ELSE s[x].base = Len(asm)

AndFrames(s, val, F, vars) ==
  \A x \in 1 .. Len(s) : s[x].kind = "and" =>
    /\ AndRight(F, s[x], Level(s, val, x), Scope(s, x, vars))
    /\ x < Len(s) => \E u \in s[x + 1].cur : ~Free(Level(s, val, x), u)

(* Inner calls work on fewer variables and more assumptions. *)
Inner(s) ==
  \A x, y \in 1 .. Len(s) : x < y /\ s[x].kind = "or" /\ s[y].kind = "or" =>
    /\ s[y].base < s[x].base
    /\ s[x].cur \subseteq s[y].cur
    /\ s[x].cur # s[y].cur

(* The assumptions of the outermost call. *)
Outermost(s, asm) == IF Len(s) < 2 THEN Len(asm) ELSE s[Len(s) - 1].base

StackRight(s, val, asm, open, F, c) ==
  /\ IsSeq(s)
  /\ Alternate(s)
  /\ OrFrames(s, val, asm, open, F)
  /\ AndFrames(s, val, F, c.vars)
  /\ Inner(s)
  /\ Level(s, val, Len(s) + 1) = c.assums
  /\ {asm[k] : k \in 1 .. Outermost(s, asm)} = c.assums

(* The argument of the call of compute_ at hand. *)
Argument == IF pc = "compute" THEN Scope(stack, 0, call.vars)
                              ELSE Scope(stack, 1, call.vars)

PcRight ==
  /\ pc \in {"compute", "split", "and", "or", "done"}
  /\ pc \in {"split", "and"} => /\ Len(stack) > 0
                                /\ stack[1].kind = "and"
                                /\ ToSet(assumption) \subseteq value
  /\ pc = "or" => Len(stack) > 0 /\ stack[1].kind = "or"
  /\ pc = "compute" => (Len(stack) > 0 => stack[1].kind = "or")
  /\ pc \in {"compute", "split"} => setOfVar = Argument
  /\ pc = "done" => stack = << >> /\ value = {} /\ ToSet(assumption) = call.assums

DpllInv ==
  /\ problem \in Problems
  /\ assumption \in Seq(Lit)
  /\ value \subseteq Lit /\ \A l \in value : -l \notin value
  /\ setOfVar \subseteq Var
  /\ call.vars \subseteq Var
  /\ Uncrossed(formula, call.assums, call.vars)
  /\ PcRight
  /\ pc # "done" =>
       StackRight(stack, value, assumption, pc = "compute", formula, call)
------------------------------------------------------------------------------
(* Literals, clauses and sequences. *)

(* Literals are numbers other than 0, closed under negation. *)
LEMMA LitFacts ==
  /\ NbVar \in Nat
  /\ Var \subseteq Lit /\ Lit \subseteq Int /\ 0 \notin Lit
  /\ \A l \in Lit : -l \in Lit /\ -(-l) = l /\ -l # l
  /\ \A l \in Lit : VarOf(l) \in Var /\ (VarOf(l) = l \/ VarOf(l) = -l)
  /\ \A l \in Lit : VarOf(-l) = VarOf(l)
<1>1. NbVar \in Nat
  BY MethodAssumption
<1> QED
  BY <1>1 DEF Lit, Var, VarOf

(* A literal has a value when its variable has. *)
LEMMA FreeVar ==
  ASSUME NEW V, NEW l \in Lit
  PROVE  Free(V, VarOf(l)) <=> Free(V, l)
  BY LitFacts DEF Free

(* There are finitely many literals. *)
LEMMA LitsFinite ==
  ASSUME NEW S \in SUBSET Lit
  PROVE  IsFiniteSet(S)
<1>1. NbVar \in Nat /\ -NbVar \in Int
  BY LitFacts
<1>2. IsFiniteSet((-NbVar) .. NbVar)
  BY <1>1, FS_Interval
<1>3. Lit \subseteq (-NbVar) .. NbVar
  BY <1>1 DEF Lit, Var
<1> QED
  BY <1>2, <1>3, FS_Subset

(* An assignment has no literal with its opposite. *)
LEMMA AssignmentFacts ==
  ASSUME NEW A \in Assignments(Var)
  PROVE  A \subseteq Lit /\ \A l \in A : -l \notin A
<1>1. PICK t \in [Var -> BOOLEAN] : A = {IF t[u] THEN u ELSE -u : u \in Var}
  BY DEF Assignments
<1>2. \A l \in A : \E u \in Var : l = IF t[u] THEN u ELSE -u
  BY <1>1
<1>3. \A u \in Var : u \in Nat /\ u > 0 /\ u \in Lit /\ -u \in Lit
  <2>1. \A u \in Var : u \in Nat /\ u > 0
    BY DEF Var
  <2> QED
    BY <2>1, LitFacts
<1>4. A \subseteq Lit
  BY <1>2, <1>3
<1>5. ASSUME NEW l \in A, -l \in A PROVE FALSE
  <2>1. PICK u \in Var : l = IF t[u] THEN u ELSE -u
    BY <1>2
  <2>2. PICK w \in Var : -l = IF t[w] THEN w ELSE -w
    BY <1>2, <1>5
  <2>3. u = w
    BY <1>3, <2>1, <2>2
  <2> QED
    BY <1>3, <2>1, <2>2, <2>3
<1> QED
  BY <1>4, <1>5

(* The models of the problem are assignments. *)
LEMMA ModelFacts ==
  ASSUME problem \in Problems, NEW A \in ModelsOf[problem]
  PROVE  A \subseteq Lit /\ \A l \in A : -l \notin A
<1>1. A \in Assignments(Var)
  BY DEF ModelsOf, Models
<1> QED
  BY <1>1, AssignmentFacts

(* The clauses of the problem are sets of literals. *)
LEMMA FormulaType ==
  ASSUME problem \in Problems
  PROVE  /\ formula \subseteq SUBSET Lit
         /\ problem.decision \subseteq Var
  BY MethodAssumption DEF formula

(* With more values no clause crosses that did not before. *)
LEMMA UncrossedGrows ==
  ASSUME NEW F, NEW V, NEW W, V \subseteq W, NEW S, Uncrossed(F, V, S)
  PROVE  Uncrossed(F, W, S)
<1>1. \A l : Free(W, l) => Free(V, l)
  BY DEF Free
<1>2. \A c : c \cap W = {} => c \cap V = {}
  OBVIOUS
<1> QED
  BY <1>1, <1>2 DEF Uncrossed

(* A sequence is one over its elements. *)
LEMMA SeqOfElements ==
  ASSUME NEW T, NEW s \in Seq(T)
  PROVE  IsSeq(s) /\ Len(s) \in Nat /\ DOMAIN s = 1 .. Len(s)
<1>1. Len(s) \in Nat /\ DOMAIN s = 1 .. Len(s) /\ s \in [1 .. Len(s) -> T]
  OBVIOUS
<1>2. \A k \in 1 .. Len(s) : s[k] \in ToSet(s)
  BY <1>1 DEF ToSet
<1>3. s \in [1 .. Len(s) -> ToSet(s)]
  BY <1>1, <1>2
<1> HIDE DEF ToSet
<1>4. [1 .. Len(s) -> ToSet(s)] \subseteq Seq(ToSet(s))
  BY <1>1
<1> QED
  BY <1>1, <1>3, <1>4 DEF IsSeq

(* The calls t: those of s, and inside them one with the frame f. *)
Entered(s, f, t) == t = << f >> \o s

(* A call is entered. *)
LEMMA PushFacts ==
  ASSUME NEW s, IsSeq(s), NEW f, NEW t, Entered(s, f, t)
  PROVE  /\ IsSeq(t) /\ Len(t) = Len(s) + 1 /\ Len(s) \in Nat
         /\ t[1] = f
         /\ \A x \in 1 .. Len(s) : t[x + 1] = s[x]
         /\ \A x \in 2 .. Len(t) : x - 1 \in 1 .. Len(s) /\ t[x] = s[x - 1]
<1> DEFINE T == ToSet(s) \cup {f}
<1>1. s \in Seq(T) /\ << f >> \in Seq(T)
  <2>1. Len(s) \in Nat /\ s \in [1 .. Len(s) -> ToSet(s)]
    BY DEF IsSeq
  <2>2. s \in [1 .. Len(s) -> T]
    BY <2>1
  <2> HIDE DEF T
  <2>3. s \in Seq(T)
    BY <2>1, <2>2
  <2>4. f \in T
    BY DEF T
  <2> QED
    BY <2>3, <2>4
<1> HIDE DEF T
<1>2. /\ t \in Seq(T) /\ Len(t) = Len(s) + 1 /\ Len(s) \in Nat
      /\ t[1] = f
      /\ \A x \in 1 .. Len(s) : t[x + 1] = s[x]
  BY <1>1 DEF Entered
<1>3. IsSeq(t)
  BY <1>2, SeqOfElements
<1>4. \A x \in 2 .. Len(t) : x - 1 \in 1 .. Len(s) /\ (x - 1) + 1 = x
  BY <1>2
<1> QED
  BY <1>2, <1>3, <1>4

(* The calls t: those of s around the innermost one. *)
Returned(s, t) == t = Tail(s)

(* A call has returned. *)
LEMMA PopFacts ==
  ASSUME NEW s, IsSeq(s), Len(s) > 0, NEW t, Returned(s, t)
  PROVE  /\ IsSeq(t) /\ Len(t) = Len(s) - 1 /\ Len(s) \in Nat
         /\ \A x \in 1 .. Len(t) : x + 1 \in 1 .. Len(s) /\ t[x] = s[x + 1]
<1> DEFINE T == ToSet(s)
<1>1. s \in Seq(T)
  BY DEF IsSeq
<1> HIDE DEF T
<1>2. /\ t \in Seq(T) /\ Len(t) = Len(s) - 1 /\ Len(s) \in Nat
      /\ \A x \in 1 .. Len(t) : x + 1 \in 1 .. Len(s) /\ t[x] = s[x + 1]
  BY <1>1 DEF Returned
<1> QED
  BY <1>2, SeqOfElements

(* The calls t: those of s, the innermost one with the frame f. *)
Continued(s, f, t) == t = [s EXCEPT ![1] = f]

(* The innermost call goes on. *)
LEMMA TopFacts ==
  ASSUME NEW s, IsSeq(s), Len(s) > 0, NEW f, NEW t, Continued(s, f, t)
  PROVE  /\ IsSeq(t) /\ Len(t) = Len(s) /\ Len(s) \in Nat
         /\ t[1] = f
         /\ \A x \in 2 .. Len(s) : t[x] = s[x]
<1> DEFINE T == ToSet(s) \cup {f}
<1>1. Len(s) \in Nat /\ s \in [1 .. Len(s) -> ToSet(s)]
  BY DEF IsSeq
<1>2. s \in [1 .. Len(s) -> T] /\ f \in T
  BY <1>1
<1> HIDE DEF T
<1>3. t \in [1 .. Len(s) -> T]
  BY <1>1, <1>2 DEF Continued
<1>4. [1 .. Len(s) -> T] \subseteq Seq(T)
  BY <1>1
<1>5. t \in Seq(T)
  BY <1>3, <1>4
<1>6. DOMAIN t = 1 .. Len(s) /\ t[1] = f /\ \A x \in 2 .. Len(s) : t[x] = s[x]
  BY <1>1 DEF Continued
<1>7. Len(t) \in Nat /\ DOMAIN t = 1 .. Len(t)
  BY <1>5
<1>8. Len(t) = Len(s)
  <2>1. 1 .. Len(t) = 1 .. Len(s)
    BY <1>6, <1>7
  <2>2. ASSUME NEW m \in Nat, NEW n \in Nat, n > 0, 1 .. m = 1 .. n PROVE m = n
    <3>1. n \in 1 .. m /\ (m > 0 => m \in 1 .. n)
      BY <2>2
    <3> QED
      BY <2>2, <3>1
  <2> QED
    BY <1>1, <1>7, <2>1, <2>2
<1> QED
  BY <1>1, <1>5, <1>6, <1>8, SeqOfElements

------------------------------------------------------------------------------
(* The levels of the calls. *)

(* The innermost level is the present one, and levels shrink outwards. *)
LEMMA LevelFacts ==
  ASSUME NEW s, NEW val
  PROVE  /\ Level(s, val, 1) = val
         /\ \A x : Level(s, val, x) \subseteq val
         /\ \A x, y \in Nat : y <= x => Level(s, val, x) \subseteq Level(s, val, y)
  BY DEF Level

(* Levels when a call with new units is entered. *)
LEMMA LevelPush ==
  ASSUME NEW s, IsSeq(s), NEW f, NEW t, Entered(s, f, t),
         NEW val, val \cap f.units = {}
  PROVE  \A x \in 1 .. (Len(s) + 1) :
            Level(t, val \cup f.units, x + 1) = Level(s, val, x)
<1> SUFFICES ASSUME NEW x \in 1 .. (Len(s) + 1)
             PROVE  Level(t, val \cup f.units, x + 1) = Level(s, val, x)
  OBVIOUS
<1>1. Len(s) \in Nat /\ t[1] = f /\ \A y \in 1 .. Len(s) : t[y + 1] = s[y]
  BY PushFacts
<1>2. ASSUME NEW l, l \in Level(t, val \cup f.units, x + 1)
      PROVE  l \in Level(s, val, x)
  <2>1. l \in val \cup f.units /\ \A y \in 1 .. x : l \notin t[y].units
    BY <1>1, <1>2 DEF Level
  <2>2. l \in val
    BY <1>1, <2>1
  <2>3. \A y \in 1 .. (x - 1) : y + 1 \in 1 .. x /\ y \in 1 .. Len(s)
    BY <1>1
  <2> QED
    BY <1>1, <2>1, <2>2, <2>3 DEF Level
<1>3. ASSUME NEW l, l \in Level(s, val, x)
      PROVE  l \in Level(t, val \cup f.units, x + 1)
  <2>1. l \in val /\ \A y \in 1 .. (x - 1) : l \notin s[y].units
    BY <1>3 DEF Level
  <2>2. ASSUME NEW y \in 1 .. x PROVE l \notin t[y].units
    <3>1. CASE y = 1
      BY <1>1, <2>1, <3>1
    <3>2. CASE y # 1
      <4>1. y - 1 \in 1 .. (x - 1) /\ y - 1 \in 1 .. Len(s) /\ (y - 1) + 1 = y
        BY <1>1, <3>2
      <4> QED
        BY <1>1, <2>1, <4>1
    <3> QED
      BY <3>1, <3>2
  <2>3. (x + 1) - 1 = x
    OBVIOUS
  <2> QED
    BY <2>1, <2>2, <2>3 DEF Level
<1> QED
  BY <1>2, <1>3

(* Levels when a call returns and its units are undone. *)
LEMMA LevelPop ==
  ASSUME NEW s, IsSeq(s), Len(s) > 0, NEW t, Returned(s, t), NEW val
  PROVE  \A x \in 1 .. Len(s) :
            Level(t, val \ s[1].units, x) = Level(s, val, x + 1)
<1> SUFFICES ASSUME NEW x \in 1 .. Len(s)
             PROVE  Level(t, val \ s[1].units, x) = Level(s, val, x + 1)
  OBVIOUS
<1>1. Len(s) \in Nat /\ Len(t) = Len(s) - 1 /\ \A y \in 1 .. Len(t) : t[y] = s[y + 1]
  BY PopFacts
<1>2. ASSUME NEW l, l \in Level(s, val, x + 1)
      PROVE  l \in Level(t, val \ s[1].units, x)
  <2>1. l \in val /\ \A y \in 1 .. x : l \notin s[y].units
    BY <1>2 DEF Level
  <2>2. \A y \in 1 .. (x - 1) : y + 1 \in 1 .. x /\ y \in 1 .. Len(t)
    BY <1>1
  <2> QED
    BY <1>1, <2>1, <2>2 DEF Level
<1>3. ASSUME NEW l, l \in Level(t, val \ s[1].units, x)
      PROVE  l \in Level(s, val, x + 1)
  <2>1. l \in val /\ l \notin s[1].units /\ \A y \in 1 .. (x - 1) : l \notin t[y].units
    BY <1>3 DEF Level
  <2>2. ASSUME NEW y \in 1 .. x PROVE l \notin s[y].units
    <3>1. CASE y = 1
      BY <2>1, <3>1
    <3>2. CASE y # 1
      <4>1. y - 1 \in 1 .. (x - 1) /\ y - 1 \in 1 .. Len(t) /\ (y - 1) + 1 = y
        BY <1>1, <3>2
      <4> QED
        BY <1>1, <2>1, <4>1
    <3> QED
      BY <3>1, <3>2
  <2>3. (x + 1) - 1 = x
    OBVIOUS
  <2> QED
    BY <2>1, <2>2, <2>3 DEF Level
<1> QED
  BY <1>2, <1>3

(* Levels when the innermost call goes on with the same units. *)
LEMMA LevelTop ==
  ASSUME NEW s, IsSeq(s), Len(s) > 0, NEW f, NEW t, Continued(s, f, t),
         f.units = s[1].units, NEW val, NEW x \in 1 .. (Len(s) + 1)
  PROVE  Level(t, val, x) = Level(s, val, x)
<1>1. Len(s) \in Nat /\ t[1] = f /\ \A y \in 2 .. Len(s) : t[y] = s[y]
  BY TopFacts
<1>2. \A y \in 1 .. (x - 1) : y = 1 \/ y \in 2 .. Len(s)
  BY <1>1
<1>3. \A y \in 1 .. (x - 1) : t[y].units = s[y].units
  BY <1>1, <1>2
<1> QED
  BY <1>3 DEF Level

------------------------------------------------------------------------------
(* The stack of calls. *)

(* The frame f may be the next of the calls s. *)
CanEnter(s, f) ==
  /\ IsSeq(s) /\ Alternate(s)
  /\ IsFrame(f) /\ f.kind \in {"and", "or"}
  /\ IF Len(s) > 0 THEN s[1].kind # f.kind ELSE f.kind = "and"

(* The calls t with the values W are the calls s with the values val, which *)
(* keep their frames, levels and scopes, and one inside them.               *)
Deeper(s, f, t, val, W, vars) ==
  /\ IsSeq(t) /\ Len(t) = Len(s) + 1 /\ Len(s) \in Nat
  /\ t[1] = f /\ Level(t, W, 1) = W
  /\ Alternate(t)
  /\ \A x \in 1 .. Len(t) : x = 1 \/ x \in 2 .. Len(t)
  /\ \A x \in 2 .. Len(t) :
       /\ x - 1 \in 1 .. Len(s) /\ t[x] = s[x - 1]
       /\ Level(t, W, x) = Level(s, val, x - 1)
       /\ Scope(t, x, vars) = Scope(s, x - 1, vars)
       /\ x < Len(t) => x - 1 < Len(s) /\ t[x + 1] = s[x]
  /\ Level(t, W, Len(t) + 1) = Level(s, val, Len(s) + 1)

(* A call is entered. *)
LEMMA PushShared ==
  ASSUME NEW s, NEW f, CanEnter(s, f), NEW t, Entered(s, f, t),
         NEW val, val \cap f.units = {}, NEW vars
  PROVE  Deeper(s, f, t, val, val \cup f.units, vars)
<1>1. PICK W : W = val \cup f.units
  OBVIOUS
<1>2. IsSeq(s) /\ Alternate(s) /\ IsFrame(f) /\ f.kind \in {"and", "or"}
  BY DEF CanEnter
<1>3. /\ Len(s) > 0 => s[1].kind # f.kind
      /\ ~(Len(s) > 0) => f.kind = "and"
  BY DEF CanEnter
<1>4. /\ IsSeq(t) /\ Len(t) = Len(s) + 1 /\ Len(s) \in Nat
      /\ t[1] = f
      /\ \A x \in 1 .. Len(s) : t[x + 1] = s[x]
      /\ \A x \in 2 .. Len(t) : x - 1 \in 1 .. Len(s) /\ t[x] = s[x - 1]
  BY <1>2, PushFacts
<1>5. \A x \in 1 .. (Len(s) + 1) : Level(t, W, x + 1) = Level(s, val, x)
  <2>1. \A x \in 1 .. (Len(s) + 1) :
           Level(t, val \cup f.units, x + 1) = Level(s, val, x)
    BY <1>2, LevelPush
  <2> QED
    BY <1>1, <2>1
<1>6. \A x \in 2 .. Len(t) : Level(t, W, x) = Level(s, val, x - 1)
  <2>1. \A x \in 2 .. Len(t) : x - 1 \in 1 .. (Len(s) + 1) /\ (x - 1) + 1 = x
    BY <1>4
  <2> QED
    BY <1>5, <2>1
<1>7. \A x \in 1 .. Len(t) : x = 1 \/ x \in 2 .. Len(t)
  BY <1>4
<1>8. Alternate(t)
  <2>1. \A x \in 1 .. Len(t) : IsFrame(t[x]) /\ t[x].kind \in {"and", "or"}
    BY <1>2, <1>4, <1>7 DEF Alternate
  <2>2. ASSUME NEW x \in 1 .. (Len(t) - 1) PROVE t[x].kind # t[x + 1].kind
    <3>1. CASE x = 1
      BY <1>2, <1>3, <1>4, <2>2, <3>1
    <3>2. CASE x # 1
      <4>1. /\ x - 1 \in 1 .. (Len(s) - 1) /\ x \in 2 .. Len(t) /\ x \in 1 .. Len(s)
            /\ (x - 1) + 1 = x
        BY <1>4, <3>2
      <4> QED
        BY <1>2, <1>4, <4>1 DEF Alternate
    <3> QED
      BY <3>1, <3>2
  <2>3. t[Len(t)].kind = "and"
    <3>1. CASE Len(s) > 0
      <4>1. Len(t) \in 2 .. Len(t) /\ Len(t) - 1 = Len(s)
        BY <1>4, <3>1
      <4> QED
        BY <1>2, <1>4, <3>1, <4>1 DEF Alternate
    <3>2. CASE ~(Len(s) > 0)
      BY <1>3, <1>4, <3>2
    <3> QED
      BY <3>1, <3>2
  <2> QED
    BY <2>1, <2>2, <2>3 DEF Alternate
<1>9. ASSUME NEW x \in 2 .. Len(t)
      PROVE  /\ Scope(t, x, vars) = Scope(s, x - 1, vars)
             /\ x < Len(t) => x - 1 < Len(s) /\ t[x + 1] = s[x]
  <2>1. x < Len(t) => x - 1 < Len(s) /\ x \in 1 .. Len(s) /\ t[x + 1] = s[x]
    BY <1>4
  <2>2. x - 1 < Len(s) => x < Len(t)
    BY <1>4
  <2>3. (x - 1) + 1 = x
    OBVIOUS
  <2> QED
    BY <2>1, <2>2, <2>3 DEF Scope
<1>10. Level(t, W, Len(t) + 1) = Level(s, val, Len(s) + 1)
  <2>1. Len(s) + 1 \in 1 .. (Len(s) + 1)
    BY <1>4
  <2> QED
    BY <1>4, <1>5, <2>1
<1>11. Level(t, W, 1) = W
  BY LevelFacts
<1> QED
  BY <1>1, <1>4, <1>6, <1>7, <1>8, <1>9, <1>10, <1>11 DEF Deeper

(* The calls t with the values W are those around the innermost one of s. *)
Shallower(s, t, val, W, vars) ==
  /\ IsSeq(t) /\ Len(t) = Len(s) - 1 /\ Len(s) \in Nat
  /\ Alternate(t)
  /\ Len(t) > 0 => t[1].kind # s[1].kind
  /\ Len(t) = 0 => s[1].kind = "and"
  /\ \A x \in 1 .. Len(t) :
       /\ x + 1 \in 1 .. Len(s) /\ t[x] = s[x + 1]
       /\ Level(t, W, x) = Level(s, val, x + 1)
       /\ Scope(t, x, vars) = Scope(s, x + 1, vars)
       /\ x < Len(t) => x + 1 < Len(s) /\ t[x + 1] = s[(x + 1) + 1]
  /\ Level(t, W, Len(t) + 1) = Level(s, val, Len(s) + 1)

(* A call returns. *)
LEMMA PopShared ==
  ASSUME NEW s, IsSeq(s), Alternate(s), Len(s) > 0, NEW t, Returned(s, t),
         NEW val, NEW vars
  PROVE  Shallower(s, t, val, val \ s[1].units, vars)
<1>0. PICK W : W = val \ s[1].units
  OBVIOUS
<1>1. /\ IsSeq(t) /\ Len(t) = Len(s) - 1 /\ Len(s) \in Nat
      /\ \A x \in 1 .. Len(t) : x + 1 \in 1 .. Len(s) /\ t[x] = s[x + 1]
  BY PopFacts
<1>2. \A x \in 1 .. Len(s) : Level(t, W, x) = Level(s, val, x + 1)
  <2>1. \A x \in 1 .. Len(s) : Level(t, val \ s[1].units, x) = Level(s, val, x + 1)
    BY LevelPop
  <2> QED
    BY <1>0, <2>1
<1>3. \A x \in 1 .. Len(t) : x \in 1 .. Len(s)
  BY <1>1
<1>4. Level(t, W, Len(t) + 1) = Level(s, val, Len(s) + 1)
  <2>1. Len(t) + 1 = Len(s) /\ Len(s) \in 1 .. Len(s)
    BY <1>1
  <2> QED
    BY <1>2, <2>1
<1>5. Len(t) > 0 => t[1].kind # s[1].kind
  <2>1. Len(t) > 0 => 1 \in 1 .. (Len(s) - 1) /\ t[1] = s[1 + 1]
    BY <1>1
  <2> QED
    BY <2>1 DEF Alternate
<1>6. Len(t) = 0 => s[1].kind = "and"
  <2>1. Len(t) = 0 => Len(s) = 1
    BY <1>1
  <2> QED
    BY <2>1 DEF Alternate
<1>7. Alternate(t)
  <2>1. \A x \in 1 .. Len(t) : IsFrame(t[x]) /\ t[x].kind \in {"and", "or"}
    BY <1>1 DEF Alternate
  <2>2. ASSUME NEW x \in 1 .. (Len(t) - 1) PROVE t[x].kind # t[x + 1].kind
    <3>1. /\ x \in 1 .. Len(t) /\ x + 1 \in 1 .. Len(t)
          /\ x + 1 \in 1 .. (Len(s) - 1)
      BY <1>1
    <3> QED
      BY <1>1, <3>1 DEF Alternate
  <2>3. Len(t) > 0 => t[Len(t)].kind = "and"
    <3>1. Len(t) > 0 => Len(t) \in 1 .. Len(t) /\ Len(t) + 1 = Len(s)
      BY <1>1
    <3> QED
      BY <1>1, <3>1 DEF Alternate
  <2> QED
    BY <2>1, <2>2, <2>3 DEF Alternate
<1>8. ASSUME NEW x \in 1 .. Len(t)
      PROVE  /\ Scope(t, x, vars) = Scope(s, x + 1, vars)
             /\ x < Len(t) => x + 1 < Len(s) /\ t[x + 1] = s[(x + 1) + 1]
  <2>1. /\ x < Len(t) => x + 1 \in 1 .. Len(t)
        /\ x < Len(t) <=> x + 1 < Len(s)
    BY <1>1
  <2>2. x < Len(t) => t[x + 1] = s[(x + 1) + 1]
    BY <1>1, <2>1
  <2> QED
    BY <2>1, <2>2 DEF Scope
<1> QED
  BY <1>0, <1>1, <1>2, <1>3, <1>4, <1>5, <1>6, <1>7, <1>8 DEF Shallower

(***************************************************************************)
(* compute_ enters with the units U: all assumptions are true now, so one  *)
(* of the branch it is in has got a value.                                 *)
(***************************************************************************)
LEMMA PushAnd ==
  ASSUME NEW s, NEW val, NEW asm \in Seq(Lit), NEW F, NEW c,
         StackRight(s, val, asm, TRUE, F, c),
         Len(s) > 0 => s[1].kind = "or",
         NEW U, val \cap U = {}, ToSet(asm) \subseteq val \cup U,
         NEW t, Entered(s, AndFrame(U), t)
  PROVE  StackRight(t, val \cup U, asm, FALSE, F, c)
<1>a. PICK f : f = AndFrame(U)
  OBVIOUS
<1>b. PICK W : W = val \cup U
  OBVIOUS
<1>1. /\ f.kind = "and" /\ f.units = U /\ f.todo = {} /\ IsFrame(f)
  BY <1>a DEF AndFrame, IsFrame
<1>2. IsSeq(s) /\ Alternate(s)
  BY DEF StackRight
<1>3. Entered(s, f, t)
  BY <1>a
<1>4. /\ IsSeq(t) /\ Len(t) = Len(s) + 1 /\ Len(s) \in Nat
      /\ t[1] = f /\ Level(t, W, 1) = W
      /\ Alternate(t)
      /\ \A x \in 1 .. Len(t) : x = 1 \/ x \in 2 .. Len(t)
      /\ \A x \in 2 .. Len(t) :
           /\ x - 1 \in 1 .. Len(s) /\ t[x] = s[x - 1]
           /\ Level(t, W, x) = Level(s, val, x - 1)
           /\ Scope(t, x, c.vars) = Scope(s, x - 1, c.vars)
           /\ x < Len(t) => x - 1 < Len(s) /\ t[x + 1] = s[x]
      /\ Level(t, W, Len(t) + 1) = Level(s, val, Len(s) + 1)
  <2>1. CanEnter(s, f)
    BY <1>1, <1>2 DEF CanEnter
  <2>2. Deeper(s, f, t, val, val \cup f.units, c.vars)
    BY <1>1, <1>3, <2>1, PushShared
  <2> QED
    BY <1>1, <1>b, <2>2 DEF Deeper
<1>9. OrFrames(t, W, asm, FALSE, F)
  <2> SUFFICES ASSUME NEW x \in 1 .. Len(t), t[x].kind = "or"
               PROVE  /\ OrRight(F, t[x], Level(t, W, x), asm)
                      /\ t[x].i <= Len(t[x].lits)
                      /\ OpenBranch(t[x], asm)
                      /\ x > 1
    BY DEF OrFrames
  <2>1. x \in 2 .. Len(t)
    BY <1>1, <1>4
  <2>2. /\ OrRight(F, s[x - 1], Level(s, val, x - 1), asm)
        /\ s[x - 1].i <= Len(s[x - 1].lits)
        /\ OpenBranch(s[x - 1], asm)
    BY <1>4, <2>1 DEF StackRight, OrFrames
  <2> QED
    BY <1>4, <2>1, <2>2
<1>10. AndFrames(t, W, F, c.vars)
  <2> SUFFICES ASSUME NEW x \in 1 .. Len(t), t[x].kind = "and"
               PROVE  /\ AndRight(F, t[x], Level(t, W, x), Scope(t, x, c.vars))
                      /\ x < Len(t) => \E u \in t[x + 1].cur : ~Free(Level(t, W, x), u)
    BY DEF AndFrames
  <2>1. CASE x = 1
    <3>1. AndRight(F, t[x], Level(t, W, x), Scope(t, x, c.vars))
      BY <1>1, <1>4, <2>1 DEF AndRight
    <3>2. ASSUME 1 < Len(t) PROVE \E u \in t[2].cur : ~Free(Level(t, W, 1), u)
      <4>1. 1 \in 1 .. Len(s) /\ t[2] = s[1] /\ s[1].kind = "or"
        BY <1>4, <3>2
      <4>2. OrRight(F, s[1], Level(s, val, 1), asm) /\ OpenBranch(s[1], asm)
        BY <4>1 DEF StackRight, OrFrames
      <4> DEFINE l == asm[s[1].base + 1]
      <4>3. s[1].base + 1 \in 1 .. Len(asm) /\ VarOf(l) \in s[1].cur
        BY <4>2 DEF OrRight, OpenBranch
      <4>4. l \in Lit /\ l \in W
        BY <1>b, <4>3 DEF ToSet
      <4>5. ~Free(W, VarOf(l))
        BY <4>4, FreeVar DEF Free
      <4> QED
        BY <4>1, <4>3, <4>5, LevelFacts
    <3> QED
      BY <2>1, <3>1, <3>2
  <2>2. CASE x \in 2 .. Len(t)
    <3>1. /\ AndRight(F, s[x - 1], Level(s, val, x - 1), Scope(s, x - 1, c.vars))
          /\ x - 1 < Len(s) => \E u \in s[x].cur : ~Free(Level(s, val, x - 1), u)
      <4>1. x - 1 \in 1 .. Len(s) /\ s[x - 1].kind = "and" /\ (x - 1) + 1 = x
        BY <1>4, <2>2
      <4> QED
        BY <4>1 DEF StackRight, AndFrames
    <3> QED
      BY <1>4, <2>2, <3>1
  <2> QED
    BY <1>4, <2>1, <2>2
<1>11. Inner(t)
  <2> SUFFICES ASSUME NEW x \in 1 .. Len(t), NEW y \in 1 .. Len(t), x < y,
                      t[x].kind = "or", t[y].kind = "or"
               PROVE  /\ t[y].base < t[x].base
                      /\ t[x].cur \subseteq t[y].cur
                      /\ t[x].cur # t[y].cur
    BY DEF Inner
  <2>1. x \in 2 .. Len(t) /\ y \in 2 .. Len(t) /\ x - 1 < y - 1
    BY <1>1, <1>4
  <2>2. t[x] = s[x - 1] /\ t[y] = s[y - 1]
        /\ x - 1 \in 1 .. Len(s) /\ y - 1 \in 1 .. Len(s)
    BY <1>4, <2>1
  <2>3. Inner(s) /\ s[x - 1].kind = "or" /\ s[y - 1].kind = "or"
    BY <2>2 DEF StackRight
  <2>4. /\ s[y - 1].base < s[x - 1].base
        /\ s[x - 1].cur \subseteq s[y - 1].cur
        /\ s[x - 1].cur # s[y - 1].cur
    BY <2>1, <2>2, <2>3 DEF Inner
  <2> QED
    BY <2>2, <2>4
<1>12. Level(t, W, Len(t) + 1) = c.assums
  BY <1>4 DEF StackRight
<1>13. Outermost(t, asm) = Outermost(s, asm)
  <2>1. CASE Len(s) = 0
    BY <1>4, <2>1 DEF Outermost
  <2>2. Len(s) # 1
    <3> SUFFICES ASSUME Len(s) = 1 PROVE FALSE
      OBVIOUS
    <3>1. s[1].kind = "and"
      BY <1>2 DEF Alternate
    <3> QED
      BY <3>1
  <2>3. CASE Len(s) > 1
    <3>1. /\ Len(s) \in 2 .. Len(t) /\ Len(t) - 1 = Len(s) /\ t[Len(s)] = s[Len(s) - 1]
          /\ ~(Len(s) < 2) /\ ~(Len(t) < 2)
      BY <1>4, <2>3
    <3> QED
      BY <3>1 DEF Outermost
  <2>4. \A n \in Nat : n = 0 \/ n = 1 \/ n > 1
    OBVIOUS
  <2> QED
    BY <1>4, <2>1, <2>2, <2>3, <2>4
<1> QED
  BY <1>4, <1>9, <1>10, <1>11, <1>12, <1>13, <1>b DEF StackRight

(* The calls t are those of s, the innermost one with the frame f. *)
AsDeep(s, f, t, val, vars) ==
  /\ IsSeq(t) /\ Len(t) = Len(s) /\ Len(s) \in Nat
  /\ t[1] = f /\ \A x \in 2 .. Len(s) : t[x] = s[x]
  /\ \A x \in 1 .. Len(s) : x = 1 \/ x \in 2 .. Len(s)
  /\ Alternate(t)
  /\ \A x \in 1 .. (Len(s) + 1) : Level(t, val, x) = Level(s, val, x)
  /\ \A x \in 1 .. Len(s) :
       /\ Scope(t, x, vars) = Scope(s, x, vars)
       /\ x < Len(s) => t[x + 1] = s[x + 1]

(* The innermost call goes on: the others keep their frames and levels. *)
LEMMA TopShared ==
  ASSUME NEW s, IsSeq(s), Alternate(s), Len(s) > 0, NEW f, NEW t, Continued(s, f, t),
         IsFrame(f), f.kind = s[1].kind, f.units = s[1].units, NEW val, NEW vars
  PROVE  AsDeep(s, f, t, val, vars)
<1>1. /\ IsSeq(t) /\ Len(t) = Len(s) /\ Len(s) \in Nat
      /\ t[1] = f /\ \A x \in 2 .. Len(s) : t[x] = s[x]
  BY TopFacts
<1>2. \A x \in 1 .. Len(s) : x = 1 \/ x \in 2 .. Len(s)
  BY <1>1
<1>3. \A x \in 1 .. (Len(s) + 1) : Level(t, val, x) = Level(s, val, x)
  BY LevelTop
<1>4. ASSUME NEW x \in 1 .. Len(s), x < Len(s) PROVE t[x + 1] = s[x + 1]
  <2>1. x + 1 \in 2 .. Len(s)
    BY <1>1, <1>4
  <2> QED
    BY <1>1, <2>1
<1>5. \A x \in 1 .. Len(s) : Scope(t, x, vars) = Scope(s, x, vars)
  BY <1>1, <1>4 DEF Scope
<1>6. \A x \in 1 .. Len(s) : t[x].kind = s[x].kind
  BY <1>1, <1>2
<1>7. Alternate(t)
  <2>1. \A x \in 1 .. Len(t) : IsFrame(t[x]) /\ t[x].kind \in {"and", "or"}
    BY <1>1, <1>2 DEF Alternate
  <2>2. ASSUME NEW x \in 1 .. (Len(t) - 1) PROVE t[x].kind # t[x + 1].kind
    <3>1. x \in 1 .. Len(s) /\ x + 1 \in 1 .. Len(s) /\ x \in 1 .. (Len(s) - 1)
      BY <1>1
    <3> QED
      BY <1>6, <3>1 DEF Alternate
  <2>3. t[Len(t)].kind = "and"
    <3>1. Len(s) \in 1 .. Len(s)
      BY <1>1
    <3> QED
      BY <1>1, <1>6, <3>1 DEF Alternate
  <2> QED
    BY <2>1, <2>2, <2>3 DEF Alternate
<1> QED
  BY <1>1, <1>2, <1>3, <1>4, <1>5, <1>7 DEF AsDeep

(* What the frame f of the innermost call has to fulfil. *)
TopRight(f, s, val, asm, F, vars) ==
  /\ IsFrame(f)
  /\ f.kind = s[1].kind /\ f.units = s[1].units
  /\ f.base = s[1].base /\ f.cur = s[1].cur
  /\ f.kind = "or" => /\ OrRight(F, f, val, asm)
                      /\ f.i > 0
                      /\ OpenBranch(f, asm)
  /\ f.kind = "and" => AndRight(F, f, val, Scope(s, 1, vars))

(* The innermost call goes on with a frame that fulfils it. *)
LEMMA ChangeTop ==
  ASSUME NEW s, NEW val, NEW asm, NEW open, NEW F, NEW c,
         StackRight(s, val, asm, open, F, c), Len(s) > 0,
         NEW f, TopRight(f, s, val, asm, F, c.vars),
         NEW t, Continued(s, f, t)
  PROVE  StackRight(t, val, asm, FALSE, F, c)
<1>1. IsSeq(s) /\ Alternate(s)
  BY DEF StackRight
<1>2. /\ IsFrame(f)
      /\ f.kind = s[1].kind /\ f.units = s[1].units
      /\ f.base = s[1].base /\ f.cur = s[1].cur
  BY DEF TopRight
<1>3. /\ IsSeq(t) /\ Len(t) = Len(s) /\ Len(s) \in Nat
      /\ t[1] = f /\ \A x \in 2 .. Len(s) : t[x] = s[x]
      /\ \A x \in 1 .. Len(s) : x = 1 \/ x \in 2 .. Len(s)
      /\ Alternate(t)
      /\ \A x \in 1 .. (Len(s) + 1) : Level(t, val, x) = Level(s, val, x)
      /\ \A x \in 1 .. Len(s) :
           /\ Scope(t, x, c.vars) = Scope(s, x, c.vars)
           /\ x < Len(s) => t[x + 1] = s[x + 1]
  <2>1. AsDeep(s, f, t, val, c.vars)
    BY <1>1, <1>2, TopShared
  <2> QED
    BY <2>1 DEF AsDeep
<1>4. \A x \in 1 .. Len(s) : Level(t, val, x) = Level(s, val, x)
  <2>1. \A x \in 1 .. Len(s) : x \in 1 .. (Len(s) + 1)
    BY <1>3
  <2> QED
    BY <1>3, <2>1
<1>5. \A x \in 1 .. Len(s) : t[x].kind = s[x].kind /\ t[x].base = s[x].base
                             /\ t[x].cur = s[x].cur
  BY <1>2, <1>3
<1>6. Level(t, val, 1) = val
  BY LevelFacts
<1>7. OrFrames(t, val, asm, FALSE, F)
  <2> SUFFICES ASSUME NEW x \in 1 .. Len(t), t[x].kind = "or"
               PROVE  /\ OrRight(F, t[x], Level(t, val, x), asm)
                      /\ x > 1 => t[x].i <= Len(t[x].lits)
                      /\ t[x].i > 0 \/ x > 1
                      /\ OpenBranch(t[x], asm)
    BY DEF OrFrames
  <2>1. CASE x = 1
    BY <1>3, <1>6, <2>1 DEF TopRight
  <2>2. CASE x \in 2 .. Len(t)
    <3>1. x > 1 /\ t[x] = s[x] /\ x \in 1 .. Len(s)
      BY <1>3, <2>2
    <3>2. OrRight(F, s[x], Level(s, val, x), asm) /\ s[x].i <= Len(s[x].lits)
          /\ OpenBranch(s[x], asm)
      BY <3>1 DEF StackRight, OrFrames
    <3> QED
      BY <1>4, <3>1, <3>2
  <2> QED
    BY <1>3, <2>1, <2>2
<1>8. AndFrames(t, val, F, c.vars)
  <2> SUFFICES ASSUME NEW x \in 1 .. Len(t), t[x].kind = "and"
               PROVE  /\ AndRight(F, t[x], Level(t, val, x), Scope(t, x, c.vars))
                      /\ x < Len(t) => \E u \in t[x + 1].cur : ~Free(Level(t, val, x), u)
    BY DEF AndFrames
  <2>1. s[x].kind = "and" /\ x \in 1 .. Len(s)
    BY <1>3, <1>5
  <2>2. /\ AndRight(F, s[x], Level(s, val, x), Scope(s, x, c.vars))
        /\ x < Len(s) => \E u \in s[x + 1].cur : ~Free(Level(s, val, x), u)
    BY <2>1 DEF StackRight, AndFrames
  <2>3. x < Len(t) => \E u \in t[x + 1].cur : ~Free(Level(t, val, x), u)
    BY <1>3, <1>4, <2>1, <2>2
  <2>4. AndRight(F, t[x], Level(t, val, x), Scope(t, x, c.vars))
    <3>1. CASE x = 1
      BY <1>3, <1>6, <2>1, <3>1 DEF TopRight
    <3>2. CASE x \in 2 .. Len(s)
      BY <1>3, <1>4, <2>1, <2>2, <3>2
    <3> QED
      BY <1>3, <2>1, <3>1, <3>2
  <2> QED
    BY <2>3, <2>4
<1>9. Inner(t)
  <2>1. Inner(s)
    BY DEF StackRight
  <2> QED
    BY <1>3, <1>5, <2>1 DEF Inner
<1>10. Level(t, val, Len(t) + 1) = c.assums
  <2>1. Len(s) + 1 \in 1 .. (Len(s) + 1)
    BY <1>3
  <2> QED
    BY <1>3, <2>1 DEF StackRight
<1>11. Outermost(t, asm) = Outermost(s, asm)
  <2>1. ~(Len(s) < 2) => Len(s) - 1 \in 1 .. Len(s)
    BY <1>3
  <2> QED
    BY <1>3, <1>5, <2>1 DEF Outermost
<1> QED
  BY <1>3, <1>7, <1>8, <1>9, <1>10, <1>11 DEF StackRight

(* compute_ returns: its units have no value any more. *)
LEMMA PopAnd ==
  ASSUME NEW s, NEW val, NEW asm, NEW F, NEW c,
         StackRight(s, val, asm, FALSE, F, c),
         Len(s) > 0, s[1].kind = "and",
         NEW t, Returned(s, t)
  PROVE  /\ StackRight(t, val \ s[1].units, asm, TRUE, F, c)
         /\ Len(t) > 0 => t[1].kind = "or"
<1>b. PICK W : W = val \ s[1].units
  OBVIOUS
<1>1. IsSeq(s) /\ Alternate(s)
  BY DEF StackRight
<1>2. /\ IsSeq(t) /\ Len(t) = Len(s) - 1 /\ Len(s) \in Nat
      /\ Alternate(t)
      /\ Len(t) > 0 => t[1].kind # s[1].kind
      /\ \A x \in 1 .. Len(t) :
           /\ x + 1 \in 1 .. Len(s) /\ t[x] = s[x + 1]
           /\ Level(t, W, x) = Level(s, val, x + 1)
           /\ Scope(t, x, c.vars) = Scope(s, x + 1, c.vars)
           /\ x < Len(t) => x + 1 < Len(s) /\ t[x + 1] = s[(x + 1) + 1]
      /\ Level(t, W, Len(t) + 1) = Level(s, val, Len(s) + 1)
  <2>1. Shallower(s, t, val, val \ s[1].units, c.vars)
    BY <1>1, PopShared
  <2> QED
    BY <1>b, <2>1 DEF Shallower
<1>3. Len(t) > 0 => t[1].kind = "or"
  <2>1. Len(t) > 0 => 1 \in 1 .. Len(t)
    BY <1>2
  <2> QED
    BY <1>2, <2>1 DEF Alternate
<1>4. OrFrames(t, W, asm, TRUE, F)
  <2> SUFFICES ASSUME NEW x \in 1 .. Len(t), t[x].kind = "or"
               PROVE  /\ OrRight(F, t[x], Level(t, W, x), asm)
                      /\ t[x].i <= Len(t[x].lits)
                      /\ OpenBranch(t[x], asm)
    BY DEF OrFrames
  <2>1. x + 1 > 1 /\ x + 1 \in 1 .. Len(s) /\ s[x + 1].kind = "or"
    BY <1>2
  <2>2. /\ OrRight(F, s[x + 1], Level(s, val, x + 1), asm)
        /\ s[x + 1].i <= Len(s[x + 1].lits)
        /\ OpenBranch(s[x + 1], asm)
    BY <2>1 DEF StackRight, OrFrames
  <2> QED
    BY <1>2, <2>2
<1>5. AndFrames(t, W, F, c.vars)
  <2> SUFFICES ASSUME NEW x \in 1 .. Len(t), t[x].kind = "and"
               PROVE  /\ AndRight(F, t[x], Level(t, W, x), Scope(t, x, c.vars))
                      /\ x < Len(t) => \E u \in t[x + 1].cur : ~Free(Level(t, W, x), u)
    BY DEF AndFrames
  <2>1. x + 1 \in 1 .. Len(s) /\ s[x + 1].kind = "and"
    BY <1>2
  <2>2. /\ AndRight(F, s[x + 1], Level(s, val, x + 1), Scope(s, x + 1, c.vars))
        /\ x + 1 < Len(s) =>
             \E u \in s[(x + 1) + 1].cur : ~Free(Level(s, val, x + 1), u)
    BY <2>1 DEF StackRight, AndFrames
  <2> QED
    BY <1>2, <2>2
<1>6. Inner(t)
  <2> SUFFICES ASSUME NEW x \in 1 .. Len(t), NEW y \in 1 .. Len(t), x < y,
                      t[x].kind = "or", t[y].kind = "or"
               PROVE  /\ t[y].base < t[x].base
                      /\ t[x].cur \subseteq t[y].cur
                      /\ t[x].cur # t[y].cur
    BY DEF Inner
  <2>1. /\ t[x] = s[x + 1] /\ t[y] = s[y + 1]
        /\ x + 1 \in 1 .. Len(s) /\ y + 1 \in 1 .. Len(s)
    BY <1>2
  <2>2. x + 1 < y + 1
    OBVIOUS
  <2>3. Inner(s)
    BY DEF StackRight
  <2>4. /\ s[y + 1].base < s[x + 1].base
        /\ s[x + 1].cur \subseteq s[y + 1].cur
        /\ s[x + 1].cur # s[y + 1].cur
    BY <2>1, <2>2, <2>3 DEF Inner
  <2> QED
    BY <2>1, <2>4
<1>7. Outermost(t, asm) = Outermost(s, asm)
  <2>1. CASE Len(s) = 1
    BY <1>2, <2>1 DEF Outermost
  <2>2. Len(s) # 2
    <3> SUFFICES ASSUME Len(s) = 2 PROVE FALSE
      OBVIOUS
    <3>1. 1 \in 1 .. (Len(s) - 1) /\ s[1 + 1].kind = "and"
      BY <1>1 DEF Alternate
    <3> QED
      BY <1>1, <3>1 DEF Alternate
  <2>3. CASE Len(s) > 2
    <3>1. /\ Len(t) - 1 \in 1 .. Len(t) /\ (Len(t) - 1) + 1 = Len(s) - 1
          /\ ~(Len(s) < 2) /\ ~(Len(t) < 2)
      BY <1>2, <2>3
    <3>2. t[Len(t) - 1] = s[Len(s) - 1]
      BY <1>2, <3>1
    <3> QED
      BY <3>1, <3>2 DEF Outermost
  <2>4. \A n \in Nat : n > 0 => n = 1 \/ n = 2 \/ n > 2
    OBVIOUS
  <2> QED
    BY <1>2, <2>1, <2>2, <2>3, <2>4
<1>8. Level(t, W, Len(t) + 1) = c.assums
  BY <1>2 DEF StackRight
<1>9. {asm[k] : k \in 1 .. Outermost(t, asm)} = c.assums
  BY <1>7 DEF StackRight
<1>10. StackRight(t, W, asm, TRUE, F, c)
  BY <1>2, <1>4, <1>5, <1>6, <1>8, <1>9 DEF StackRight
<1> QED
  BY <1>3, <1>10, <1>b

(* The first n assumptions. *)
IsPrefixOf(a, asm, n) == a = SubSeq(asm, 1, n)

(* computeDecisionNode returns: its assumptions are popped. *)
LEMMA PopOr ==
  ASSUME NEW s, NEW val, NEW asm \in Seq(Lit), NEW F, NEW c,
         StackRight(s, val, asm, FALSE, F, c),
         Len(s) > 0, s[1].kind = "or",
         NEW t, Returned(s, t),
         NEW a, IsPrefixOf(a, asm, s[1].base)
  PROVE  /\ StackRight(t, val, a, FALSE, F, c)
         /\ Len(t) > 0 /\ t[1].kind = "and"
         /\ ToSet(a) \subseteq val
         /\ a \in Seq(Lit)
<1>1. IsSeq(s) /\ Alternate(s)
  BY DEF StackRight
<1>2. OrRight(F, s[1], val, asm) /\ Len(s) \in Nat
  <2>1. Len(s) \in Nat
    BY <1>1 DEF IsSeq
  <2>2. 1 \in 1 .. Len(s) /\ Level(s, val, 1) = val
    BY <2>1, LevelFacts
  <2> QED
    BY <2>1, <2>2 DEF StackRight, OrFrames
<1>3. s[1].units = {} /\ s[1].base \in 0 .. Len(asm) /\ Len(asm) \in Nat
      /\ \A k \in 1 .. s[1].base : asm[k] \in val
  BY <1>2 DEF OrRight
<1>4. /\ IsSeq(t) /\ Len(t) = Len(s) - 1 /\ Len(s) \in Nat
      /\ Alternate(t)
      /\ Len(t) > 0 => t[1].kind # s[1].kind
      /\ Len(t) = 0 => s[1].kind = "and"
      /\ \A x \in 1 .. Len(t) :
           /\ x + 1 \in 1 .. Len(s) /\ t[x] = s[x + 1]
           /\ Level(t, val, x) = Level(s, val, x + 1)
           /\ Scope(t, x, c.vars) = Scope(s, x + 1, c.vars)
           /\ x < Len(t) => x + 1 < Len(s) /\ t[x + 1] = s[(x + 1) + 1]
      /\ Level(t, val, Len(t) + 1) = Level(s, val, Len(s) + 1)
  <2>1. Shallower(s, t, val, val \ s[1].units, c.vars)
    BY <1>1, PopShared
  <2>2. val \ s[1].units = val
    BY <1>3
  <2> QED
    BY <2>1, <2>2 DEF Shallower
<1>5. Len(t) > 0 /\ Len(t) \in Nat
  BY <1>4
<1>6. t[1].kind = "and"
  <2>1. 1 \in 1 .. Len(t)
    BY <1>5
  <2> QED
    BY <1>4, <1>5, <2>1 DEF Alternate
<1>7. /\ a \in Seq(Lit) /\ Len(a) = s[1].base
      /\ \A k \in 1 .. s[1].base : a[k] = asm[k]
  BY <1>3 DEF IsPrefixOf
<1>8. ToSet(a) \subseteq val
  BY <1>3, <1>7 DEF ToSet
<1>9. Inner(s)
  BY DEF StackRight
<1>10. ASSUME NEW x \in 1 .. Len(t), t[x].kind = "or"
       PROVE  t[x].base < s[1].base
  <2>1. 1 \in 1 .. Len(s) /\ 1 < x + 1 /\ x + 1 \in 1 .. Len(s) /\ t[x] = s[x + 1]
    BY <1>4, <1>10
  <2> QED
    BY <1>9, <1>10, <2>1 DEF Inner
<1>11. OrFrames(t, val, a, FALSE, F)
  <2> SUFFICES ASSUME NEW x \in 1 .. Len(t), t[x].kind = "or"
               PROVE  /\ OrRight(F, t[x], Level(t, val, x), a)
                      /\ t[x].i <= Len(t[x].lits)
                      /\ OpenBranch(t[x], a)
                      /\ x > 1
    BY DEF OrFrames
  <2>0. x + 1 \in 1 .. Len(s) /\ t[x] = s[x + 1]
    BY <1>4
  <2>1. x + 1 > 1 /\ x + 1 \in 1 .. Len(s) /\ s[x + 1].kind = "or"
    BY <2>0
  <2>2. /\ OrRight(F, t[x], Level(t, val, x), asm)
        /\ t[x].i <= Len(t[x].lits)
        /\ OpenBranch(t[x], asm)
    <3>1. /\ OrRight(F, s[x + 1], Level(s, val, x + 1), asm)
          /\ s[x + 1].i <= Len(s[x + 1].lits)
          /\ OpenBranch(s[x + 1], asm)
      BY <2>1 DEF StackRight, OrFrames
    <3> QED
      BY <1>4, <3>1
  <2>3. x > 1
    BY <1>4, <1>5, <1>6
  <2>4. t[x].base < s[1].base /\ t[x].base \in Nat
    BY <1>3, <1>10, <2>2 DEF OrRight
  <2>5. /\ \A k \in 1 .. t[x].base : k \in 1 .. s[1].base
        /\ \A k \in (t[x].base + 1) .. Len(a) :
             k \in 1 .. s[1].base /\ k \in (t[x].base + 1) .. Len(asm)
        /\ t[x].base \in 0 .. Len(a)
    BY <1>3, <1>7, <2>4
  <2>6. \A k \in 1 .. t[x].base : a[k] \in Level(t, val, x)
    BY <1>7, <2>2, <2>5 DEF OrRight
  <2>7. \A k \in (t[x].base + 1) .. Len(a) : Free(Level(t, val, x), a[k])
    BY <1>7, <2>2, <2>5 DEF OrRight
  <2>8. OrRight(F, t[x], Level(t, val, x), a)
    BY <2>2, <2>5, <2>6, <2>7 DEF OrRight
  <2>9. OpenBranch(t[x], a)
    <3>1. t[x].base + 1 \in 1 .. s[1].base
      BY <1>3, <2>4
    <3> QED
      BY <1>7, <2>2, <2>4, <3>1 DEF OpenBranch
  <2> QED
    BY <2>2, <2>3, <2>8, <2>9
<1>12. AndFrames(t, val, F, c.vars)
  <2> SUFFICES ASSUME NEW x \in 1 .. Len(t), t[x].kind = "and"
               PROVE  /\ AndRight(F, t[x], Level(t, val, x), Scope(t, x, c.vars))
                      /\ x < Len(t) => \E u \in t[x + 1].cur : ~Free(Level(t, val, x), u)
    BY DEF AndFrames
  <2>1. x + 1 \in 1 .. Len(s) /\ s[x + 1].kind = "and"
    BY <1>4
  <2>2. /\ AndRight(F, s[x + 1], Level(s, val, x + 1), Scope(s, x + 1, c.vars))
        /\ x + 1 < Len(s) =>
             \E u \in s[(x + 1) + 1].cur : ~Free(Level(s, val, x + 1), u)
    BY <2>1 DEF StackRight, AndFrames
  <2> QED
    BY <1>4, <2>2
<1>13. Inner(t)
  <2> SUFFICES ASSUME NEW x \in 1 .. Len(t), NEW y \in 1 .. Len(t), x < y,
                      t[x].kind = "or", t[y].kind = "or"
               PROVE  /\ t[y].base < t[x].base
                      /\ t[x].cur \subseteq t[y].cur
                      /\ t[x].cur # t[y].cur
    BY DEF Inner
  <2>1. /\ t[x] = s[x + 1] /\ t[y] = s[y + 1]
        /\ x + 1 \in 1 .. Len(s) /\ y + 1 \in 1 .. Len(s)
    BY <1>4
  <2>2. x + 1 < y + 1
    OBVIOUS
  <2>4. /\ s[y + 1].base < s[x + 1].base
        /\ s[x + 1].cur \subseteq s[y + 1].cur
        /\ s[x + 1].cur # s[y + 1].cur
    BY <1>9, <2>1, <2>2 DEF Inner
  <2> QED
    BY <2>1, <2>4
<1>14. Level(t, val, Len(t) + 1) = c.assums
  BY <1>4 DEF StackRight
<1>15. {a[k] : k \in 1 .. Outermost(t, a)} = c.assums
  <2>1. Outermost(t, a) = Outermost(s, asm)
        /\ Outermost(t, a) <= s[1].base /\ Outermost(t, a) \in Int
    <3>1. CASE Len(t) = 1
      <4>1. Len(t) < 2 /\ ~(Len(s) < 2) /\ Len(s) - 1 = 1
        <5>0. \A n \in Nat : n - 1 = 1 => n = 2
          OBVIOUS
        <5>1. Len(s) = 2
          BY <1>4, <3>1, <5>0
        <5> QED
          BY <3>1, <5>1
      <4>2. Outermost(t, a) = Len(a) /\ Outermost(s, asm) = s[1].base
        BY <4>1 DEF Outermost
      <4>3. \A n \in 0 .. Len(asm) : n <= n /\ n \in Int
        BY <1>3
      <4> QED
        BY <1>3, <1>7, <4>2, <4>3
    <3>2. CASE Len(t) > 1
      <4>1. /\ ~(Len(t) < 2) /\ ~(Len(s) < 2)
            /\ (Len(t) - 1) + 1 = Len(s) - 1 /\ Len(t) - 1 \in 1 .. Len(t)
            /\ Len(t) \in 1 .. Len(t) /\ (Len(t) - 1) + 1 = Len(t)
            /\ Len(t) - 1 \in 1 .. (Len(t) - 1)
        BY <1>4, <3>2
      <4>2. t[Len(t) - 1] = s[Len(s) - 1]
        BY <1>4, <4>1
      <4>3. t[Len(t) - 1].kind = "or"
        BY <1>4, <1>5, <4>1 DEF Alternate
      <4>4. t[Len(t) - 1].base < s[1].base
        BY <1>10, <4>1, <4>3
      <4>5. t[Len(t) - 1].base \in Int
        <5>1. OrRight(F, t[Len(t) - 1], Level(t, val, Len(t) - 1), a)
          BY <1>11, <4>1, <4>3 DEF OrFrames
        <5>2. t[Len(t) - 1].base \in 0 .. Len(a)
          BY <5>1 DEF OrRight
        <5> QED
          BY <5>2
      <4>6. Outermost(t, a) = t[Len(t) - 1].base /\ Outermost(s, asm) = s[Len(s) - 1].base
        BY <4>1 DEF Outermost
      <4>7. \A m, n \in Int : m < n => m <= n
        OBVIOUS
      <4> QED
        BY <1>3, <4>2, <4>4, <4>5, <4>6, <4>7
    <3>3. \A n \in Nat : n > 0 => n = 1 \/ n > 1
      OBVIOUS
    <3> QED
      BY <1>5, <3>1, <3>2, <3>3
  <2>2. PICK n : n = Outermost(t, a)
    OBVIOUS
  <2>3. \A k \in 1 .. n : k \in 1 .. s[1].base
    BY <1>3, <2>1, <2>2
  <2>4. \A k \in 1 .. n : a[k] = asm[k]
    BY <1>7, <2>3
  <2>5. {asm[k] : k \in 1 .. n} = c.assums
    BY <2>1, <2>2 DEF StackRight
  <2> QED
    BY <2>2, <2>4, <2>5
<1>16. StackRight(t, val, a, FALSE, F, c)
  BY <1>4, <1>11, <1>12, <1>13, <1>14, <1>15 DEF StackRight
<1> QED
  BY <1>5, <1>6, <1>7, <1>8, <1>16

(***************************************************************************)
(* computeDecisionNode starts on a component of the call around it: the    *)
(* component is smaller than that of the decision further out, one of      *)
(* whose variables has got a value.                                        *)
(***************************************************************************)
LEMMA PushOr ==
  ASSUME NEW s, NEW val, NEW asm \in Seq(Lit), NEW F, NEW c,
         StackRight(s, val, asm, FALSE, F, c),
         Len(s) > 0, s[1].kind = "and",
         NEW f, IsFrame(f), f.kind = "or", f.i = 0, f.base = Len(asm),
         f.cur \in s[1].todo, OrRight(F, f, val, asm),
         NEW t, Entered(s, f, t)
  PROVE  StackRight(t, val, asm, FALSE, F, c)
<1>1. IsSeq(s) /\ Alternate(s) /\ f.units = {}
  BY DEF StackRight, OrRight
<1>2. /\ IsSeq(t) /\ Len(t) = Len(s) + 1 /\ Len(s) \in Nat
      /\ t[1] = f /\ Level(t, val, 1) = val
      /\ Alternate(t)
      /\ \A x \in 1 .. Len(t) : x = 1 \/ x \in 2 .. Len(t)
      /\ \A x \in 2 .. Len(t) :
           /\ x - 1 \in 1 .. Len(s) /\ t[x] = s[x - 1]
           /\ Level(t, val, x) = Level(s, val, x - 1)
           /\ Scope(t, x, c.vars) = Scope(s, x - 1, c.vars)
           /\ x < Len(t) => x - 1 < Len(s) /\ t[x + 1] = s[x]
      /\ Level(t, val, Len(t) + 1) = Level(s, val, Len(s) + 1)
  <2>1. CanEnter(s, f)
    BY <1>1 DEF CanEnter
  <2>2. val \cap f.units = {} /\ val \cup f.units = val
    BY <1>1
  <2>3. Deeper(s, f, t, val, val \cup f.units, c.vars)
    BY <2>1, <2>2, PushShared
  <2> QED
    BY <2>2, <2>3 DEF Deeper
<1>3. ASSUME NEW x \in 2 .. Len(t), t[x].kind = "or"
      PROVE  /\ x - 1 \in 2 .. Len(s) /\ t[x] = s[x - 1]
             /\ OrRight(F, s[x - 1], Level(s, val, x - 1), asm)
             /\ s[x - 1].i <= Len(s[x - 1].lits)
             /\ OpenBranch(s[x - 1], asm)
  <2>1. x - 1 \in 1 .. Len(s) /\ t[x] = s[x - 1] /\ s[x - 1].kind = "or"
    BY <1>2, <1>3
  <2>2. x - 1 # 1
    BY <2>1
  <2>3. x - 1 \in 2 .. Len(s) /\ x - 1 > 1
    BY <2>1, <2>2
  <2> QED
    BY <2>1, <2>3 DEF StackRight, OrFrames
<1>4. OrFrames(t, val, asm, FALSE, F)
  <2> SUFFICES ASSUME NEW x \in 1 .. Len(t), t[x].kind = "or"
               PROVE  /\ OrRight(F, t[x], Level(t, val, x), asm)
                      /\ x > 1 => t[x].i <= Len(t[x].lits)
                      /\ IF t[x].i > 0 \/ x > 1 THEN OpenBranch(t[x], asm)
                                                ELSE t[x].base = Len(asm)
    BY DEF OrFrames
  <2>1. CASE x = 1
    <3>1. ~(f.i > 0 \/ x > 1)
      BY <2>1
    <3> QED
      BY <1>2, <2>1, <3>1
  <2>2. CASE x \in 2 .. Len(t)
    <3>1. x > 1
      BY <2>2
    <3> QED
      BY <1>2, <1>3, <2>2, <3>1
  <2> QED
    BY <1>2, <2>1, <2>2
<1>5. AndFrames(t, val, F, c.vars)
  <2> SUFFICES ASSUME NEW x \in 1 .. Len(t), t[x].kind = "and"
               PROVE  /\ AndRight(F, t[x], Level(t, val, x), Scope(t, x, c.vars))
                      /\ x < Len(t) => \E u \in t[x + 1].cur : ~Free(Level(t, val, x), u)
    BY DEF AndFrames
  <2>1. x \in 2 .. Len(t)
    BY <1>2
  <2>2. /\ AndRight(F, s[x - 1], Level(s, val, x - 1), Scope(s, x - 1, c.vars))
        /\ x - 1 < Len(s) => \E u \in s[x].cur : ~Free(Level(s, val, x - 1), u)
    <3>1. x - 1 \in 1 .. Len(s) /\ s[x - 1].kind = "and" /\ (x - 1) + 1 = x
      BY <1>2, <2>1
    <3> QED
      BY <3>1 DEF StackRight, AndFrames
  <2> QED
    BY <1>2, <2>1, <2>2
<1>6. Inner(t)
  <2> SUFFICES ASSUME NEW x \in 1 .. Len(t), NEW y \in 1 .. Len(t), x < y,
                      t[x].kind = "or", t[y].kind = "or"
               PROVE  /\ t[y].base < t[x].base
                      /\ t[x].cur \subseteq t[y].cur
                      /\ t[x].cur # t[y].cur
    BY DEF Inner
  <2>0. Inner(s)
    BY DEF StackRight
  <2>1. y \in 2 .. Len(t)
    BY <1>2
  <2>2. /\ y - 1 \in 2 .. Len(s) /\ t[y] = s[y - 1] /\ s[y - 1].kind = "or"
        /\ OrRight(F, s[y - 1], Level(s, val, y - 1), asm)
        /\ OpenBranch(s[y - 1], asm)
    BY <1>3, <2>1
  <2>3. CASE x = 1
    <3>1. t[x] = f /\ t[y].base < f.base
      BY <1>2, <2>2, <2>3 DEF OpenBranch
    <3>2. /\ 1 \in 1 .. Len(s) /\ 1 < Len(s) /\ 1 + 1 = 2 /\ 2 \in 1 .. Len(s)
          /\ 1 \in 1 .. (Len(s) - 1) /\ y - 1 \in 1 .. Len(s)
      BY <1>2, <2>2
    <3>3. s[2].kind = "or"
      BY <1>1, <3>2 DEF Alternate
    <3>4. /\ AndRight(F, s[1], val, Scope(s, 1, c.vars))
          /\ \E u \in s[2].cur : ~Free(val, u)
      <4>1. Level(s, val, 1) = val
        BY LevelFacts
      <4> QED
        BY <3>2, <4>1 DEF StackRight, AndFrames
    <3>5. f.cur \subseteq s[2].cur /\ \A u \in f.cur : Free(val, u)
      BY <3>2, <3>4 DEF AndRight, Scope
    <3>6. s[2].cur \subseteq s[y - 1].cur
      <4>1. CASE y - 1 = 2
        BY <4>1
      <4>2. CASE y - 1 # 2
        <5>1. 2 < y - 1
          BY <2>2, <4>2
        <5> QED
          BY <2>0, <2>2, <3>2, <3>3, <5>1 DEF Inner
      <4> QED
        BY <4>1, <4>2
    <3>7. PICK u \in s[2].cur : ~Free(val, u)
      BY <3>4
    <3>8. u \in s[y - 1].cur /\ u \notin f.cur
      BY <3>5, <3>6, <3>7
    <3> QED
      BY <2>2, <3>1, <3>5, <3>6, <3>8
  <2>4. CASE x \in 2 .. Len(t)
    <3>1. x - 1 \in 2 .. Len(s) /\ t[x] = s[x - 1] /\ s[x - 1].kind = "or"
      BY <1>3, <2>4
    <3>2. x - 1 < y - 1 /\ x - 1 \in 1 .. Len(s) /\ y - 1 \in 1 .. Len(s)
      BY <1>2, <2>2, <3>1
    <3>3. /\ s[y - 1].base < s[x - 1].base
          /\ s[x - 1].cur \subseteq s[y - 1].cur
          /\ s[x - 1].cur # s[y - 1].cur
      BY <2>0, <2>2, <3>1, <3>2 DEF Inner
    <3> QED
      BY <2>2, <3>1, <3>3
  <2> QED
    BY <1>2, <2>3, <2>4
<1>7. Outermost(t, asm) = Outermost(s, asm)
  <2>1. CASE Len(s) = 1
    <3>1. Len(s) < 2 /\ ~(Len(t) < 2) /\ Len(t) - 1 = 1
      BY <1>2, <2>1
    <3> QED
      BY <1>2, <3>1 DEF Outermost
  <2>2. CASE Len(s) > 1
    <3>1. /\ Len(s) \in 2 .. Len(t) /\ Len(t) - 1 = Len(s)
          /\ ~(Len(s) < 2) /\ ~(Len(t) < 2)
      BY <1>2, <2>2
    <3>2. t[Len(s)] = s[Len(s) - 1]
      BY <1>2, <3>1
    <3> QED
      BY <3>1, <3>2 DEF Outermost
  <2>3. \A n \in Nat : n > 0 => n = 1 \/ n > 1
    OBVIOUS
  <2> QED
    BY <1>2, <2>1, <2>2, <2>3
<1>8. Level(t, val, Len(t) + 1) = c.assums
  BY <1>2 DEF StackRight
<1>9. {asm[k] : k \in 1 .. Outermost(t, asm)} = c.assums
  BY <1>7 DEF StackRight
<1> QED
  BY <1>2, <1>4, <1>5, <1>6, <1>8, <1>9 DEF StackRight

(* The positions of p assumptions, when n of q and then m of them are kept. *)
LEMMA Positions ==
  ASSUME NEW m \in Nat, NEW n \in Nat, NEW p \in Nat, NEW q \in Nat,
         n < m, m <= q, p > m
  PROVE  /\ \A k \in 1 .. n : k \in 1 .. m
         /\ \A k \in (n + 1) .. p :
              \/ k \in (m + 1) .. p
              \/ k \in 1 .. m /\ k \in (n + 1) .. q
         /\ n \in 0 .. p /\ n + 1 \in 1 .. m /\ n < p
<1>1. \A k \in (n + 1) .. p :
        \/ k \in (m + 1) .. p
        \/ k \in 1 .. m /\ k \in (n + 1) .. q
  OBVIOUS
<1>2. \A k \in 1 .. n : k \in 1 .. m
  OBVIOUS
<1>3. n \in 0 .. p /\ n + 1 \in 1 .. m /\ n < p
  OBVIOUS
<1> QED
  BY <1>1, <1>2, <1>3

(***************************************************************************)
(* computeDecisionNode enters a branch: whatever it assumes beyond its     *)
(* first assumptions has no value yet, and the first is one of its own.    *)
(***************************************************************************)
LEMMA NewBranch ==
  ASSUME NEW s, NEW val, NEW asm \in Seq(Lit), NEW F, NEW c,
         StackRight(s, val, asm, FALSE, F, c),
         Len(s) > 0, s[1].kind = "or", s[1].i <= Len(s[1].lits),
         NEW a \in Seq(Lit), Len(a) > s[1].base,
         \A k \in 1 .. s[1].base : a[k] = asm[k],
         \A k \in (s[1].base + 1) .. Len(a) : Free(val, a[k]),
         VarOf(a[s[1].base + 1]) \in s[1].cur
  PROVE  StackRight(s, val, a, TRUE, F, c)
<1>1. IsSeq(s) /\ Alternate(s) /\ Inner(s)
  BY DEF StackRight
<1>2. OrRight(F, s[1], val, asm) /\ Len(s) \in Nat
  <2>1. Len(s) \in Nat
    BY <1>1 DEF IsSeq
  <2>2. 1 \in 1 .. Len(s) /\ Level(s, val, 1) = val
    BY <2>1, LevelFacts
  <2> QED
    BY <2>1, <2>2 DEF StackRight, OrFrames
<1>3. s[1].base \in 0 .. Len(asm) /\ s[1].base \in Nat /\ Len(asm) \in Nat
      /\ Len(a) \in Nat /\ \A k \in 1 .. s[1].base : asm[k] \in val
  <2>1. s[1].base \in 0 .. Len(asm) /\ \A k \in 1 .. s[1].base : asm[k] \in val
    BY <1>2 DEF OrRight
  <2> QED
    BY <2>1
<1>4. \A x \in 1 .. Len(s) : x = 1 \/ x \in 2 .. Len(s)
  BY <1>2
<1>5. ASSUME NEW x \in 2 .. Len(s), s[x].kind = "or"
      PROVE  /\ s[x].base < s[1].base /\ s[x].base \in Nat
             /\ OrRight(F, s[x], Level(s, val, x), asm)
             /\ s[x].i <= Len(s[x].lits)
             /\ OpenBranch(s[x], asm)
  <2>1. 1 \in 1 .. Len(s) /\ x \in 1 .. Len(s) /\ 1 < x /\ x > 1
    BY <1>2
  <2>2. /\ OrRight(F, s[x], Level(s, val, x), asm)
        /\ s[x].i <= Len(s[x].lits)
        /\ OpenBranch(s[x], asm)
    BY <1>5, <2>1 DEF StackRight, OrFrames
  <2>3. s[x].base \in 0 .. Len(asm)
    BY <2>2 DEF OrRight
  <2>4. s[x].base \in Nat
    BY <2>3
  <2>5. s[x].base < s[1].base
    BY <1>1, <1>5, <2>1 DEF Inner
  <2> QED
    BY <2>2, <2>4, <2>5
<1>6. OrFrames(s, val, a, TRUE, F)
  <2> SUFFICES ASSUME NEW x \in 1 .. Len(s), s[x].kind = "or"
               PROVE  /\ OrRight(F, s[x], Level(s, val, x), a)
                      /\ s[x].i <= Len(s[x].lits)
                      /\ OpenBranch(s[x], a)
    BY DEF OrFrames
  <2>1. CASE x = 1
    <3>1. Level(s, val, x) = val
      BY <2>1, LevelFacts
    <3>2. s[1].base \in 0 .. Len(a)
      BY <1>3
    <3>3. OrRight(F, s[1], val, a)
      BY <1>2, <1>3, <3>2 DEF OrRight
    <3> QED
      BY <2>1, <3>1, <3>3 DEF OpenBranch
  <2>2. CASE x \in 2 .. Len(s)
    <3>1. /\ s[x].base < s[1].base /\ s[x].base \in Nat
          /\ OrRight(F, s[x], Level(s, val, x), asm)
          /\ s[x].i <= Len(s[x].lits)
          /\ OpenBranch(s[x], asm)
      BY <1>5, <2>2
    <3>2. /\ \A k \in 1 .. s[x].base : k \in 1 .. s[1].base
          /\ \A k \in (s[x].base + 1) .. Len(a) :
               \/ k \in (s[1].base + 1) .. Len(a)
               \/ k \in 1 .. s[1].base /\ k \in (s[x].base + 1) .. Len(asm)
          /\ s[x].base \in 0 .. Len(a)
          /\ s[x].base + 1 \in 1 .. s[1].base
          /\ s[x].base < Len(a)
      <4>1. s[1].base <= Len(asm)
        BY <1>3
      <4> QED
        <5>1. PICK m \in Nat : m = s[1].base
          BY <1>3
        <5>2. PICK n \in Nat : n = s[x].base
          BY <3>1
        <5>3. PICK p \in Nat : p = Len(a)
          BY <1>3
        <5>4. PICK q \in Nat : q = Len(asm)
          BY <1>3
        <5>5. n < m /\ m <= q /\ p > m
          BY <3>1, <4>1, <5>1, <5>2, <5>3, <5>4
        <5> QED
          BY <5>1, <5>2, <5>3, <5>4, <5>5, Positions
    <3>3. \A k \in 1 .. s[x].base : a[k] \in Level(s, val, x)
      BY <3>1, <3>2 DEF OrRight
    <3>4. \A k \in (s[x].base + 1) .. Len(a) : Free(Level(s, val, x), a[k])
      <4>1. \A l : Free(val, l) => Free(Level(s, val, x), l)
        BY LevelFacts DEF Free
      <4>2. \A k \in (s[x].base + 1) .. Len(asm) : Free(Level(s, val, x), asm[k])
        BY <3>1 DEF OrRight
      <4> QED
        BY <3>2, <4>1, <4>2
    <3>5. OrRight(F, s[x], Level(s, val, x), a)
      BY <3>1, <3>2, <3>3, <3>4 DEF OrRight
    <3>6. OpenBranch(s[x], a)
      BY <3>1, <3>2 DEF OpenBranch
    <3> QED
      BY <3>1, <3>5, <3>6
  <2> QED
    BY <1>4, <2>1, <2>2
<1>7. {a[k] : k \in 1 .. Outermost(s, a)} = c.assums
  <2>1. Outermost(s, a) = Outermost(s, asm)
        /\ Outermost(s, a) <= s[1].base /\ Outermost(s, a) \in Int
    <3>1. Len(s) # 1
      BY <1>1 DEF Alternate
    <3>2. CASE Len(s) = 2
      <4>1. ~(Len(s) < 2) /\ Len(s) - 1 = 1
        BY <3>2
      <4>2. Outermost(s, a) = s[1].base /\ Outermost(s, asm) = s[1].base
        BY <4>1 DEF Outermost
      <4>3. \A n \in Nat : n <= n /\ n \in Int
        OBVIOUS
      <4> QED
        BY <1>3, <4>2, <4>3
    <3>3. CASE Len(s) > 2
      <4>1. /\ ~(Len(s) < 2) /\ Len(s) - 1 \in 2 .. Len(s)
            /\ Len(s) - 1 \in 1 .. (Len(s) - 1) /\ (Len(s) - 1) + 1 = Len(s)
            /\ Len(s) - 1 \in 1 .. Len(s)
        BY <1>2, <3>3
      <4>2. s[Len(s) - 1].kind = "or"
        BY <1>1, <4>1 DEF Alternate
      <4>3. s[Len(s) - 1].base < s[1].base /\ s[Len(s) - 1].base \in Nat
        BY <1>5, <4>1, <4>2
      <4>4. Outermost(s, a) = s[Len(s) - 1].base /\ Outermost(s, asm) = s[Len(s) - 1].base
        BY <4>1 DEF Outermost
      <4>5. \A m, n \in Nat : m < n => m <= n /\ m \in Int
        OBVIOUS
      <4> QED
        BY <1>3, <4>3, <4>4, <4>5
    <3>4. \A n \in Nat : n > 0 => n = 1 \/ n = 2 \/ n > 2
      OBVIOUS
    <3> QED
      BY <1>2, <3>1, <3>2, <3>3, <3>4
  <2>2. PICK n : n = Outermost(s, a)
    OBVIOUS
  <2>3. \A k \in 1 .. n : k \in 1 .. s[1].base
    BY <1>3, <2>1, <2>2
  <2>4. \A k \in 1 .. n : a[k] = asm[k]
    BY <2>3
  <2>5. {asm[k] : k \in 1 .. n} = c.assums
    BY <2>1, <2>2 DEF StackRight
  <2> QED
    BY <2>2, <2>4, <2>5
<1> QED
  BY <1>1, <1>6, <1>7 DEF StackRight

------------------------------------------------------------------------------
(* Components, branching literals and units. *)

(* The listed assumptions are the ones count was given. *)
LEMMA SetToSeqFacts ==
  ASSUME NEW A \in SUBSET Lit
  PROVE  SetToSeq(A) \in Seq(Lit) /\ ToSet(SetToSeq(A)) = A
<1>1. PICK n : n = Cardinality(A)
  OBVIOUS
<1>2. IsFiniteSet(A) /\ n \in Nat /\ ExistsBijection(1 .. n, A)
  BY <1>1, LitsFinite, FS_CardinalityType
<1>3. \E g \in [1 .. n -> A] : IsInjective(g)
  BY <1>2 DEF ExistsBijection, Bijection, Injection
<1>4. PICK f : f = SetToSeq(A)
  OBVIOUS
<1>5. f \in [1 .. n -> A] /\ IsInjective(f)
  BY <1>1, <1>3, <1>4 DEF SetToSeq
<1>6. Cardinality(1 .. n) = n
  <2>1. 1 \in Int /\ n \in Int
    BY <1>2
  <2>2. Cardinality(1 .. n) = IF 1 > n THEN 0 ELSE n - 1 + 1
    BY <2>1, FS_Interval
  <2> QED
    BY <1>2, <2>2
<1>7. f \in Injection(1 .. n, A)
  BY <1>5 DEF Injection
<1>8. f \in Surjection(1 .. n, A)
  BY <1>1, <1>2, <1>6, <1>7, FS_Injection
<1>9. \A l \in A : \E k \in 1 .. n : f[k] = l
  BY <1>8 DEF Surjection
<1>10. ToSet(f) = A
  BY <1>5, <1>9 DEF ToSet
<1>11. f \in [1 .. n -> Lit]
  BY <1>5
<1>12. f \in Seq(Lit)
  BY <1>2, <1>11
<1> QED
  BY <1>4, <1>10, <1>12

(* Undef is to have no value in the manager. *)
LEMMA UndefFree ==
  \A l : Undef(l) <=> Free(value, l)
  BY DEF Undef, Free

(* The clauses of a component: not satisfied, with a variable of it. *)
LEMMA ClausesInFacts ==
  ASSUME problem \in Problems, NEW S, NEW c
  PROVE  c \in ClausesIn(S) <=>
           /\ c \in formula
           /\ c \cap value = {}
           /\ \E l \in c : Free(value, l) /\ VarOf(l) \in S
<1>1. c \in formula =>
        (VarsOf(Residual(c)) \cap S # {} <=>
           \E l \in c : Free(value, l) /\ VarOf(l) \in S)
  BY UndefFree DEF VarsOf, Residual
<1> QED
  BY <1>1 DEF ClausesIn, Satisfied

(* No clause left leads out of the variables in clauses left. *)
LEMMA ActiveUncrossed ==
  ASSUME problem \in Problems, Uncrossed(formula, value, setOfVar)
  PROVE  Uncrossed(formula, value, ActiveVars)
<1> SUFFICES ASSUME NEW c \in formula, c \cap value = {},
                    NEW l \in c, Free(value, l), VarOf(l) \in ActiveVars,
                    NEW m \in c, Free(value, m)
             PROVE  VarOf(m) \in ActiveVars
  BY DEF Uncrossed
<1>1. l \in Lit /\ m \in Lit
  BY FormulaType
<1>2. VarOf(l) \in setOfVar
  BY DEF ActiveVars
<1>3. VarOf(m) \in setOfVar
  BY <1>2 DEF Uncrossed
<1>4. Undef(VarOf(m))
  BY <1>1, FreeVar, UndefFree
<1>5. c \in ClausesIn({VarOf(m)})
  BY ClausesInFacts
<1> QED
  BY <1>3, <1>4, <1>5 DEF ActiveVars

(* Nor out of a component, however the variables are split. *)
LEMMA ComponentFacts ==
  ASSUME problem \in Problems, Uncrossed(formula, value, setOfVar),
         NEW comps \in {Components, TrivialComponents}, NEW comp \in comps
  PROVE  /\ comp \subseteq setOfVar /\ comp # {}
         /\ \A u \in comp : Free(value, u)
         /\ Uncrossed(formula, value, comp)
<1>1. Uncrossed(formula, value, ActiveVars)
  BY ActiveUncrossed
<1>2. \A u \in ActiveVars : u \in setOfVar /\ Free(value, u)
  BY UndefFree DEF ActiveVars
<1>3. CASE comps = TrivialComponents
  <2>1. comp = ActiveVars /\ comp # {}
    BY <1>3 DEF TrivialComponents
  <2> QED
    BY <1>1, <1>2, <2>1
<1>4. CASE comps = Components
  <2> DEFINE closed == {s \in SUBSET ActiveVars : ~Crossed(s)}
  <2>1. PICK v \in ActiveVars :
          comp = {w \in ActiveVars : \A s \in closed : v \in s <=> w \in s}
    BY <1>4 DEF Components
  <2>2. ASSUME NEW c \in formula, c \cap value = {},
               NEW l \in c, Free(value, l), VarOf(l) \in comp,
               NEW m \in c, Free(value, m)
        PROVE  VarOf(m) \in comp
    <3>1. VarOf(m) \in ActiveVars
      <4>1. VarOf(l) \in ActiveVars
        BY <2>1, <2>2
      <4> QED
        BY <1>1, <2>2, <4>1 DEF Uncrossed
    <3>2. VarOf(l) \in VarsOf(Residual(c)) /\ VarOf(m) \in VarsOf(Residual(c))
      BY <2>2, UndefFree DEF VarsOf, Residual
    <3>3. ASSUME NEW s \in closed PROVE VarOf(l) \in s <=> VarOf(m) \in s
      <4>1. ~Crossed(s)
        OBVIOUS
      <4>2. VarOf(l) \in s \/ VarOf(m) \in s => c \in ClausesIn(s)
        BY <2>2, ClausesInFacts
      <4>3. c \in ClausesIn(s) => VarsOf(Residual(c)) \subseteq s
        BY <4>1 DEF Crossed
      <4> QED
        BY <3>2, <4>2, <4>3
    <3> HIDE DEF closed
    <3>4. \A s \in closed : v \in s <=> VarOf(l) \in s
      BY <2>1, <2>2
    <3> QED
      BY <2>1, <3>1, <3>3, <3>4
  <2>3. Uncrossed(formula, value, comp)
    BY <2>2 DEF Uncrossed
  <2>4. comp \subseteq ActiveVars /\ v \in comp
    BY <2>1
  <2> QED
    BY <1>2, <2>3, <2>4
<1> QED
  BY <1>3, <1>4

(* The literals of selectLitSet: of the component, and without a value. *)
LEMMA SelectFacts ==
  ASSUME problem \in Problems, NEW comp, comp \subseteq Var,
         \A u \in comp : Free(value, u), Uncrossed(formula, value, comp),
         NEW lits \in SelectLitSet(comp)
  PROVE  /\ lits \in Seq(Lit) /\ Len(lits) > 0
         /\ \A j \in 1 .. Len(lits) : Free(value, lits[j]) /\ VarOf(lits[j]) \in comp
<1>1. CASE lits \in SelectOne(comp)
  <2>1. PICK l \in Lit : lits = << l >> /\ VarOf(l) \in comp
    BY <1>1 DEF SelectOne
  <2>2. Free(value, l)
    BY <2>1, FreeVar
  <2>3. lits \in Seq(Lit) /\ Len(lits) = 1 /\ lits[1] = l
    BY <2>1
  <2>4. \A j \in 1 .. Len(lits) : j = 1
    BY <2>3
  <2> QED
    BY <2>1, <2>2, <2>3, <2>4
<1>2. CASE lits \in SelectLarge(comp)
  <2>1. PICK c \in LargeClauses(comp) : lits \in SetToSeqs(Residual(c))
    BY <1>2 DEF SelectLarge
  <2>2. c \in ClausesIn(comp)
    BY <2>1 DEF LargeClauses
  <2>3. /\ c \in formula /\ c \cap value = {}
        /\ \E l \in c : Free(value, l) /\ VarOf(l) \in comp
    BY <2>2, ClausesInFacts
  <2>4. \A l \in c : Free(value, l) => VarOf(l) \in comp
    BY <2>3 DEF Uncrossed
  <2>5. PICK R : R = Residual(c)
    OBVIOUS
  <2>6. /\ R \subseteq Lit /\ R # {}
        /\ \A l \in R : Free(value, l) /\ VarOf(l) \in comp
    BY <2>3, <2>4, <2>5, FormulaType, UndefFree DEF Residual
  <2>7. PICK n : n = Cardinality(R)
    OBVIOUS
  <2>8. n \in Nat /\ n > 0
    <3>1. IsFiniteSet(R)
      BY <2>6, LitsFinite
    <3>2. n \in Nat /\ n # 0
      BY <2>6, <2>7, <3>1, FS_CardinalityType, FS_EmptySet
    <3> QED
      BY <3>2
  <2>9. lits \in [1 .. n -> R]
    BY <2>1, <2>5, <2>7 DEF SetToSeqs
  <2>10. lits \in [1 .. n -> Lit]
    BY <2>6, <2>9
  <2>11. lits \in Seq(Lit) /\ Len(lits) = n
    BY <2>8, <2>10
  <2>12. \A j \in 1 .. n : lits[j] \in R
    BY <2>9
  <2> QED
    BY <2>6, <2>8, <2>11, <2>12
<1> QED
  BY <1>1, <1>2 DEF SelectLitSet

(* Units have no value yet, and agree with each other and with the values. *)
LEMMA UnitsFacts ==
  ASSUME problem \in Problems, Solve, NEW U \in UnitSets,
         value \subseteq Lit, \A l \in value : -l \notin value
  PROVE  /\ U \subseteq Lit /\ value \cap U = {}
         /\ ToSet(assumption) \subseteq value \cup U
         /\ \A l \in value \cup U : -l \notin value \cup U
<1>1. PICK M \in ModelsUnder(assumption) : TRUE
  BY DEF Solve
<1>2. M \subseteq Lit /\ \A l \in M : -l \notin M
  BY <1>1, ModelFacts DEF ModelsUnder
<1>3. \A l \in U : l \in Lit /\ l \in M /\ Undef(l)
  BY <1>1 DEF UnitSets, Backbone
<1>4. \A l \in U : l \notin value /\ -l \notin value
  BY <1>3 DEF Undef
<1>5. ToSet(assumption) \subseteq value \cup U
  BY DEF UnitSets
<1>6. ASSUME NEW l \in value \cup U, -l \in value \cup U PROVE FALSE
  <2>1. l \in Lit /\ -l \in Lit /\ -(-l) = l
    BY <1>3, LitFacts
  <2>2. CASE l \in U /\ -l \in U
    BY <1>2, <1>3, <2>2
  <2>3. CASE l \in value
    BY <1>4, <1>6, <2>1, <2>3
  <2>4. CASE -l \in value
    BY <1>4, <1>6, <2>1, <2>4
  <2> QED
    BY <1>6, <2>2, <2>3, <2>4
<1> QED
  BY <1>3, <1>4, <1>5, <1>6

(* Variables no clause leads out of, for a call of count. *)
LEMMA ClosedUncrossed ==
  ASSUME problem \in Problems, NEW A \in SUBSET Lit, NEW S, Closed(A, S)
  PROVE  Uncrossed(formula, A, S) /\ \A l \in A : -l \notin A
<1>1. \A l \in A : -l \notin A
  <2>1. PICK M \in ModelsOf[problem] : A \subseteq M
    BY DEF Closed
  <2> QED
    BY <2>1, ModelFacts
<1>2. ASSUME NEW l \in Lit, Free(A, l) PROVE VarOf(l) \notin VarsOf(A)
  <2> SUFFICES ASSUME NEW m \in A, VarOf(l) = VarOf(m) PROVE FALSE
    BY DEF VarsOf
  <2>1. l = m \/ l = -m
    BY LitFacts
  <2>2. -(-m) = m
    BY LitFacts
  <2> QED
    BY <1>2, <2>1, <2>2 DEF Free
<1>3. ASSUME NEW c \in formula, c \cap A = {}
      PROVE  \/ \A l \in c : Free(A, l) => VarOf(l) \in S
             \/ \A l \in c : Free(A, l) => VarOf(l) \notin S
  <2>1. PICK left : left = {l \in c : VarOf(l) \notin VarsOf(A)}
    OBVIOUS
  <2>2. VarsOf(left) \subseteq S \/ VarsOf(left) \cap S = {}
    BY <1>3, <2>1 DEF Closed
  <2>3. \A l \in c : Free(A, l) => VarOf(l) \in VarsOf(left)
    <3>1. \A l \in c : Free(A, l) => l \in left
      BY <1>2, <2>1, FormulaType
    <3> QED
      BY <3>1 DEF VarsOf
  <2> QED
    BY <2>2, <2>3
<1> QED
  BY <1>1, <1>3 DEF Uncrossed

(* A set of natural numbers has a smallest one. *)
LEMMA SmallestOf ==
  ASSUME NEW T \in SUBSET Nat, T # {}
  PROVE  \E x \in T : \A y \in T : x <= y
<1>1. PICK x \in T : \A y \in T : ~(<< y, x >> \in OpToRel(<, Nat))
  BY NatLessThanWellFounded, WFMin
<1>2. \A y \in T : << y, x >> \in OpToRel(<, Nat) <=> y < x
  BY DEF OpToRel
<1>3. \A y \in T : ~(y < x)
  BY <1>1, <1>2
<1> QED
  BY <1>3

(* There is a next component: the one with the smallest variable. *)
LEMMA NextCompFacts ==
  ASSUME stack[1].todo # {},
         \A comp \in stack[1].todo : comp \subseteq Var /\ comp # {}
  PROVE  NextComp \in stack[1].todo
<1>1. Var \subseteq Nat
  BY LitFacts DEF Var
<1>2. PICK T : T = {Min(comp) : comp \in stack[1].todo}
  OBVIOUS
<1>3. ASSUME NEW comp \in stack[1].todo PROVE Min(comp) \in Nat
  <2>1. comp \in SUBSET Nat /\ comp # {}
    BY <1>1
  <2>2. \E x \in comp : \A y \in comp : x <= y
    BY <2>1, SmallestOf
  <2>3. Min(comp) \in comp
    BY <2>2 DEF Min
  <2> QED
    BY <2>1, <2>3
<1>4. T \in SUBSET Nat /\ T # {}
  BY <1>2, <1>3
<1>5. PICK x \in T : \A y \in T : x <= y
  BY <1>4, SmallestOf
<1>6. PICK comp \in stack[1].todo : x = Min(comp)
  BY <1>2
<1>7. \A other \in stack[1].todo : Min(comp) <= Min(other)
  BY <1>2, <1>5, <1>6
<1> QED
  BY <1>7 DEF NextComp

------------------------------------------------------------------------------
(* The steps of the search. *)

(* No call of compute_ or computeDecisionNode is open. *)
LEMMA EmptyStack ==
  ASSUME NEW s, s = << >>, NEW val, NEW asm \in Seq(Lit), NEW open, NEW F, NEW c,
         val = c.assums, ToSet(asm) = c.assums
  PROVE  StackRight(s, val, asm, open, F, c)
<1>1. Len(s) = 0 /\ IsSeq(s)
  BY DEF IsSeq, ToSet
<1>2. \A x : x \notin 1 .. 0
  OBVIOUS
<1>3. Alternate(s) /\ OrFrames(s, val, asm, open, F) /\ AndFrames(s, val, F, c.vars)
      /\ Inner(s)
  BY <1>1, <1>2 DEF Alternate, OrFrames, AndFrames, Inner
<1>4. Level(s, val, Len(s) + 1) = c.assums
  BY <1>1, LevelFacts
<1>5. Outermost(s, asm) = Len(asm) /\ DOMAIN asm = 1 .. Len(asm)
  BY <1>1 DEF Outermost
<1>6. {asm[k] : k \in 1 .. Outermost(s, asm)} = c.assums
  BY <1>5 DEF ToSet
<1> QED
  BY <1>1, <1>3, <1>4, <1>6 DEF StackRight

(* No clause left leads out of the variables compute_ was called with. *)
LEMMA ScopeUncrossed ==
  ASSUME NEW s, NEW val, NEW asm, NEW F, NEW c,
         StackRight(s, val, asm, FALSE, F, c), Len(s) > 0, s[1].kind = "and",
         Uncrossed(F, c.assums, c.vars), c.vars \subseteq Var
  PROVE  /\ Uncrossed(F, val, Scope(s, 1, c.vars))
         /\ Scope(s, 1, c.vars) \subseteq Var
<1>1. Len(s) \in Nat /\ Alternate(s)
  BY DEF StackRight, IsSeq
<1>2. CASE Len(s) = 1
  <2>1. Scope(s, 1, c.vars) = c.vars
    BY <1>2 DEF Scope
  <2>2. c.assums \subseteq val
    <3>1. Level(s, val, Len(s) + 1) = c.assums
      BY DEF StackRight
    <3>2. Level(s, val, Len(s) + 1) \subseteq val
      BY LevelFacts
    <3> QED
      BY <3>1, <3>2
  <2> QED
    BY <2>1, <2>2, UncrossedGrows
<1>3. CASE Len(s) > 1
  <2>1. 1 + 1 = 2 /\ 1 \in 1 .. (Len(s) - 1) /\ 2 \in 1 .. Len(s) /\ 1 < Len(s)
    BY <1>1, <1>3
  <2>2. s[2].kind = "or"
    BY <1>1, <2>1 DEF Alternate
  <2>3. OrRight(F, s[2], Level(s, val, 2), asm)
    BY <2>1, <2>2 DEF StackRight, OrFrames
  <2>4. Uncrossed(F, Level(s, val, 2), s[2].cur) /\ s[2].cur \subseteq Var
    BY <2>3 DEF OrRight
  <2>5. Level(s, val, 2) \subseteq val
    BY LevelFacts
  <2>6. Uncrossed(F, val, s[2].cur)
    BY <2>4, <2>5, UncrossedGrows
  <2>7. Scope(s, 1, c.vars) = s[2].cur
    BY <2>1 DEF Scope
  <2> QED
    BY <2>4, <2>6, <2>7
<1>4. \A n \in Nat : n > 0 => n = 1 \/ n > 1
  OBVIOUS
<1> QED
  BY <1>1, <1>2, <1>3, <1>4

(* The first call of the search. *)
LEMMA InitInv ==
  DpllInit => DpllInv
<1> SUFFICES ASSUME DpllInit PROVE DpllInv
  OBVIOUS
<1> USE DEF DpllInit
<1>1. assumption \in Seq(Lit) /\ ToSet(assumption) = {}
  BY DEF ToSet
<1>2. StackRight(stack, value, assumption, TRUE, formula, call)
  BY <1>1, EmptyStack
<1>3. Uncrossed(formula, {}, Var)
  BY FormulaType, LitFacts DEF Uncrossed
<1>4. setOfVar = Argument
  BY DEF Argument, Scope
<1>5. PcRight
  BY <1>4 DEF PcRight
<1> QED
  BY <1>1, <1>2, <1>3, <1>5 DEF DpllInv

(* A further call. *)
LEMMA CountStep ==
  DpllInv /\ Count => DpllInv'
<1> SUFFICES ASSUME DpllInv, Count PROVE DpllInv'
  OBVIOUS
<1>1. PICK A \in Assumptions, S \in SUBSET Var \ {{}} :
        /\ Closed(A, S)
        /\ assumption' = SetToSeq(A)
        /\ value' = A
        /\ setOfVar' = S
        /\ call' = [nb |-> call.nb + 1, assums |-> A, vars |-> S]
  BY DEF Count
<1>2. /\ pc' = "compute" /\ problem' = problem /\ stack' = << >>
      /\ problem \in Problems /\ formula' = formula
  BY DEF Count, DpllInv, PcRight, formula
<1>3. A \in SUBSET Lit /\ S \subseteq Var
  BY MethodAssumption
<1>4. assumption' \in Seq(Lit) /\ ToSet(assumption') = A
  BY <1>1, <1>3, SetToSeqFacts
<1>5. Uncrossed(formula, A, S) /\ \A l \in A : -l \notin A
  BY <1>1, <1>2, <1>3, ClosedUncrossed
<1>6. StackRight(stack', value', assumption', TRUE, formula', call')
  BY <1>1, <1>2, <1>4, EmptyStack
<1>7. setOfVar' = Argument'
  BY <1>1, <1>2 DEF Argument, Scope
<1>8. PcRight'
  BY <1>2, <1>7 DEF PcRight
<1> QED
  BY <1>1, <1>2, <1>3, <1>4, <1>5, <1>6, <1>8 DEF DpllInv

(* The call of the innermost frame of a stack that is not empty. *)
LEMMA TopOf ==
  ASSUME NEW s, NEW val, NEW asm, NEW open, NEW F, NEW c,
         StackRight(s, val, asm, open, F, c)
  PROVE  /\ IsSeq(s) /\ Len(s) \in Nat /\ (s # << >> <=> Len(s) > 0)
         /\ DOMAIN s = 1 .. Len(s)
         /\ s[1].kind = "or" /\ Len(s) > 0 =>
              /\ OrRight(F, s[1], val, asm)
              /\ open => s[1].i <= Len(s[1].lits) /\ OpenBranch(s[1], asm)
              /\ s[1].i > 0 => OpenBranch(s[1], asm)
              /\ s[1].i = 0 /\ ~open => s[1].base = Len(asm)
         /\ s[1].kind = "and" /\ Len(s) > 0 => AndRight(F, s[1], val, Scope(s, 1, c.vars))
         /\ Len(s) > 0 => IsFrame(s[1])
<1>1. IsSeq(s) /\ Alternate(s)
  BY DEF StackRight
<1>2. s \in Seq(ToSet(s))
  BY <1>1 DEF IsSeq
<1> HIDE DEF ToSet
<1>3. Len(s) \in Nat /\ (s # << >> <=> Len(s) > 0) /\ DOMAIN s = 1 .. Len(s)
  BY <1>2
<1>4. Len(s) > 0 => 1 \in 1 .. Len(s)
  BY <1>3
<1>5. Level(s, val, 1) = val
  BY LevelFacts
<1>6. s[1].kind = "and" /\ Len(s) > 0 => AndRight(F, s[1], val, Scope(s, 1, c.vars))
  BY <1>4, <1>5 DEF StackRight, AndFrames
<1>7. Len(s) > 0 => IsFrame(s[1])
  BY <1>1, <1>4 DEF Alternate
<1>8. ASSUME s[1].kind = "or", Len(s) > 0
      PROVE  /\ OrRight(F, s[1], val, asm)
             /\ open => s[1].i <= Len(s[1].lits) /\ OpenBranch(s[1], asm)
             /\ s[1].i > 0 => OpenBranch(s[1], asm)
             /\ s[1].i = 0 /\ ~open => s[1].base = Len(asm)
  <2>1. /\ OrRight(F, s[1], val, asm)
        /\ 1 > 1 \/ open => s[1].i <= Len(s[1].lits)
        /\ IF s[1].i > 0 \/ 1 > 1 \/ open THEN OpenBranch(s[1], asm)
                                          ELSE s[1].base = Len(asm)
    BY <1>4, <1>5, <1>8 DEF StackRight, OrFrames
  <2> QED
    BY <2>1
<1> QED
  BY <1>1, <1>3, <1>6, <1>7, <1>8

(* compute_ returns to a branch of computeDecisionNode, or from the search. *)
LEMMA ReturnStep ==
  ASSUME DpllInv, NEW d, NEW rest, NEW left,
         StackRight(rest, left, assumption, TRUE, formula, call),
         Len(rest) > 0 => rest[1].kind = "or",
         left \subseteq value, Return(d, rest, left),
         UNCHANGED << problem, setOfVar, assumption, call >>
  PROVE  DpllInv'
<1>1. /\ problem \in Problems /\ formula' = formula /\ assumption \in Seq(Lit)
      /\ value \subseteq Lit /\ \A l \in value : -l \notin value
      /\ setOfVar \subseteq Var /\ call.vars \subseteq Var
      /\ Uncrossed(formula, call.assums, call.vars)
  BY DEF DpllInv, formula
<1>2. /\ Len(rest) \in Nat /\ (rest # << >> <=> Len(rest) > 0) /\ IsSeq(rest)
      /\ Len(rest) > 0 => IsFrame(rest[1])
  BY TopOf
<1>3. CASE rest = << >>
  <2>1. value' = left \ call.assums /\ pc' = "done" /\ stack' = << >>
    BY <1>3 DEF Return
  <2>2. left = call.assums /\ ToSet(assumption) = call.assums
    <3>1. Len(rest) = 0
      BY <1>3
    <3>2. Level(rest, left, Len(rest) + 1) = left
      BY <3>1, LevelFacts
    <3>3. Outermost(rest, assumption) = Len(assumption)
          /\ DOMAIN assumption = 1 .. Len(assumption)
      BY <1>1, <3>1 DEF Outermost
    <3> QED
      BY <3>2, <3>3 DEF StackRight, ToSet
  <2>3. value' = {}
    BY <2>1, <2>2
  <2>4. PcRight'
    BY <2>1, <2>2, <2>3 DEF PcRight
  <2> QED
    BY <1>1, <2>1, <2>3, <2>4 DEF DpllInv
<1>4. CASE rest # << >>
  <2>1. /\ stack' = [rest EXCEPT ![1].acc = @ + d, ![1].i = @ + 1]
        /\ value' = left /\ pc' = "or"
    BY <1>4 DEF Return
  <2>2. Len(rest) > 0 /\ rest[1].kind = "or" /\ IsFrame(rest[1])
    BY <1>2, <1>4
  <2>3. PICK f : f = [rest[1] EXCEPT !.acc = @ + d, !.i = @ + 1]
    OBVIOUS
  <2>4. f = [kind |-> rest[1].kind, units |-> rest[1].units, free |-> rest[1].free,
             todo |-> rest[1].todo, acc |-> rest[1].acc + d, cur |-> rest[1].cur,
             key |-> rest[1].key, lits |-> rest[1].lits, i |-> rest[1].i + 1,
             base |-> rest[1].base]
    BY <2>2, <2>3 DEF IsFrame
  <2>5. Continued(rest, f, stack')
    BY <1>2, <2>1, <2>2, <2>3 DEF Continued, IsSeq
  <2>6. /\ OrRight(formula, rest[1], left, assumption)
        /\ rest[1].i <= Len(rest[1].lits) /\ OpenBranch(rest[1], assumption)
    BY <2>2, TopOf
  <2>7. /\ IsFrame(f) /\ f.kind = "or" /\ f.units = rest[1].units
        /\ f.base = rest[1].base /\ f.cur = rest[1].cur /\ f.lits = rest[1].lits
        /\ f.i = rest[1].i + 1
    BY <2>2, <2>4 DEF IsFrame
  <2>8. f.i \in 0 .. (Len(f.lits) + 1) /\ f.i > 0
    <3>1. rest[1].i \in 0 .. (Len(rest[1].lits) + 1) /\ rest[1].lits \in Seq(Lit)
      BY <2>6 DEF OrRight
    <3>2. PICK n : n = Len(rest[1].lits)
      OBVIOUS
    <3>3. n \in Nat
      BY <3>1, <3>2
    <3> QED
      BY <2>6, <2>7, <3>1, <3>2, <3>3
  <2>9. OrRight(formula, f, left, assumption)
    BY <2>6, <2>7, <2>8 DEF OrRight
  <2>10. OpenBranch(f, assumption)
    BY <2>6, <2>7 DEF OpenBranch
  <2>11. TopRight(f, rest, left, assumption, formula, call.vars)
    BY <2>2, <2>7, <2>8, <2>9, <2>10 DEF TopRight
  <2>12. StackRight(stack', left, assumption, FALSE, formula, call)
    BY <2>2, <2>5, <2>11, ChangeTop
  <2>13. Len(stack') > 0 /\ stack'[1] = f
    BY <1>2, <2>2, <2>5, TopFacts
  <2>14. PcRight'
    BY <2>1, <2>7, <2>13 DEF PcRight
  <2> QED
    BY <1>1, <2>1, <2>12, <2>14 DEF DpllInv
<1> QED
  BY <1>3, <1>4

(* compute_ without a model. *)
LEMMA BottomStep ==
  DpllInv /\ ComputeBottom => DpllInv'
<1> SUFFICES ASSUME DpllInv, ComputeBottom PROVE DpllInv'
  OBVIOUS
<1>1. /\ StackRight(stack, value, assumption, TRUE, formula, call)
      /\ Len(stack) > 0 => stack[1].kind = "or"
  BY DEF DpllInv, PcRight, ComputeBottom
<1>2. Return(0, stack, value) /\ UNCHANGED << problem, setOfVar, assumption, call >>
  BY DEF ComputeBottom
<1> QED
  BY <1>1, <1>2, ReturnStep

(* compute_ with a model assigns the units. *)
LEMMA UnitsStep ==
  DpllInv /\ ComputeUnits => DpllInv'
<1> SUFFICES ASSUME DpllInv, ComputeUnits PROVE DpllInv'
  OBVIOUS
<1>1. /\ problem \in Problems /\ formula' = formula /\ assumption \in Seq(Lit)
      /\ value \subseteq Lit /\ (\A l \in value : -l \notin value)
      /\ setOfVar \subseteq Var /\ call.vars \subseteq Var
      /\ Uncrossed(formula, call.assums, call.vars)
      /\ call' = call /\ assumption' = assumption /\ problem' = problem
      /\ setOfVar' = setOfVar /\ pc' = "split"
  BY DEF DpllInv, formula, ComputeUnits
<1>2. /\ StackRight(stack, value, assumption, TRUE, formula, call)
      /\ Len(stack) > 0 => stack[1].kind = "or"
      /\ setOfVar = Scope(stack, 0, call.vars)
      /\ Solve
  BY DEF DpllInv, PcRight, Argument, ComputeUnits
<1>3. PICK U \in UnitSets : /\ value' = value \cup U
                            /\ stack' = << AndFrame(U) >> \o stack
  BY DEF ComputeUnits
<1>4. /\ U \subseteq Lit /\ value \cap U = {}
      /\ ToSet(assumption) \subseteq value \cup U
      /\ \A l \in value \cup U : -l \notin value \cup U
  BY <1>1, <1>2, UnitsFacts
<1>5. PICK t : t = stack'
  OBVIOUS
<1>6. Entered(stack, AndFrame(U), t)
  BY <1>3, <1>5 DEF Entered
<1>7. StackRight(t, value \cup U, assumption, FALSE, formula, call)
  BY <1>1, <1>2, <1>4, <1>6, PushAnd
<1>8. /\ Len(t) = Len(stack) + 1 /\ Len(stack) \in Nat /\ t[1] = AndFrame(U)
      /\ \A x \in 1 .. Len(stack) : t[x + 1] = stack[x]
  <2>1. IsSeq(stack)
    BY <1>2 DEF StackRight
  <2> QED
    BY <1>6, <2>1, PushFacts
<1>9. Len(t) > 0 /\ t[1].kind = "and"
  BY <1>8 DEF AndFrame
<1>10. setOfVar = Scope(t, 1, call.vars)
  <2>1. 0 + 1 = 1 /\ (0 < Len(stack) <=> 1 < Len(t))
    BY <1>8
  <2>2. 0 < Len(stack) => 1 \in 1 .. Len(stack)
    BY <1>8
  <2>3. 0 < Len(stack) => t[1 + 1] = stack[1]
    BY <1>8, <2>2
  <2> QED
    BY <1>2, <2>1, <2>3 DEF Scope
<1>11. PcRight'
  BY <1>1, <1>3, <1>4, <1>5, <1>9, <1>10 DEF PcRight, Argument
<1> QED
  BY <1>1, <1>3, <1>4, <1>5, <1>7, <1>11 DEF DpllInv

(* A component is known: one less to do. *)
LEMMA KnownFacts ==
  ASSUME NEW s, NEW val, NEW asm, NEW F, NEW c,
         StackRight(s, val, asm, FALSE, F, c), Len(s) > 0, s[1].kind = "and",
         NEW comp, NEW x, NEW t, t = Known(comp, x, s)
  PROVE  /\ StackRight(t, val, asm, FALSE, F, c)
         /\ Len(t) > 0 /\ t[1].kind = "and"
<1>1. /\ IsSeq(s) /\ IsFrame(s[1])
      /\ AndRight(F, s[1], val, Scope(s, 1, c.vars))
  BY TopOf
<1>2. PICK f : f = [s[1] EXCEPT !.todo = @ \ {comp}, !.acc = @ * x]
  OBVIOUS
<1>3. f = [kind |-> s[1].kind, units |-> s[1].units, free |-> s[1].free,
           todo |-> s[1].todo \ {comp}, acc |-> s[1].acc * x, cur |-> s[1].cur,
           key |-> s[1].key, lits |-> s[1].lits, i |-> s[1].i, base |-> s[1].base]
  BY <1>1, <1>2 DEF IsFrame
<1>4. Continued(s, f, t)
  BY <1>1, <1>2 DEF Continued, IsSeq, Known
<1>5. /\ IsFrame(f) /\ f.kind = "and" /\ f.units = s[1].units
      /\ f.base = s[1].base /\ f.cur = s[1].cur /\ f.todo = s[1].todo \ {comp}
  BY <1>3 DEF IsFrame
<1>6. AndRight(F, f, val, Scope(s, 1, c.vars))
  BY <1>1, <1>5 DEF AndRight
<1>7. TopRight(f, s, val, asm, F, c.vars)
  BY <1>5, <1>6 DEF TopRight
<1>8. StackRight(t, val, asm, FALSE, F, c)
  BY <1>4, <1>7, ChangeTop
<1>9. Len(t) = Len(s) /\ t[1] = f
  BY <1>1, <1>4, TopFacts
<1> QED
  BY <1>5, <1>8, <1>9

(* What an action between calls may rely on. *)
LEMMA Unpacked ==
  ASSUME DpllInv
  PROVE  /\ problem \in Problems /\ assumption \in Seq(Lit)
         /\ value \subseteq Lit /\ (\A l \in value : -l \notin value)
         /\ setOfVar \subseteq Var /\ call.vars \subseteq Var
         /\ Uncrossed(formula, call.assums, call.vars)
         /\ pc \in {"split", "and"} =>
              /\ StackRight(stack, value, assumption, FALSE, formula, call)
              /\ Len(stack) > 0 /\ stack[1].kind = "and"
              /\ ToSet(assumption) \subseteq value
         /\ pc = "or" =>
              /\ StackRight(stack, value, assumption, FALSE, formula, call)
              /\ Len(stack) > 0 /\ stack[1].kind = "or"
         /\ pc = "split" => setOfVar = Scope(stack, 1, call.vars)
  BY DEF DpllInv, PcRight, Argument

(* The components of what compute_ was called with. *)
LEMMA ComponentsStep ==
  DpllInv /\ ComputeComponents => DpllInv'
<1> SUFFICES ASSUME DpllInv, ComputeComponents PROVE DpllInv'
  OBVIOUS
<1>1. /\ problem' = problem /\ assumption' = assumption /\ value' = value
      /\ setOfVar' = setOfVar /\ call' = call /\ formula' = formula
      /\ pc' = "and" /\ pc = "split"
  BY DEF ComputeComponents, formula
<1>2. PICK comps \in {Components, TrivialComponents} :
        stack' = [stack EXCEPT ![1].todo = comps, ![1].free = FreeVars]
  BY DEF ComputeComponents
<1>3. /\ StackRight(stack, value, assumption, FALSE, formula, call)
      /\ Len(stack) > 0 /\ stack[1].kind = "and"
      /\ ToSet(assumption) \subseteq value
      /\ setOfVar = Scope(stack, 1, call.vars)
      /\ problem \in Problems
      /\ Uncrossed(formula, call.assums, call.vars) /\ call.vars \subseteq Var
  BY <1>1, Unpacked
<1>4. IsSeq(stack) /\ IsFrame(stack[1])
  BY <1>3, TopOf
<1>5. Uncrossed(formula, value, setOfVar)
  BY <1>3, ScopeUncrossed
<1>6. \A comp \in comps : /\ comp \subseteq setOfVar /\ comp # {}
                          /\ \A u \in comp : Free(value, u)
                          /\ Uncrossed(formula, value, comp)
  BY <1>3, <1>5, ComponentFacts
<1>7. PICK f : f = [stack[1] EXCEPT !.todo = comps, !.free = FreeVars]
  OBVIOUS
<1>8. f = [kind |-> stack[1].kind, units |-> stack[1].units, free |-> FreeVars,
           todo |-> comps, acc |-> stack[1].acc, cur |-> stack[1].cur,
           key |-> stack[1].key, lits |-> stack[1].lits, i |-> stack[1].i,
           base |-> stack[1].base]
  BY <1>4, <1>7 DEF IsFrame
<1>9. /\ IsFrame(f) /\ f.kind = "and" /\ f.units = stack[1].units
      /\ f.base = stack[1].base /\ f.cur = stack[1].cur /\ f.todo = comps
  BY <1>3, <1>8 DEF IsFrame
<1>10. PICK t : t = stack'
  OBVIOUS
<1>11. Continued(stack, f, t)
  BY <1>2, <1>4, <1>7, <1>10 DEF Continued, IsSeq
<1>12. AndRight(formula, f, value, Scope(stack, 1, call.vars))
  BY <1>3, <1>6, <1>9 DEF AndRight
<1>13. TopRight(f, stack, value, assumption, formula, call.vars)
  BY <1>3, <1>9, <1>12 DEF TopRight
<1>14. StackRight(t, value, assumption, FALSE, formula, call)
  BY <1>3, <1>11, <1>13, ChangeTop
<1>15. Len(t) > 0 /\ t[1].kind = "and"
  BY <1>3, <1>4, <1>9, <1>11, TopFacts
<1>16. PcRight'
  BY <1>1, <1>3, <1>10, <1>15 DEF PcRight
<1> QED
  BY <1>1, <1>10, <1>14, <1>16, Unpacked DEF DpllInv

(* The value of a component is known. *)
LEMMA KnownStep ==
  ASSUME DpllInv, pc = "and", NEW comp, NEW x, stack' = Known(comp, x, stack),
         UNCHANGED << pc, problem, setOfVar, assumption, value, call >>
  PROVE  DpllInv'
<1>1. /\ problem' = problem /\ assumption' = assumption /\ value' = value
      /\ setOfVar' = setOfVar /\ call' = call /\ formula' = formula
      /\ pc' = "and"
  BY DEF formula
<1>2. /\ StackRight(stack, value, assumption, FALSE, formula, call)
      /\ Len(stack) > 0 /\ stack[1].kind = "and"
      /\ ToSet(assumption) \subseteq value
  BY Unpacked
<1>3. PICK t : t = stack'
  OBVIOUS
<1>4. t = Known(comp, x, stack)
  BY <1>3
<1>5. /\ StackRight(t, value, assumption, FALSE, formula, call)
      /\ Len(t) > 0 /\ t[1].kind = "and"
  BY <1>2, <1>4, KnownFacts
<1>6. PcRight'
  BY <1>1, <1>2, <1>3, <1>5 DEF PcRight
<1> QED
  BY <1>1, <1>3, <1>5, <1>6, Unpacked DEF DpllInv

(* A component found in the cache, or without anything to decide. *)
LEMMA HitStep ==
  DpllInv /\ (CacheHit \/ DecideNothing) => DpllInv'
<1>1. ASSUME DpllInv, CacheHit PROVE DpllInv'
  BY <1>1, KnownStep DEF CacheHit
<1>2. ASSUME DpllInv, DecideNothing PROVE DpllInv'
  BY <1>2, KnownStep DEF DecideNothing
<1> QED
  BY <1>1, <1>2

(* computeDecisionNode is called. *)
LEMMA DecideStep ==
  DpllInv /\ Decide => DpllInv'
<1> SUFFICES ASSUME DpllInv, Decide PROVE DpllInv'
  OBVIOUS
<1>1. /\ problem' = problem /\ assumption' = assumption /\ value' = value
      /\ setOfVar' = setOfVar /\ call' = call /\ formula' = formula
      /\ pc' = "or" /\ pc = "and" /\ stack[1].todo # {}
  BY DEF Decide, formula
<1>2. PICK lits \in SelectLitSet(NextComp) :
       stack' = << [kind |-> "or", units |-> {}, free |-> {}, todo |-> {},
                    acc |-> 0, cur |-> NextComp, key |-> Key(NextComp),
                    lits |-> lits, i |-> 0, base |-> Len(assumption)] >> \o stack
  BY DEF Decide
<1>3. /\ StackRight(stack, value, assumption, FALSE, formula, call)
      /\ Len(stack) > 0 /\ stack[1].kind = "and"
      /\ ToSet(assumption) \subseteq value
      /\ problem \in Problems /\ assumption \in Seq(Lit)
      /\ Uncrossed(formula, call.assums, call.vars) /\ call.vars \subseteq Var
  BY <1>1, Unpacked
<1>4. IsSeq(stack) /\ AndRight(formula, stack[1], value, Scope(stack, 1, call.vars))
  BY <1>3, TopOf
<1>5. Scope(stack, 1, call.vars) \subseteq Var
  BY <1>3, ScopeUncrossed
<1>6. \A comp \in stack[1].todo : /\ comp \subseteq Var /\ comp # {}
                                  /\ \A u \in comp : Free(value, u)
                                  /\ Uncrossed(formula, value, comp)
  BY <1>4, <1>5 DEF AndRight
<1>7. NextComp \in stack[1].todo
  BY <1>1, <1>6, NextCompFacts
<1>8. PICK comp : comp = NextComp
  OBVIOUS
<1>9. PICK f : f = [kind |-> "or", units |-> {}, free |-> {}, todo |-> {},
                    acc |-> 0, cur |-> NextComp, key |-> Key(NextComp),
                    lits |-> lits, i |-> 0, base |-> Len(assumption)]
  OBVIOUS
<1>10. /\ IsFrame(f) /\ f.kind = "or" /\ f.i = 0 /\ f.base = Len(assumption)
       /\ f.cur = comp /\ f.units = {} /\ f.lits = lits
  BY <1>8, <1>9 DEF IsFrame
<1>11. /\ lits \in Seq(Lit) /\ Len(lits) > 0
       /\ \A j \in 1 .. Len(lits) : Free(value, lits[j]) /\ VarOf(lits[j]) \in comp
  <2>1. lits \in SelectLitSet(comp)
    BY <1>8
  <2> QED
    BY <1>3, <1>6, <1>7, <1>8, <2>1, SelectFacts
<1>12. OrRight(formula, f, value, assumption)
  <2>1. Len(assumption) \in Nat /\ Len(lits) \in Nat
    BY <1>3, <1>11
  <2>2. /\ 0 \in 0 .. (Len(lits) + 1) /\ Len(assumption) \in 0 .. Len(assumption)
        /\ \A k : k \notin (Len(assumption) + 1) .. Len(assumption)
    BY <2>1
  <2>3. \A k \in 1 .. Len(assumption) : assumption[k] \in value
    BY <1>3 DEF ToSet
  <2>4. comp \subseteq Var /\ Uncrossed(formula, value, comp)
    BY <1>6, <1>7, <1>8
  <2> QED
    BY <1>10, <1>11, <2>2, <2>3, <2>4 DEF OrRight
<1>13. PICK t : t = stack'
  OBVIOUS
<1>14. Entered(stack, f, t)
  BY <1>2, <1>9, <1>13 DEF Entered
<1>15. f.cur \in stack[1].todo
  BY <1>7, <1>8, <1>10
<1>16. StackRight(t, value, assumption, FALSE, formula, call)
  BY <1>3, <1>10, <1>12, <1>14, <1>15, PushOr
<1>17. Len(t) > 0 /\ t[1] = f
  <2>1. Len(t) = Len(stack) + 1 /\ Len(stack) \in Nat /\ t[1] = f
    BY <1>4, <1>14, PushFacts
  <2> QED
    BY <2>1
<1>18. PcRight'
  BY <1>1, <1>10, <1>13, <1>17 DEF PcRight
<1> QED
  BY <1>1, <1>13, <1>16, <1>18, Unpacked DEF DpllInv

(* All components are counted: the units are undone and compute_ returns. *)
LEMMA AndReturnStep ==
  DpllInv /\ AndReturn => DpllInv'
<1> SUFFICES ASSUME DpllInv, AndReturn PROVE DpllInv'
  OBVIOUS
<1>1. /\ StackRight(stack, value, assumption, FALSE, formula, call)
      /\ Len(stack) > 0 /\ stack[1].kind = "and"
  BY Unpacked DEF AndReturn
<1>2. PICK rest : rest = Tail(stack)
  OBVIOUS
<1>3. PICK left : left = value \ stack[1].units
  OBVIOUS
<1>4. PICK d : d = stack[1].acc * WeightUnitFree(stack[1].units, stack[1].free)
  OBVIOUS
<1>5. /\ StackRight(rest, left, assumption, TRUE, formula, call)
      /\ Len(rest) > 0 => rest[1].kind = "or"
  <2>1. Returned(stack, rest)
    BY <1>2 DEF Returned
  <2> QED
    BY <1>1, <1>3, <2>1, PopAnd
<1>6. /\ Return(d, rest, left)
      /\ UNCHANGED << problem, setOfVar, assumption, call >>
  BY <1>2, <1>3, <1>4 DEF AndReturn, PostUpdate
<1>7. left \subseteq value
  BY <1>3
<1> QED
  BY <1>5, <1>6, <1>7, ReturnStep

(* The assumptions a go on from those computeDecisionNode found, asm, with *)
(* literals without a value, the first of them of its own.                 *)
GoesOn(f, val, asm, a) ==
  /\ a \in Seq(Lit) /\ Len(a) >= f.base
  /\ \A k \in 1 .. f.base : a[k] = asm[k]
  /\ \A k \in (f.base + 1) .. Len(a) : Free(val, a[k])
  /\ Len(a) > f.base => VarOf(a[f.base + 1]) \in f.cur

(* One more literal of its own. *)
LEMMA AppendOwn ==
  ASSUME NEW f, f.base \in Nat, NEW val, NEW asm, NEW a, GoesOn(f, val, asm, a),
         NEW l \in Lit, Free(val, l), VarOf(l) \in f.cur, NEW b, b = Append(a, l)
  PROVE  GoesOn(f, val, asm, b) /\ Len(b) > f.base
<1>1. a \in Seq(Lit) /\ Len(a) >= f.base
  BY DEF GoesOn
<1>2. /\ b \in Seq(Lit) /\ Len(b) = Len(a) + 1 /\ Len(a) \in Nat
      /\ b[Len(a) + 1] = l
      /\ \A k \in 1 .. Len(a) : b[k] = a[k]
  BY <1>1
<1>3. PICK n \in Nat : n = Len(a)
  BY <1>2
<1>4. PICK m \in Nat : m = f.base
  OBVIOUS
<1>5. n >= m /\ Len(b) = n + 1
  BY <1>1, <1>2, <1>3, <1>4
<1>6. Len(b) > f.base /\ Len(b) >= f.base
  BY <1>4, <1>5
<1>7. \A k \in 1 .. f.base : b[k] = asm[k]
  <2>1. \A k \in 1 .. m : k \in 1 .. n
    BY <1>5
  <2> QED
    BY <1>2, <1>3, <1>4, <2>1 DEF GoesOn
<1>8. \A k \in (f.base + 1) .. Len(b) : Free(val, b[k])
  <2>1. \A k \in (m + 1) .. (n + 1) : k = n + 1 \/ (k \in (m + 1) .. n /\ k \in 1 .. n)
    BY <1>5
  <2> QED
    BY <1>2, <1>3, <1>4, <1>5, <2>1 DEF GoesOn
<1>9. VarOf(b[f.base + 1]) \in f.cur
  <2>1. CASE n = m
    BY <1>2, <1>3, <1>4, <2>1
  <2>2. CASE n # m
    <3>1. n > m /\ m + 1 \in 1 .. n
      BY <1>5, <2>2
    <3> QED
      BY <1>2, <1>3, <1>4, <3>1 DEF GoesOn
  <2> QED
    BY <2>1, <2>2
<1> QED
  BY <1>2, <1>6, <1>7, <1>8, <1>9 DEF GoesOn

(* A branch of computeDecisionNode is entered. *)
LEMMA BranchStep ==
  DpllInv /\ Branch => DpllInv'
<1> SUFFICES ASSUME DpllInv, Branch PROVE DpllInv'
  OBVIOUS
<1>1. /\ problem' = problem /\ value' = value /\ stack' = stack
      /\ setOfVar' = stack[1].cur /\ call' = call /\ formula' = formula
      /\ pc' = "compute" /\ pc = "or"
      /\ stack[1].i <= Len(stack[1].lits)
      /\ assumption' = Pushed(stack[1])
  BY DEF Branch, formula
<1>2. /\ StackRight(stack, value, assumption, FALSE, formula, call)
      /\ Len(stack) > 0 /\ stack[1].kind = "or"
      /\ assumption \in Seq(Lit)
  BY <1>1, Unpacked
<1>3. PICK f : f = stack[1]
  OBVIOUS
<1>4. /\ OrRight(formula, f, value, assumption)
      /\ f.i > 0 => OpenBranch(f, assumption)
      /\ f.i = 0 => f.base = Len(assumption)
  BY <1>2, <1>3, TopOf
<1>5. /\ f.lits \in Seq(Lit) /\ Len(f.lits) > 0 /\ Len(f.lits) \in Nat
      /\ f.i \in Nat /\ f.base \in Nat /\ f.i <= Len(f.lits)
      /\ \A j \in 1 .. Len(f.lits) : Free(value, f.lits[j]) /\ VarOf(f.lits[j]) \in f.cur
      /\ \A j \in 1 .. Len(f.lits) : f.lits[j] \in Lit
  <2>1. /\ f.lits \in Seq(Lit) /\ Len(f.lits) > 0
        /\ f.i \in 0 .. (Len(f.lits) + 1) /\ f.base \in 0 .. Len(assumption)
        /\ \A j \in 1 .. Len(f.lits) : Free(value, f.lits[j]) /\ VarOf(f.lits[j]) \in f.cur
    BY <1>4 DEF OrRight
  <2>2. f.i \in Nat /\ f.base \in Nat
    BY <2>1
  <2>3. \A j \in 1 .. Len(f.lits) : f.lits[j] \in Lit
    BY <2>1
  <2> QED
    BY <1>1, <1>3, <2>1, <2>2, <2>3
<1>6. f.base \in 0 .. Len(assumption)
      /\ \A k \in (f.base + 1) .. Len(assumption) : Free(value, assumption[k])
  BY <1>4 DEF OrRight
<1>7. PICK a : a = Negated(f)
  OBVIOUS
<1>8. f.i = 0 => GoesOn(f, value, assumption, a)
  <2> SUFFICES ASSUME f.i = 0 PROVE GoesOn(f, value, assumption, a)
    OBVIOUS
  <2>1. a = assumption /\ f.base = Len(assumption)
    BY <1>4, <1>7 DEF Negated
  <2>2. Len(a) >= f.base /\ ~(Len(a) > f.base)
    BY <1>5, <2>1
  <2> QED
    BY <1>2, <1>6, <2>1, <2>2 DEF GoesOn
<1>9. f.i > 0 => GoesOn(f, value, assumption, a) /\ Len(a) > f.base
  <2> SUFFICES ASSUME f.i > 0 PROVE GoesOn(f, value, assumption, a) /\ Len(a) > f.base
    OBVIOUS
  <2>1. OpenBranch(f, assumption)
    BY <1>4
  <2>2. PICK n \in Nat : n = Len(assumption)
    BY <1>2
  <2>3. f.base < n /\ VarOf(assumption[f.base + 1]) \in f.cur
    BY <2>1, <2>2 DEF OpenBranch
  <2>4. PICK e : e = Front(assumption)
    OBVIOUS
  <2>5. e \in Seq(Lit) /\ Len(e) = n - 1 /\ \A k \in 1 .. (n - 1) : e[k] = assumption[k]
    BY <1>2, <1>5, <2>2, <2>3, <2>4 DEF Front
  <2>6. GoesOn(f, value, assumption, e)
    <3>1. PICK m \in Nat : m = f.base
      BY <1>5
    <3>2. /\ n - 1 >= m
          /\ \A k \in 1 .. m : k \in 1 .. (n - 1)
          /\ \A k \in (m + 1) .. (n - 1) : k \in 1 .. (n - 1) /\ k \in (m + 1) .. n
          /\ n - 1 > m => m + 1 \in 1 .. (n - 1)
      BY <2>3, <3>1
    <3>3. \A k \in 1 .. f.base : e[k] = assumption[k]
      BY <2>5, <3>1, <3>2
    <3>4. \A k \in (f.base + 1) .. Len(e) : Free(value, e[k])
      BY <1>6, <2>2, <2>5, <3>1, <3>2
    <3>5. Len(e) > f.base => VarOf(e[f.base + 1]) \in f.cur
      BY <2>3, <2>5, <3>1, <3>2
    <3> QED
      BY <2>5, <3>1, <3>2, <3>3, <3>4, <3>5 DEF GoesOn
  <2>7. f.i \in 1 .. Len(f.lits)
    BY <1>5
  <2>8. PICK l \in Lit : l = -f.lits[f.i]
    BY <1>5, <2>7, LitFacts
  <2>9. Free(value, l) /\ VarOf(l) \in f.cur
    <3>1. PICK m \in Lit : m = f.lits[f.i]
      BY <1>5, <2>7
    <3>2. Free(value, m) /\ VarOf(m) \in f.cur /\ l = -m
      BY <1>5, <2>7, <2>8, <3>1
    <3>3. -(-m) = m /\ VarOf(-m) = VarOf(m)
      BY LitFacts
    <3> QED
      BY <3>2, <3>3 DEF Free
  <2>10. a = Append(e, l)
    BY <1>7, <2>4, <2>8 DEF Negated
  <2> QED
    BY <1>5, <2>6, <2>9, <2>10, AppendOwn
<1>10. GoesOn(f, value, assumption, a)
  <2>1. f.i = 0 \/ f.i > 0
    BY <1>5
  <2> QED
    BY <1>8, <1>9, <2>1
<1>11. PICK b : b = assumption'
  OBVIOUS
<1>12. GoesOn(f, value, assumption, b) /\ Len(b) > f.base
  <2>1. CASE f.i < Len(f.lits)
    <3>1. f.i + 1 \in 1 .. Len(f.lits)
      BY <1>5, <2>1
    <3>2. PICK l \in Lit : l = f.lits[f.i + 1]
      BY <1>5, <3>1
    <3>3. Free(value, l) /\ VarOf(l) \in f.cur
      BY <1>5, <3>1, <3>2
    <3>4. b = Append(a, l)
      BY <1>1, <1>3, <1>7, <1>11, <2>1, <3>2 DEF Pushed
    <3> QED
      BY <1>5, <1>10, <3>3, <3>4, AppendOwn
  <2>2. CASE ~(f.i < Len(f.lits))
    <3>1. f.i > 0
      BY <1>5, <2>2
    <3>2. b = a
      BY <1>1, <1>3, <1>7, <1>11, <2>2 DEF Pushed
    <3> QED
      BY <1>9, <3>1, <3>2
  <2> QED
    BY <2>1, <2>2
<1>13. StackRight(stack, value, b, TRUE, formula, call)
  <2>1. /\ b \in Seq(Lit) /\ Len(b) > stack[1].base
        /\ \A k \in 1 .. stack[1].base : b[k] = assumption[k]
        /\ \A k \in (stack[1].base + 1) .. Len(b) : Free(value, b[k])
        /\ VarOf(b[stack[1].base + 1]) \in stack[1].cur
    BY <1>3, <1>12 DEF GoesOn
  <2> QED
    BY <1>1, <1>2, <2>1, NewBranch
<1>14. setOfVar' = Argument'
  BY <1>1, <1>2 DEF Argument, Scope
<1>15. PcRight'
  BY <1>1, <1>2, <1>14 DEF PcRight
<1>16. setOfVar' \subseteq Var /\ assumption' \in Seq(Lit)
  BY <1>1, <1>3, <1>4, <1>11, <1>12 DEF OrRight, GoesOn
<1> QED
  BY <1>1, <1>11, <1>13, <1>15, <1>16, Unpacked DEF DpllInv

(* computeDecisionNode returns, its assumptions popped. *)
LEMMA OrReturnStep ==
  DpllInv /\ OrReturn => DpllInv'
<1> SUFFICES ASSUME DpllInv, OrReturn PROVE DpllInv'
  OBVIOUS
<1>1. /\ problem' = problem /\ value' = value
      /\ setOfVar' = setOfVar /\ call' = call /\ formula' = formula
      /\ pc' = "and" /\ pc = "or"
      /\ assumption' = Unwound(stack[1])
      /\ stack' = Known(stack[1].cur, stack[1].acc, Tail(stack))
  BY DEF OrReturn, formula
<1>2. /\ StackRight(stack, value, assumption, FALSE, formula, call)
      /\ Len(stack) > 0 /\ stack[1].kind = "or"
      /\ assumption \in Seq(Lit)
  BY <1>1, Unpacked
<1>3. PICK t : t = Tail(stack)
  OBVIOUS
<1>4. PICK a : a = assumption'
  OBVIOUS
<1>5. Returned(stack, t) /\ IsPrefixOf(a, assumption, stack[1].base)
  BY <1>1, <1>3, <1>4 DEF Returned, IsPrefixOf, Unwound
<1>6. /\ StackRight(t, value, a, FALSE, formula, call)
      /\ Len(t) > 0 /\ t[1].kind = "and"
      /\ ToSet(a) \subseteq value
      /\ a \in Seq(Lit)
  BY <1>2, <1>5, PopOr
<1>7. PICK w : w = stack'
  OBVIOUS
<1>c. PICK comp : comp = stack[1].cur
  OBVIOUS
<1>d. PICK x : x = stack[1].acc
  OBVIOUS
<1>8. w = Known(comp, x, t)
  BY <1>1, <1>3, <1>7, <1>c, <1>d
<1>9. /\ StackRight(w, value, a, FALSE, formula, call)
      /\ Len(w) > 0 /\ w[1].kind = "and"
  BY <1>6, <1>8, KnownFacts
<1>10. PcRight'
  BY <1>1, <1>4, <1>6, <1>7, <1>9 DEF PcRight
<1> QED
  BY <1>1, <1>4, <1>6, <1>7, <1>9, <1>10, Unpacked DEF DpllInv

------------------------------------------------------------------------------
(* The theorems. *)

(* The invariant says that solver and manager agree. *)
LEMMA InvInStep ==
  DpllInv => InStep
<1> SUFFICES ASSUME DpllInv PROVE InStep
  OBVIOUS
<1>1. pc = "and" => ToSet(assumption) \subseteq value
  BY Unpacked
<1>2. pc = "done" => ToSet(assumption) = call.assums /\ value = {}
  BY DEF DpllInv, PcRight
<1>3. ASSUME pc = "compute", NEW l \in ToSet(assumption) PROVE -l \notin value
  <2>1. /\ StackRight(stack, value, assumption, TRUE, formula, call)
        /\ Len(stack) > 0 => stack[1].kind = "or"
        /\ assumption \in Seq(Lit) /\ \A m \in value : -m \notin value
    BY <1>3 DEF DpllInv, PcRight
  <2>2. Len(stack) \in Nat
    BY <2>1, TopOf
  <2>3. PICK k \in 1 .. Len(assumption) : l = assumption[k]
    BY <1>3, <2>1 DEF ToSet
  <2>4. CASE Len(stack) > 0
    <3>1. OrRight(formula, stack[1], value, assumption)
      BY <2>1, <2>4, TopOf
    <3>2. stack[1].base \in 0 .. Len(assumption)
      BY <3>1 DEF OrRight
    <3>3. k \in 1 .. stack[1].base \/ k \in (stack[1].base + 1) .. Len(assumption)
      BY <3>2
    <3>4. l \in value \/ Free(value, l)
      BY <2>3, <3>1, <3>3 DEF OrRight
    <3> QED
      BY <2>1, <3>4 DEF Free
  <2>5. CASE Len(stack) = 0
    <3>1. Level(stack, value, Len(stack) + 1) = value
      BY <2>5, LevelFacts
    <3>2. Outermost(stack, assumption) = Len(assumption)
      BY <2>5 DEF Outermost
    <3>3. l \in value
      BY <2>1, <2>3, <3>1, <3>2 DEF StackRight
    <3> QED
      BY <2>1, <3>3
  <2> QED
    BY <2>2, <2>4, <2>5
<1>4. \A l \in value : -l \notin value
  BY Unpacked
<1> QED
  BY <1>1, <1>2, <1>3, <1>4 DEF InStep

(* The invariant says that inner decisions are on smaller components. *)
LEMMA InvDescends ==
  DpllInv => Descends
<1> SUFFICES ASSUME DpllInv PROVE Descends
  OBVIOUS
<1>1. CASE pc = "done"
  <2>1. stack = << >>
    BY <1>1 DEF DpllInv, PcRight
  <2>2. DOMAIN stack = {}
    BY <2>1
  <2> QED
    BY <2>2 DEF Descends
<1>2. CASE pc # "done"
  <2>1. StackRight(stack, value, assumption, pc = "compute", formula, call)
    BY <1>2 DEF DpllInv
  <2>2. DOMAIN stack = 1 .. Len(stack) /\ Inner(stack)
    <3>1. IsSeq(stack) /\ Inner(stack)
      BY <2>1 DEF StackRight
    <3> QED
      BY <3>1 DEF IsSeq
  <2> QED
    BY <2>2 DEF Descends, Inner
<1> QED
  BY <1>1, <1>2

(***************************************************************************)
(* Every call that has not returned has its own level of values and        *)
(* assumptions, whatever the solver answers, whatever the cache holds and  *)
(* whichever literals the heuristics choose: the invariant of compute_ and *)
(* computeDecisionNode that the others follow from.                        *)
(***************************************************************************)
THEOREM SearchInvariant ==
  DpllSpec => []DpllInv
<1>1. DpllInit => DpllInv
  BY InitInv
<1>2. DpllInv /\ [DpllNext]_dpllVars => DpllInv'
  <2> SUFFICES ASSUME DpllInv, [DpllNext]_dpllVars PROVE DpllInv'
    OBVIOUS
  <2>1. CASE Count
    BY <2>1, CountStep
  <2>2. CASE ComputeBottom
    BY <2>2, BottomStep
  <2>3. CASE ComputeUnits
    BY <2>3, UnitsStep
  <2>4. CASE ComputeComponents
    BY <2>4, ComponentsStep
  <2>5. CASE CacheHit \/ DecideNothing
    BY <2>5, HitStep
  <2>6. CASE Decide
    BY <2>6, DecideStep
  <2>7. CASE AndReturn
    BY <2>7, AndReturnStep
  <2>8. CASE Branch
    BY <2>8, BranchStep
  <2>9. CASE OrReturn
    BY <2>9, OrReturnStep
  <2>10. CASE Finished \/ UNCHANGED dpllVars
    <3>1. UNCHANGED dpllVars
      BY <2>10 DEF Finished
    <3> QED
      BY <3>1 DEF dpllVars, DpllInv, PcRight, Argument, formula
  <2> QED
    BY <2>1, <2>2, <2>3, <2>4, <2>5, <2>6, <2>7, <2>8, <2>9, <2>10 DEF DpllNext
<1> QED
  BY <1>1, <1>2, PTL DEF DpllSpec

(* Compiling is searching: the nodes built beside it change nothing of it. *)
THEOREM CompilerSearches ==
  DnnfSpec => DpllSpec
<1>1. DnnfInit => DpllInit
  BY DEF DnnfInit
<1>2. [DnnfNext]_dnnfVars => [DpllNext]_dpllVars
  <2> SUFFICES ASSUME [DnnfNext]_dnnfVars PROVE [DpllNext]_dpllVars
    OBVIOUS
  <2>1. CASE UNCHANGED dnnfVars
    BY <2>1 DEF dnnfVars
  <2>2. CASE Query("count") \/ Query("sat") \/ PrintNNF
    BY <2>2 DEF Query, PrintNNF, Traverse
  <2>3. CASE \/ DnnfBottom \/ DnnfFrame \/ DnnfHit \/ DnnfTop
             \/ DnnfAnd \/ DnnfOr \/ DnnfSearch
    BY <2>3 DEF DnnfBottom, DnnfFrame, DnnfHit, DnnfTop, DnnfAnd, DnnfOr, DnnfSearch,
                DpllNext
  <2> QED
    BY <2>1, <2>2, <2>3 DEF DnnfNext
<1> QED
  BY <1>1, <1>2, PTL DEF DnnfSpec, DpllSpec

(***************************************************************************)
(* Solver and formula manager agree at every call of compute_ and while    *)
(* components are counted, and are back where they were when it returns,   *)
(* for all problems, options and sequences of calls of count.              *)
(***************************************************************************)
THEOREM SearchInStep ==
  DnnfSpec => []InStep
  BY SearchInvariant, CompilerSearches, InvInStep, PTL

(***************************************************************************)
(* Inner calls of computeDecisionNode work on strictly fewer variables, so *)
(* that the recursion is never deeper than there are variables.            *)
(***************************************************************************)
THEOREM SearchDescends ==
  DnnfSpec => []Descends
  BY SearchInvariant, CompilerSearches, InvDescends, PTL

=============================================================================
