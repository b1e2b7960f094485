------------------------ MODULE WrapperSolverTrail ------------------------
(***************************************************************************)
(* The trail of the solver as a sequence: what uncheckedEnqueue, a new     *)
(* level and cancelUntil keep true of it, which clauses follow from        *)
(* reasons, and what the two watches of a clause guarantee.  Nothing here  *)
(* is about a state: WrapperSolverProofs puts the variables in.            *)
(***************************************************************************)
EXTENDS WrapperSolver, TLAPS, FiniteSetTheorems, SequenceTheorems, WellFoundedInduction

------------------------------------------------------------------------------
(* The inductive invariant. *)

Entries == [lit : Lit, why : SUBSET Lit, level : Nat]
Clauses == [lits : SUBSET Lit, learnt : BOOLEAN, watched : SUBSET Lit]
Frames == [vars : SUBSET Var, units : SUBSET Lit, sat : BOOLEAN]

LitsOf(t) == {t[x].lit : x \in DOMAIN t}

(* Every model in M has a literal of the clause. *)
Follows(c, M) == \A A \in M : c \cap A # {}

(* No variable is on the trail t twice, and the entries of level k or more   *)
(* are the ones after m[k].                                                  *)
Shape(t, m) ==
  /\ t \in Seq(Entries)
  /\ m \in Seq(Nat)
  /\ \A x, y \in DOMAIN t : x # y => VarOf(t[x].lit) # VarOf(t[y].lit)
  /\ \A j, k \in DOMAIN m : j <= k => m[j] <= m[k]
  /\ \A k \in DOMAIN m : m[k] <= Len(t)
  /\ \A x \in DOMAIN t : t[x].level <= Len(m)
  /\ \A x \in DOMAIN t, k \in DOMAIN m : k <= t[x].level <=> m[k] < x

(* An entry of level 0 is true in every model in M; one without a reason     *)
(* opens its level; and a reason is a clause all models satisfy, of which    *)
(* the other literals became false earlier.                                  *)
Reasoned(t, m, M) ==
  \A x \in DOMAIN t :
    /\ t[x].level = 0 => \A A \in M : t[x].lit \in A
    /\ t[x].why = {} /\ t[x].level > 0 => x = m[t[x].level] + 1
    /\ t[x].why # {} =>
         /\ t[x].lit \in t[x].why
         /\ \A l \in t[x].why \ {t[x].lit} : \E y \in 1 .. (x - 1) : t[y].lit = -l
         /\ Follows(t[x].why, M)

(* The levels up to Len(asm) are those of the assumptions asm. *)
Assumed(t, m, asm) ==
  /\ \A x \in DOMAIN t :
       t[x].why = {} /\ t[x].level \in 1 .. Len(asm) => t[x].lit = asm[t[x].level]
  /\ \A k \in DOMAIN m :
       k <= Len(asm) => \E x \in DOMAIN t : t[x].lit = asm[k] /\ t[x].level <= k

(* A clause watches two literals, and all models satisfy it. *)
Attachable(c, M) ==
  /\ c \in Clauses
  /\ \E a, b \in c.lits : a # b /\ c.watched = {a, b}
  /\ Follows(c.lits, M)

(* A false watch before z that is not about to be looked at has a true       *)
(* literal of its clause, no later than it.                                  *)
Guarded(t, D, z, q, vis) ==
  \A c \in D : \A x \in DOMAIN t :
    x <= z /\ -t[x].lit \in c.watched /\ ~(x = q /\ c \in vis) =>
      \E y \in DOMAIN t : t[y].lit \in c.lits /\ t[y].level <= t[x].level

RootTrue(t, l) == \E x \in DOMAIN t : t[x].lit = l /\ t[x].level = 0

(* A clause of the input is a tautology, true at level 0, or attached        *)
(* without literals that are false there.                                    *)
Covered(c, t, D) ==
  \/ \E l \in c : -l \in c
  \/ \E l \in c : RootTrue(t, l)
  \/ \E d \in D : /\ ~d.learnt
                  /\ d.lits \subseteq c
                  /\ \A l \in c \ d.lits : RootTrue(t, -l)

(* A partial assignment that satisfies each clause or leaves two literals    *)
(* open.                                                                     *)
Fits(S, D) ==
  /\ \A l \in S : -l \notin S
  /\ \A c \in D :
       \/ c.lits \cap S # {}
       \/ \E a, b \in c.lits :
            a # b /\ a \notin S /\ -a \notin S /\ b \notin S /\ -b \notin S

------------------------------------------------------------------------------
(* Literals. *)

LEMMA LitFacts ==
  ASSUME NEW l \in Lit
  PROVE  /\ -l \in Lit /\ l \in Int /\ l # 0 /\ -l # l /\ -(-l) = l
         /\ VarOf(l) \in Var /\ VarOf(-l) = VarOf(l)
         /\ l = VarOf(l) \/ l = -VarOf(l)
  BY SolverAssumption DEF Lit, Var, VarOf

LEMMA SameVar ==
  ASSUME NEW l \in Lit, NEW k \in Lit
  PROVE  VarOf(l) = VarOf(k) <=> l = k \/ l = -k
  BY SolverAssumption DEF Lit, Var, VarOf

LEMMA VarIsLit ==
  ASSUME NEW v \in Var
  PROVE  v \in Lit /\ -v \in Lit /\ VarOf(v) = v /\ VarOf(-v) = v /\ v # -v
  BY SolverAssumption DEF Lit, Var, VarOf

(* Every member of M decides every variable. *)
Total(M) == \A A \in M : A \subseteq Lit /\ \A l \in Lit : l \in A <=> -l \notin A

LEMMA ModelsTotal == Total(Models)
<1>0. \A A \in Models : A \subseteq Lit
  BY DEF Models
<1> SUFFICES ASSUME NEW A \in Models, NEW l \in Lit
             PROVE  l \in A <=> -l \notin A
  BY <1>0 DEF Total
<1>1. /\ A \subseteq Lit
      /\ \A v \in Var : v \in A <=> -v \notin A
  BY DEF Models
<1>2. PICK v \in Var : l = v \/ l = -v
  BY LitFacts
<1>3. -(-v) = v
  BY <1>2, VarIsLit, LitFacts
<1> QED
  BY <1>1, <1>2, <1>3

(* A set of natural numbers has a smallest one, and one with a bound has a   *)
(* largest one.                                                              *)
LEMMA SmallestIn ==
  ASSUME NEW T \in SUBSET Nat, T # {}
  PROVE  \E x \in T : \A y \in T : x <= y
<1>1. PICK x \in T : \A y \in T : ~(<< y, x >> \in OpToRel(<, Nat))
  BY NatLessThanWellFounded, WFMin
<1>2. \A y \in T : << y, x >> \in OpToRel(<, Nat) <=> y < x
  BY DEF OpToRel
<1>3. \A y \in T : ~(y < x)
  BY <1>1, <1>2
<1>4. \A y \in T : y \in Nat /\ x \in Nat
  OBVIOUS
<1> QED
  BY <1>3, <1>4

LEMMA LargestIn ==
  ASSUME NEW T \in SUBSET Nat, T # {}, NEW n \in Nat, \A x \in T : x <= n
  PROVE  \E x \in T : \A y \in T : y <= x
<1> DEFINE B == {b \in Nat : \A x \in T : x <= b}
<1>1. B \in SUBSET Nat /\ n \in B
  OBVIOUS
<1>2. PICK b \in B : \A c \in B : b <= c
  BY <1>1, SmallestIn
<1>3. b \in T
  <2> SUFFICES ASSUME b \notin T PROVE FALSE
    OBVIOUS
  <2>1. \A x \in T : x < b
    BY <1>1
  <2>2. PICK x \in T : TRUE
    OBVIOUS
  <2>3. b - 1 \in Nat
    BY <2>1, <2>2
  <2>4. \A y \in T : y <= b - 1
    BY <2>1
  <2>5. b - 1 \in B
    BY <2>3, <2>4
  <2> QED
    BY <1>2, <2>5
<1> QED
  BY <1>1, <1>3

------------------------------------------------------------------------------
(* The operations on the trail. *)

LEMMA LitsOfAt ==
  ASSUME NEW t, NEW l
  PROVE  l \in LitsOf(t) <=> \E x \in DOMAIN t : t[x].lit = l
  BY DEF LitsOf

LEMMA ShapeFacts ==
  ASSUME NEW t, NEW m, Shape(t, m)
  PROVE  /\ Len(t) \in Nat /\ DOMAIN t = 1 .. Len(t)
         /\ Len(m) \in Nat /\ DOMAIN m = 1 .. Len(m)
         /\ \A x \in DOMAIN t : /\ t[x] \in Entries /\ t[x].lit \in Lit
                                /\ t[x].why \subseteq Lit /\ t[x].level \in Nat
                                /\ -t[x].lit \notin LitsOf(t)
         /\ \A k \in DOMAIN m : m[k] \in Nat
         /\ LitsOf(t) \subseteq Lit
<1>1. t \in Seq(Entries) /\ m \in Seq(Nat)
  BY DEF Shape
<1>2. /\ Len(t) \in Nat /\ DOMAIN t = 1 .. Len(t)
      /\ Len(m) \in Nat /\ DOMAIN m = 1 .. Len(m)
  BY <1>1, LenProperties
<1>3. \A x \in DOMAIN t : t[x] \in Entries
  BY <1>1, <1>2
<1>4. \A x \in DOMAIN t : t[x].lit \in Lit /\ t[x].why \subseteq Lit /\ t[x].level \in Nat
  BY <1>3 DEF Entries
<1>5. \A k \in DOMAIN m : m[k] \in Nat
  BY <1>1, <1>2
<1>6. ASSUME NEW x \in DOMAIN t PROVE -t[x].lit \notin LitsOf(t)
  <2> SUFFICES ASSUME NEW y \in DOMAIN t, t[y].lit = -t[x].lit PROVE FALSE
    BY LitsOfAt
  <2>1. VarOf(t[y].lit) = VarOf(t[x].lit) /\ t[y].lit # t[x].lit
    BY <1>4, LitFacts
  <2>2. x # y
    BY <2>1
  <2> QED
    BY <2>1, <2>2 DEF Shape
<1>7. LitsOf(t) \subseteq Lit
  BY <1>4 DEF LitsOf
<1> QED
  BY <1>2, <1>3, <1>4, <1>5, <1>6, <1>7

(* Two entries for the same variable are one. *)
LEMMA OneEntry ==
  ASSUME NEW t, NEW m, Shape(t, m), NEW x \in DOMAIN t, NEW y \in DOMAIN t,
         VarOf(t[x].lit) = VarOf(t[y].lit)
  PROVE  x = y
  BY DEF Shape

(* The trail u is t and one more entry. *)
Extends(t, u, l, why, level) ==
  /\ Len(u) = Len(t) + 1
  /\ DOMAIN u = DOMAIN t \cup {Len(t) + 1}
  /\ \A x \in DOMAIN t : u[x] = t[x]
  /\ u[Len(t) + 1] = [lit |-> l, why |-> why, level |-> level]
  /\ LitsOf(u) = LitsOf(t) \cup {l}

(* uncheckedEnqueue at the last level. *)
LEMMA EnqueueShape ==
  ASSUME NEW t, NEW m, Shape(t, m), NEW l \in Lit, NEW why \in SUBSET Lit,
         l \notin LitsOf(t), -l \notin LitsOf(t),
         NEW u, u = Enqueue(t, l, why, Len(m))
  PROVE  Shape(u, m) /\ Extends(t, u, l, why, Len(m))
<1> DEFINE e == [lit |-> l, why |-> why, level |-> Len(m)]
<1>1. /\ Len(t) \in Nat /\ DOMAIN t = 1 .. Len(t)
      /\ Len(m) \in Nat /\ DOMAIN m = 1 .. Len(m)
      /\ \A k \in DOMAIN m : m[k] \in Nat
      /\ \A x \in DOMAIN t : t[x] \in Entries /\ t[x].lit \in Lit /\ t[x].level \in Nat
  BY ShapeFacts
<1>2. e \in Entries /\ e.lit = l /\ e.level = Len(m)
  BY <1>1 DEF Entries
<1>3. t \in Seq(Entries) /\ u = Append(t, e)
  BY DEF Shape, Enqueue
<1> HIDE DEF e
<1>4. /\ u \in Seq(Entries)
      /\ Len(u) = Len(t) + 1
      /\ \A x \in 1 .. Len(t) : u[x] = t[x]
      /\ u[Len(t) + 1] = e
  BY <1>2, <1>3, AppendProperties
<1>5. DOMAIN u = 1 .. Len(t) + 1
  BY <1>4, LenProperties
<1>6. LitsOf(u) = LitsOf(t) \cup {l}
  BY <1>1, <1>2, <1>4, <1>5 DEF LitsOf
<1>7. \A x \in DOMAIN t : VarOf(t[x].lit) # VarOf(l)
  BY <1>1, SameVar, LitFacts, LitsOfAt
<1>8. \A x, y \in DOMAIN u : x # y => VarOf(u[x].lit) # VarOf(u[y].lit)
  BY <1>1, <1>2, <1>4, <1>5, <1>7 DEF Shape
<1>9. \A k \in DOMAIN m : m[k] <= Len(u)
  BY <1>1, <1>4 DEF Shape
<1>10. \A x \in DOMAIN u : u[x].level <= Len(m)
  BY <1>1, <1>2, <1>4, <1>5 DEF Shape
<1>11. \A x \in DOMAIN u, k \in DOMAIN m : k <= u[x].level <=> m[k] < x
  BY <1>1, <1>2, <1>4, <1>5 DEF Shape
<1>12. Shape(u, m)
  BY <1>4, <1>8, <1>9, <1>10, <1>11 DEF Shape
<1>13. DOMAIN u = DOMAIN t \cup {Len(t) + 1}
  BY <1>1, <1>5
<1>14. Extends(t, u, l, why, Len(m))
  BY <1>1, <1>4, <1>6, <1>13 DEF e, Extends
<1> QED
  BY <1>12, <1>14

(* The limits p are m and n more levels. *)
Opens(t, m, n, p) ==
  /\ Len(p) = Len(m) + n
  /\ DOMAIN p = 1 .. Len(m) + n
  /\ \A k \in DOMAIN m : p[k] = m[k]
  /\ \A k \in Len(m) + 1 .. Len(m) + n : p[k] = Len(t)

(* newDecisionLevel, any number of times. *)
LEMMA OpenShape ==
  ASSUME NEW t, NEW m, Shape(t, m), NEW n \in Nat,
         NEW p, p = m \o [y \in 1 .. n |-> Len(t)]
  PROVE  Shape(t, p) /\ Opens(t, m, n, p)
<1> DEFINE s == [y \in 1 .. n |-> Len(t)]
<1>1. /\ Len(t) \in Nat /\ DOMAIN t = 1 .. Len(t)
      /\ Len(m) \in Nat /\ DOMAIN m = 1 .. Len(m)
      /\ \A k \in DOMAIN m : m[k] \in Nat
      /\ \A x \in DOMAIN t : t[x].level \in Nat
  BY ShapeFacts
<1>2. s \in Seq(Nat) /\ Len(s) = n /\ \A y \in 1 .. n : s[y] = Len(t)
  BY <1>1
<1>3. m \in Seq(Nat) /\ p = m \o s
  BY DEF Shape
<1> HIDE DEF s
<1>4. /\ p \in Seq(Nat) /\ Len(p) = Len(m) + n
      /\ \A k \in 1 .. Len(m) + n : p[k] = IF k <= Len(m) THEN m[k] ELSE s[k - Len(m)]
  BY <1>2, <1>3, ConcatProperties
<1>5. DOMAIN p = 1 .. Len(m) + n
  BY <1>4, LenProperties
<1>6. \A k \in DOMAIN m : p[k] = m[k]
  BY <1>1, <1>4
<1>7. ASSUME NEW k \in Len(m) + 1 .. Len(m) + n PROVE p[k] = Len(t)
  <2>1. k - Len(m) \in 1 .. n /\ k \in 1 .. Len(m) + n /\ ~(k <= Len(m))
    BY <1>1
  <2> QED
    BY <1>2, <1>4, <2>1
<1>8. \A k \in DOMAIN p : k \in DOMAIN m \/ k \in Len(m) + 1 .. Len(m) + n
  BY <1>1, <1>5
<1>9. \A j, k \in DOMAIN p : j <= k => p[j] <= p[k]
  BY <1>1, <1>6, <1>7, <1>8 DEF Shape
<1>10. \A k \in DOMAIN p : p[k] <= Len(t)
  BY <1>1, <1>6, <1>7, <1>8 DEF Shape
<1>11. \A x \in DOMAIN t : t[x].level <= Len(p)
  BY <1>1, <1>4 DEF Shape
<1>12. \A x \in DOMAIN t, k \in DOMAIN p : k <= t[x].level <=> p[k] < x
  BY <1>1, <1>6, <1>7, <1>8 DEF Shape
<1>13. Shape(t, p)
  BY <1>4, <1>9, <1>10, <1>11, <1>12 DEF Shape
<1>14. Opens(t, m, n, p)
  BY <1>4, <1>5, <1>6, <1>7 DEF Opens
<1> QED
  BY <1>13, <1>14

(* cancelUntil: the entries of the levels up to k stay. *)
KeptT(t, m, k) == IF Len(m) > k THEN SubSeq(t, 1, m[k + 1]) ELSE t
KeptM(m, k) == IF Len(m) > k THEN SubSeq(m, 1, k) ELSE m

(* The trail u with limits p is what stays of t with limits m. *)
Cuts(t, m, k, u, p) ==
  /\ Len(u) <= Len(t)
  /\ Len(m) > k => Len(u) = m[k + 1] /\ Len(p) = k
  /\ Len(m) <= k => u = t /\ p = m
  /\ \A x \in DOMAIN u : x \in DOMAIN t /\ u[x] = t[x]
  /\ \A x \in DOMAIN t : x \in DOMAIN u <=> t[x].level <= k
  /\ \A j \in DOMAIN p : j \in DOMAIN m /\ p[j] = m[j]
  /\ \A j \in DOMAIN m : j <= k => j \in DOMAIN p
  /\ LitsOf(u) \subseteq LitsOf(t)

LEMMA CutShape ==
  ASSUME NEW t, NEW m, Shape(t, m), NEW k \in Nat,
         NEW u, u = KeptT(t, m, k), NEW p, p = KeptM(m, k)
  PROVE  Shape(u, p) /\ Cuts(t, m, k, u, p)
<1>1. /\ Len(t) \in Nat /\ DOMAIN t = 1 .. Len(t)
      /\ Len(m) \in Nat /\ DOMAIN m = 1 .. Len(m)
      /\ \A j \in DOMAIN m : m[j] \in Nat
      /\ \A x \in DOMAIN t : t[x] \in Entries /\ t[x].level \in Nat
  BY ShapeFacts
<1>2. CASE Len(m) <= k
  <2>0. ~(Len(m) > k)
    BY <1>1, <1>2
  <2>1. u = t /\ p = m
    BY <2>0 DEF KeptT, KeptM
  <2>2. \A x \in DOMAIN t : t[x].level <= k
    BY <1>1, <1>2 DEF Shape
  <2> QED
    <3>1. Shape(u, p) /\ LitsOf(u) \subseteq LitsOf(t)
      BY <2>1
    <3>2. \A x \in DOMAIN t : x \in DOMAIN u <=> t[x].level <= k
      BY <2>1, <2>2
    <3>3. \A x \in DOMAIN u : x \in DOMAIN t /\ u[x] = t[x]
      BY <2>1
    <3>4. /\ \A j \in DOMAIN p : j \in DOMAIN m /\ p[j] = m[j]
          /\ \A j \in DOMAIN m : j <= k => j \in DOMAIN p
      BY <2>1
    <3>5. Len(u) <= Len(t)
      BY <1>1, <2>1
    <3> QED
      BY <2>0, <2>1, <3>1, <3>2, <3>3, <3>4, <3>5 DEF Cuts
<1>3. CASE Len(m) > k
  <2>1. k + 1 \in DOMAIN m
    BY <1>1, <1>3
  <2>2. m[k + 1] \in 0 .. Len(t)
    BY <1>1, <2>1 DEF Shape
  <2>3. u = SubSeq(t, 1, m[k + 1]) /\ p = SubSeq(m, 1, k)
    BY <1>3 DEF KeptT, KeptM
  <2>4. /\ u \in Seq(Entries) /\ Len(u) = m[k + 1]
        /\ \A x \in 1 .. m[k + 1] : u[x] = t[x]
    BY <1>1, <2>2, <2>3, SubSeqProperties
  <2>5. /\ p \in Seq(Nat) /\ Len(p) = k
        /\ \A j \in 1 .. k : p[j] = m[j]
    BY <1>1, <1>3, <2>3, SubSeqProperties
  <2>6. DOMAIN u = 1 .. m[k + 1] /\ DOMAIN p = 1 .. k
    BY <2>4, <2>5, LenProperties
  <2>7. \A x \in DOMAIN u : x \in DOMAIN t /\ u[x] = t[x]
    BY <1>1, <2>2, <2>4, <2>6
  <2>8. ASSUME NEW x \in DOMAIN t PROVE x \in DOMAIN u <=> t[x].level <= k
    <3>1. k + 1 <= t[x].level <=> m[k + 1] < x
      BY <2>1 DEF Shape
    <3> QED
      BY <1>1, <2>2, <2>6, <3>1
  <2>9. \A j \in DOMAIN p : j \in DOMAIN m /\ p[j] = m[j]
    BY <1>1, <1>3, <2>5, <2>6
  <2>10. \A j \in DOMAIN p : p[j] <= Len(u)
    BY <1>1, <2>1, <2>4, <2>5, <2>6, <2>9 DEF Shape
  <2>11. Shape(u, p)
    BY <2>4, <2>5, <2>7, <2>8, <2>9, <2>10 DEF Shape
  <2>12. LitsOf(u) \subseteq LitsOf(t)
    BY <2>7 DEF LitsOf
  <2>13. \A j \in DOMAIN m : j <= k => j \in DOMAIN p
    BY <1>1, <2>6
  <2>14. Len(u) <= Len(t) /\ ~(Len(m) <= k)
    BY <1>1, <1>3, <2>2, <2>4
  <2> QED
    BY <2>4, <2>5, <2>7, <2>8, <2>9, <2>11, <2>12, <2>13, <2>14 DEF Cuts
<1> QED
  BY <1>1, <1>2, <1>3

------------------------------------------------------------------------------
(* Reasons and assumptions under the operations. *)

(* Why the literal l may be put on the trail t. *)
Justified(t, m, M, l, why) ==
  /\ Len(m) = 0 => \A A \in M : l \in A
  /\ why = {} /\ Len(m) > 0 => m[Len(m)] = Len(t)
  /\ why # {} => /\ l \in why
                 /\ \A k \in why \ {l} : -k \in LitsOf(t)
                 /\ Follows(why, M)

LEMMA EnqueueReasoned ==
  ASSUME NEW t, NEW m, NEW M, Shape(t, m), Reasoned(t, m, M),
         NEW l \in Lit, NEW why \in SUBSET Lit,
         l \notin LitsOf(t), -l \notin LitsOf(t),
         NEW u, u = Enqueue(t, l, why, Len(m)), Justified(t, m, M, l, why)
  PROVE  Reasoned(u, m, M)
<1>1. /\ Len(t) \in Nat /\ DOMAIN t = 1 .. Len(t)
      /\ Len(m) \in Nat
      /\ \A x \in DOMAIN t : t[x].level \in Nat
  BY ShapeFacts
<1>2a. Extends(t, u, l, why, Len(m))
  BY EnqueueShape
<1>2. /\ \A x \in DOMAIN t : u[x] = t[x]
      /\ u[Len(t) + 1] = [lit |-> l, why |-> why, level |-> Len(m)]
      /\ DOMAIN u = DOMAIN t \cup {Len(t) + 1}
  BY <1>2a DEF Extends
<1>3. ASSUME NEW x \in DOMAIN t PROVE \A y \in 1 .. (x - 1) : u[y] = t[y]
  BY <1>1, <1>2
<1>4. \A x \in DOMAIN t :
        /\ u[x].level = 0 => \A A \in M : u[x].lit \in A
        /\ u[x].why = {} /\ u[x].level > 0 => x = m[u[x].level] + 1
        /\ u[x].why # {} =>
             /\ u[x].lit \in u[x].why
             /\ \A k \in u[x].why \ {u[x].lit} : \E y \in 1 .. (x - 1) : u[y].lit = -k
             /\ Follows(u[x].why, M)
  BY <1>2, <1>3 DEF Reasoned
<1> DEFINE n == Len(t) + 1
<1>5. u[n].lit = l /\ u[n].why = why /\ u[n].level = Len(m)
  BY <1>2
<1>6. \A k \in why \ {l} : -k \in LitsOf(t) => \E y \in 1 .. (n - 1) : u[y].lit = -k
  BY <1>1, <1>2, LitsOfAt
<1>7. /\ u[n].level = 0 => \A A \in M : u[n].lit \in A
      /\ u[n].why = {} /\ u[n].level > 0 => n = m[u[n].level] + 1
      /\ u[n].why # {} =>
           /\ u[n].lit \in u[n].why
           /\ \A k \in u[n].why \ {u[n].lit} : \E y \in 1 .. (n - 1) : u[y].lit = -k
           /\ Follows(u[n].why, M)
  BY <1>5, <1>6 DEF Justified
<1> HIDE DEF n
<1> QED
  BY <1>2, <1>4, <1>7 DEF Reasoned, n

LEMMA OpenReasoned ==
  ASSUME NEW t, NEW m, NEW M, Shape(t, m), Reasoned(t, m, M), NEW n \in Nat,
         NEW p, p = m \o [y \in 1 .. n |-> Len(t)]
  PROVE  Reasoned(t, p, M)
<1>1. /\ Len(m) \in Nat /\ DOMAIN m = 1 .. Len(m)
      /\ \A x \in DOMAIN t : t[x].level \in Nat
  BY ShapeFacts
<1>2. \A k \in DOMAIN m : p[k] = m[k]
  BY OpenShape DEF Opens
<1>3. \A x \in DOMAIN t : t[x].level > 0 => p[t[x].level] = m[t[x].level]
  BY <1>1, <1>2 DEF Shape
<1> QED
  BY <1>3 DEF Reasoned

LEMMA CutReasoned ==
  ASSUME NEW t, NEW m, NEW M, Shape(t, m), Reasoned(t, m, M), NEW k \in Nat,
         NEW u, u = KeptT(t, m, k), NEW p, p = KeptM(m, k)
  PROVE  Reasoned(u, p, M)
<1>0. Shape(u, p) /\ Cuts(t, m, k, u, p)
  BY CutShape
<1>1. /\ \A x \in DOMAIN u : x \in DOMAIN t /\ u[x] = t[x]
      /\ \A j \in DOMAIN p : j \in DOMAIN m /\ p[j] = m[j]
  BY <1>0 DEF Cuts
<1>2. /\ Len(u) \in Nat /\ DOMAIN u = 1 .. Len(u)
      /\ Len(p) \in Nat /\ DOMAIN p = 1 .. Len(p)
      /\ \A x \in DOMAIN u : u[x].level \in Nat /\ u[x].level <= Len(p)
  BY <1>0, ShapeFacts DEF Shape
<1>3. \A x \in DOMAIN u : u[x].level > 0 => p[u[x].level] = m[u[x].level]
  BY <1>1, <1>2
<1>4. \A x \in DOMAIN u : \A y \in 1 .. (x - 1) : u[y] = t[y]
  BY <1>1, <1>2
<1> QED
  BY <1>1, <1>3, <1>4 DEF Reasoned

(* A literal with a reason, or one at a level above the assumptions. *)
LEMMA EnqueueAssumed ==
  ASSUME NEW t, NEW m, NEW asm, Shape(t, m), asm \in Seq(Lit), Assumed(t, m, asm),
         NEW l \in Lit, NEW why \in SUBSET Lit,
         l \notin LitsOf(t), -l \notin LitsOf(t),
         NEW u, u = Enqueue(t, l, why, Len(m)),
         why = {} /\ Len(m) \in 1 .. Len(asm) => l = asm[Len(m)]
  PROVE  Assumed(u, m, asm)
<1>0. Extends(t, u, l, why, Len(m))
  BY EnqueueShape
<1>1. /\ \A x \in DOMAIN t : x \in DOMAIN u /\ u[x] = t[x]
      /\ u[Len(t) + 1].lit = l /\ u[Len(t) + 1].why = why
      /\ u[Len(t) + 1].level = Len(m)
      /\ DOMAIN u = DOMAIN t \cup {Len(t) + 1}
  BY <1>0 DEF Extends
<1>2. \A x \in DOMAIN u :
        u[x].why = {} /\ u[x].level \in 1 .. Len(asm) => u[x].lit = asm[u[x].level]
  BY <1>1 DEF Assumed
<1>3. \A k \in DOMAIN m :
        k <= Len(asm) => \E x \in DOMAIN u : u[x].lit = asm[k] /\ u[x].level <= k
  BY <1>1 DEF Assumed
<1> QED
  BY <1>2, <1>3 DEF Assumed

LEMMA OpenAssumed ==
  ASSUME NEW t, NEW m, NEW asm, Shape(t, m), asm \in Seq(Lit), Assumed(t, m, asm),
         NEW n \in Nat, NEW p, p = m \o [y \in 1 .. n |-> Len(t)],
         \A k \in Len(m) + 1 .. Len(m) + n : k <= Len(asm) => asm[k] \in LitsOf(t)
  PROVE  Assumed(t, p, asm)
<1>1. /\ Len(m) \in Nat /\ DOMAIN m = 1 .. Len(m)
      /\ \A x \in DOMAIN t : t[x].level \in Nat /\ t[x].level <= Len(m)
  BY ShapeFacts DEF Shape
<1>2. Shape(t, p) /\ Opens(t, m, n, p)
  BY OpenShape
<1>3. DOMAIN p = 1 .. Len(m) + n
  BY <1>2 DEF Opens
<1>4. ASSUME NEW k \in DOMAIN p, k <= Len(asm)
      PROVE  \E x \in DOMAIN t : t[x].lit = asm[k] /\ t[x].level <= k
  <2>1. CASE k \in DOMAIN m
    BY <1>4, <2>1 DEF Assumed
  <2>2. CASE k \in Len(m) + 1 .. Len(m) + n
    <3>1. PICK x \in DOMAIN t : t[x].lit = asm[k]
      BY <1>4, <2>2, LitsOfAt
    <3> QED
      BY <1>1, <2>2, <3>1
  <2> QED
    BY <1>1, <1>3, <2>1, <2>2
<1> QED
  BY <1>4 DEF Assumed

(* newDecisionLevel any number of times, and once more for a literal.        *)
(* The literal that opens level k is the assumption of that level, if any. *)
Opener(asm, k, l) == k <= Len(asm) => l = asm[k]

Standing(t, m, M, asm) == Shape(t, m) /\ Reasoned(t, m, M) /\ Assumed(t, m, asm)

(* The level k on top of t, opened by l. *)
NewTop(t, u, p, l, k) == Len(p) = k /\ p[Len(p)] = Len(t) /\ Extends(t, u, l, {}, k)

LEMMA DecideRight ==
  ASSUME NEW t, NEW q, NEW M, NEW asm, asm \in Seq(Lit), Standing(t, q, M, asm),
         NEW l \in Lit, l \notin LitsOf(t), -l \notin LitsOf(t),
         NEW k \in Nat, Len(q) < k, k <= Len(q) + 1, Opener(asm, k, l)
  PROVE  /\ Standing(Enqueue(t, l, {}, k), Append(q, Len(t)), M, asm)
         /\ NewTop(t, Enqueue(t, l, {}, k), Append(q, Len(t)), l, k)
<1> USE DEF Standing, NewTop
<1> DEFINE u == Enqueue(t, l, {}, k)
           p == Append(q, Len(t))
<1> USE DEF Opener
<1>0. k = Len(q) + 1
  BY LenProperties DEF Shape
<1>1. /\ Len(t) \in Nat /\ DOMAIN t = 1 .. Len(t)
      /\ Len(q) \in Nat /\ DOMAIN q = 1 .. Len(q)
      /\ \A x \in DOMAIN t : t[x].level \in Nat /\ t[x].level <= Len(q)
  BY ShapeFacts DEF Shape
<1>4. q \in Seq(Nat)
  BY DEF Shape
<1>5. p = q \o [y \in 1 .. 1 |-> Len(t)]
  <2>1. p = q \o << Len(t) >>
    BY <1>1, <1>4, AppendIsConcat
  <2>2. << Len(t) >> = [y \in 1 .. 1 |-> Len(t)]
    OBVIOUS
  <2> QED
    BY <2>1, <2>2
<1> HIDE DEF p
<1>6a. Shape(t, p) /\ Opens(t, q, 1, p)
  BY <1>5, OpenShape
<1>6. Len(p) = Len(q) + 1 /\ Len(p) = k
  BY <1>0, <1>1, <1>6a DEF Opens
<1>7. p[Len(p)] = Len(t)
  BY <1>1, <1>6, <1>6a DEF Opens
<1>8. Reasoned(t, p, M)
  BY <1>5, OpenReasoned
<1>9. u = Enqueue(t, l, {}, Len(p))
  BY <1>6
<1> HIDE DEF u
<1>10a. Shape(u, p) /\ Extends(t, u, l, {}, Len(p))
  BY <1>6a, <1>9, EnqueueShape
<1>10. /\ \A x \in DOMAIN t : x \in DOMAIN u /\ u[x] = t[x]
       /\ u[Len(t) + 1].lit = l /\ u[Len(t) + 1].why = {}
       /\ u[Len(t) + 1].level = Len(p)
       /\ DOMAIN u = DOMAIN t \cup {Len(t) + 1}
  BY <1>10a DEF Extends
<1>11. Reasoned(u, p, M)
  <2>1. ~(Len(p) = 0)
    BY <1>1, <1>6
  <2>2. Justified(t, p, M, l, {})
    BY <1>7, <2>1 DEF Justified
  <2> QED
    BY <1>6a, <1>8, <1>9, <2>2, EnqueueReasoned
<1>12. ASSUME NEW x \in DOMAIN u, u[x].why = {}, u[x].level \in 1 .. Len(asm)
       PROVE  u[x].lit = asm[u[x].level]
  <2>1. CASE x \in DOMAIN t
    BY <1>10, <1>12, <2>1 DEF Assumed
  <2>2. CASE x = Len(t) + 1
    <3>1. u[x].level = Len(p) /\ u[x].lit = l
      BY <1>10, <2>2
    <3>2. Len(q) + 1 <= Len(asm)
      BY <1>1, <1>6, <1>12, <3>1, LenProperties
    <3> QED
      BY <1>6, <3>1, <3>2
  <2> QED
    BY <1>10, <2>1, <2>2
<1>13. ASSUME NEW j \in DOMAIN p, j <= Len(asm)
       PROVE  \E x \in DOMAIN u : u[x].lit = asm[j] /\ u[x].level <= j
  <2>1. DOMAIN p = 1 .. Len(q) + 1 /\ DOMAIN q = 1 .. Len(q)
    BY <1>6, <1>6a, ShapeFacts
  <2>2. CASE j \in DOMAIN q
    BY <1>10, <1>13, <2>2 DEF Assumed
  <2>3. CASE j = Len(q) + 1
    <3>1. l = asm[j]
      BY <1>13, <2>3
    <3>2. /\ Len(t) + 1 \in DOMAIN u /\ u[Len(t) + 1].lit = asm[j]
          /\ u[Len(t) + 1].level <= j
      BY <1>1, <1>6, <1>10, <2>3, <3>1
    <3> QED
      BY <3>2
  <2>4. j \in 1 .. Len(q) + 1
    BY <2>1
  <2>5. j \in 1 .. Len(q) \/ j = Len(q) + 1
    BY <1>1, <2>4
  <2> QED
    BY <2>1, <2>2, <2>3, <2>5
<1>14. Assumed(u, p, asm)
  BY <1>12, <1>13 DEF Assumed
<1> QED
  BY <1>6, <1>7, <1>10a, <1>11, <1>14 DEF u, p

LEMMA CutAssumed ==
  ASSUME NEW t, NEW m, NEW asm, Shape(t, m), Assumed(t, m, asm), NEW k \in Nat,
         NEW u, u = KeptT(t, m, k), NEW p, p = KeptM(m, k)
  PROVE  Assumed(u, p, asm)
<1>0. Shape(u, p) /\ Cuts(t, m, k, u, p)
  BY CutShape
<1>1. /\ \A x \in DOMAIN u : x \in DOMAIN t /\ u[x] = t[x]
      /\ \A x \in DOMAIN t : x \in DOMAIN u <=> t[x].level <= k
      /\ \A j \in DOMAIN p : j \in DOMAIN m /\ p[j] = m[j]
      /\ Len(m) > k => Len(p) = k
      /\ Len(m) <= k => u = t /\ p = m
  BY <1>0 DEF Cuts
<1>2. /\ Len(m) \in Nat /\ DOMAIN m = 1 .. Len(m)
      /\ Len(p) \in Nat /\ DOMAIN p = 1 .. Len(p)
      /\ \A x \in DOMAIN t : t[x].level \in Nat
  BY <1>0, ShapeFacts
<1>3. \A x \in DOMAIN u :
        u[x].why = {} /\ u[x].level \in 1 .. Len(asm) => u[x].lit = asm[u[x].level]
  BY <1>1 DEF Assumed
<1>4. ASSUME NEW j \in DOMAIN p, j <= Len(asm)
      PROVE  \E x \in DOMAIN u : u[x].lit = asm[j] /\ u[x].level <= j
  <2>1. PICK x \in DOMAIN t : t[x].lit = asm[j] /\ t[x].level <= j
    BY <1>1, <1>4 DEF Assumed
  <2>2. CASE Len(m) > k
    <3>1. t[x].level <= k
      BY <1>1, <1>2, <2>1, <2>2
    <3> QED
      BY <1>1, <2>1, <3>1
  <2>3. CASE Len(m) <= k
    BY <1>1, <2>1, <2>3
  <2> QED
    BY <1>2, <2>2, <2>3
<1> QED
  BY <1>3, <1>4 DEF Assumed

(* Fewer assumptions, or one more for which there is no level yet. *)
(* The sequence bs is the first n of asm. *)
Prefix(bs, asm, n) ==
  /\ bs \in Seq(Lit) /\ n \in Nat /\ Len(bs) = n
  /\ \A i \in 1 .. n : i \in 1 .. Len(asm) /\ bs[i] = asm[i]

LEMMA PrefixOf ==
  ASSUME NEW asm \in Seq(Lit), NEW n \in 0 .. Len(asm)
  PROVE  Prefix(SubSeq(asm, 1, n), asm, n)
<1>1. \A i \in 1 .. Len(asm) : asm[i] \in Lit
  BY ElementOfSeq
<1>2. Len(asm) \in Nat
  BY LenProperties
<1>3. n \in Nat /\ \A i \in 1 .. n : i \in 1 .. Len(asm) /\ asm[i] \in Lit
  BY <1>1, <1>2
<1>4. /\ SubSeq(asm, 1, n) \in Seq(Lit) /\ Len(SubSeq(asm, 1, n)) = n
      /\ \A i \in 1 .. n : SubSeq(asm, 1, n)[i] = asm[i]
  BY <1>3, SubSeqProperties
<1> QED
  BY <1>3, <1>4 DEF Prefix

LEMMA FewerAssumed ==
  ASSUME NEW t, NEW m, NEW asm, asm \in Seq(Lit), Assumed(t, m, asm), Shape(t, m),
         NEW n, NEW bs, Prefix(bs, asm, n)
  PROVE  Assumed(t, m, bs)
<1>1. Len(asm) \in Nat
  BY LenProperties
<1>2. /\ bs \in Seq(Lit) /\ Len(bs) = n /\ n \in Nat
      /\ \A i \in 1 .. n : i \in 1 .. Len(asm) /\ bs[i] = asm[i]
  BY DEF Prefix
<1>3. \A x \in DOMAIN t :
        t[x].why = {} /\ t[x].level \in 1 .. n => t[x].lit = bs[t[x].level]
  BY <1>2 DEF Assumed
<1>4. ASSUME NEW k \in DOMAIN m, k <= n, k \in 1 .. n
      PROVE  \E x \in DOMAIN t : t[x].lit = bs[k] /\ t[x].level <= k
  BY <1>1, <1>2, <1>4 DEF Assumed
<1>5. \A k \in DOMAIN m : k <= n => k \in 1 .. n
  BY <1>2, ShapeFacts
<1> QED
  BY <1>2, <1>3, <1>4, <1>5 DEF Assumed

LEMMA MoreAssumed ==
  ASSUME NEW t, NEW m, NEW asm, asm \in Seq(Lit), Assumed(t, m, asm), Shape(t, m),
         Len(m) <= Len(asm), NEW l \in Lit, NEW bs, bs = Append(asm, l)
  PROVE  Assumed(t, m, bs) /\ bs \in Seq(Lit) /\ Len(bs) = Len(asm) + 1
<1>1. /\ bs \in Seq(Lit) /\ Len(bs) = Len(asm) + 1
      /\ \A i \in 1 .. Len(asm) : bs[i] = asm[i]
  BY AppendProperties
<1>2. /\ Len(asm) \in Nat /\ Len(m) \in Nat /\ DOMAIN m = 1 .. Len(m)
      /\ \A x \in DOMAIN t : t[x].level \in Nat /\ t[x].level <= Len(m)
  BY ShapeFacts, LenProperties DEF Shape
<1> QED
  BY <1>1, <1>2 DEF Assumed

------------------------------------------------------------------------------
(* What follows from a trail. *)

(* A model with the literals that have no reason has the whole trail: there  *)
(* is no first entry that it lacks.                                          *)
LEMMA TrailFollows ==
  ASSUME NEW t, NEW m, NEW M, Shape(t, m), Reasoned(t, m, M), Total(M),
         NEW A \in M,
         \A x \in DOMAIN t : t[x].why = {} /\ t[x].level > 0 => t[x].lit \in A
  PROVE  LitsOf(t) \subseteq A
<1> DEFINE T == {x \in DOMAIN t : t[x].lit \notin A}
<1> SUFFICES ASSUME T # {} PROVE FALSE
  BY DEF LitsOf
<1>1. /\ Len(t) \in Nat /\ DOMAIN t = 1 .. Len(t)
      /\ \A x \in DOMAIN t : /\ t[x].lit \in Lit /\ t[x].why \subseteq Lit
                             /\ t[x].level \in Nat
  BY ShapeFacts
<1>2. T \in SUBSET Nat
  BY <1>1
<1>3. PICK x \in T : \A y \in T : x <= y
  BY <1>2, SmallestIn
<1>4. x \in DOMAIN t /\ t[x].lit \notin A
  OBVIOUS
<1>5. \A y \in 1 .. (x - 1) : t[y].lit \in A
  BY <1>1, <1>3, <1>4
<1>6. t[x].level > 0 /\ t[x].why # {}
  BY <1>1, <1>4 DEF Reasoned
<1>7. /\ \A l \in t[x].why \ {t[x].lit} : \E y \in 1 .. (x - 1) : t[y].lit = -l
      /\ Follows(t[x].why, M)
  BY <1>4, <1>6 DEF Reasoned
<1>8. PICK l \in t[x].why : l \in A
  BY <1>7 DEF Follows
<1>9. l # t[x].lit
  BY <1>4, <1>8
<1>10. -l \in A
  BY <1>5, <1>7, <1>9
<1> QED
  BY <1>1, <1>4, <1>8, <1>10 DEF Total

(* Below the free decisions the trail follows from the assumptions. *)
LEMMA AssumptionsImply ==
  ASSUME NEW t, NEW m, NEW M, NEW asm, Shape(t, m), Reasoned(t, m, M), Total(M),
         Assumed(t, m, asm), asm \in Seq(Lit), Len(m) <= Len(asm),
         NEW A \in M, ToSet(asm) \subseteq A
  PROVE  LitsOf(t) \subseteq A
<1>1. /\ Len(m) \in Nat /\ Len(asm) \in Nat /\ DOMAIN asm = 1 .. Len(asm)
      /\ \A x \in DOMAIN t : t[x].level \in Nat /\ t[x].level <= Len(m)
  BY ShapeFacts, LenProperties DEF Shape
<1>2. \A k \in 1 .. Len(asm) : asm[k] \in A
  BY <1>1 DEF ToSet
<1>3. ASSUME NEW x \in DOMAIN t, t[x].why = {}, t[x].level > 0
      PROVE  t[x].lit \in A
  <2>1. t[x].level \in 1 .. Len(asm)
    BY <1>1, <1>3
  <2> QED
    BY <1>2, <1>3, <2>1 DEF Assumed
<1> QED
  BY <1>3, TrailFollows

(* A clause false on it refutes them. *)
LEMMA FalseRefutes ==
  ASSUME NEW S, NEW M, Total(M), NEW c \in SUBSET Lit, Follows(c, M),
         \A l \in c : -l \in S, NEW A \in M, S \subseteq A
  PROVE  FALSE
<1>1. PICK l \in c : l \in A
  BY DEF Follows
<1>2. -l \in A
  OBVIOUS
<1> QED
  BY <1>1, <1>2 DEF Total

LEMMA RootRefutes ==
  ASSUME NEW t, NEW m, NEW M, Shape(t, m), Reasoned(t, m, M), Total(M),
         Len(m) = 0, NEW c \in SUBSET Lit, Follows(c, M), \A l \in c : -l \in LitsOf(t)
  PROVE  M = {}
<1> SUFFICES ASSUME NEW A \in M PROVE FALSE
  OBVIOUS
<1>0. \A x \in DOMAIN t : t[x].level \in Nat
  BY ShapeFacts
<1>1. \A x \in DOMAIN t : t[x].level = 0
  BY <1>0 DEF Shape
<1>2. LitsOf(t) \subseteq A
  BY <1>1 DEF Reasoned, LitsOf
<1> QED
  BY <1>2, FalseRefutes

------------------------------------------------------------------------------
(* analyze: the clause learnt. *)

LEMMA TrailLitsOf == TrailLits = LitsOf(trail)
  BY DEF TrailLits, LitsOf

LEMMA LevelAt ==
  ASSUME Shape(trail, lim), NEW x \in DOMAIN trail, NEW l,
         VarOf(trail[x].lit) = VarOf(l)
  PROVE  LevelOf(l) = trail[x].level
<1> DEFINE y == CHOOSE y \in DOMAIN trail : VarOf(trail[y].lit) = VarOf(l)
<1>1. y \in DOMAIN trail /\ VarOf(trail[y].lit) = VarOf(l)
  OBVIOUS
<1>2. LevelOf(l) = trail[y].level
  BY DEF LevelOf, EntryOf
<1> HIDE DEF y
<1>3. x = y
  BY <1>1, OneEntry
<1> QED
  BY <1>2, <1>3

(* Where a false literal became so. *)
LEMMA FalseAt ==
  ASSUME Shape(trail, lim), NEW l \in Lit, -l \in LitsOf(trail)
  PROVE  \E x \in DOMAIN trail : /\ trail[x].lit = -l
                                 /\ LevelOf(l) = trail[x].level
                                 /\ LevelOf(l) \in 0 .. Level
<1>1. PICK x \in DOMAIN trail : trail[x].lit = -l
  BY LitsOfAt
<1>2. VarOf(trail[x].lit) = VarOf(l)
  BY <1>1, LitFacts
<1>3. LevelOf(l) = trail[x].level
  BY <1>2, LevelAt
<1>4. trail[x].level \in Nat /\ trail[x].level <= Len(lim) /\ Len(lim) \in Nat
  BY ShapeFacts DEF Shape
<1> QED
  BY <1>1, <1>3, <1>4 DEF Level

LEMMA TotalLit ==
  ASSUME NEW M, Total(M), NEW A \in M, NEW l \in Lit
  PROVE  (l \in A <=> -l \notin A) /\ (-l \in A <=> l \notin A)
  BY DEF Total

LEMMA MinimisedFollows ==
  ASSUME Shape(trail, lim), NEW M, Total(M), Reasoned(trail, lim, M),
         NEW c \in SUBSET Lit, \A l \in c : -l \in LitsOf(trail), Follows(c, M)
  PROVE  Follows(Minimised(Above(c)), M)
<1> DEFINE b == Above(c)
           d == Minimised(b)
<1> SUFFICES ASSUME NEW A \in M, d \cap A = {} PROVE FALSE
  BY DEF Follows
<1>1. /\ Len(trail) \in Nat /\ DOMAIN trail = 1 .. Len(trail)
      /\ \A x \in DOMAIN trail : /\ trail[x].lit \in Lit /\ trail[x].why \subseteq Lit
                                 /\ trail[x].level \in Nat
  BY ShapeFacts
<1>2. b \subseteq c /\ d \subseteq b /\ \A l \in b : l \in d \/ -l \in Implied(b)
  BY DEF Above, Minimised
<1>3. \A l \in d : -l \in A
  BY <1>2, TotalLit
<1> DEFINE P(x) == trail[x].lit \in Implied(b) \/ -trail[x].lit \in b
           T == {x \in DOMAIN trail : P(x) /\ trail[x].lit \notin A}
<1>4. T = {}
  <2> SUFFICES ASSUME T # {} PROVE FALSE
    OBVIOUS
  <2>1. T \in SUBSET Nat
    BY <1>1
  <2>2. PICK x \in T : \A y \in T : x <= y
    BY <2>1, SmallestIn
  <2>3. x \in DOMAIN trail /\ P(x) /\ trail[x].lit \notin A
    OBVIOUS
  <2>4. ASSUME NEW y \in 1 .. (x - 1), P(y) PROVE trail[y].lit \in A
    <3>1. y \in DOMAIN trail /\ ~(x <= y)
      BY <1>1, <2>3
    <3> QED
      BY <2>2, <2>4, <3>1
  <2>5. -(-trail[x].lit) = trail[x].lit
    BY <1>1, <2>3, LitFacts
  <2>6. trail[x].lit \in Implied(b)
    BY <1>2, <1>3, <2>3, <2>5
  <2>7. PICK S \in SUBSET TrailLits :
          /\ \A e \in ToSet(trail) : e.lit \in S => Supported(S, b, e)
          /\ trail[x].lit \in S
    BY <2>6 DEF Implied
  <2>8. S \subseteq Implied(b)
    BY <2>7 DEF Implied
  <2>9. trail[x] \in ToSet(trail)
    BY <2>3 DEF ToSet
  <2>10. Supported(S, b, trail[x])
    BY <2>7, <2>9
  <2>11. trail[x].level # 0
    BY <2>3 DEF Reasoned
  <2>12. /\ trail[x].why # {}
         /\ \A l \in trail[x].why \ {trail[x].lit} : -l \in S \/ l \in b
    BY <2>10, <2>11 DEF Supported
  <2>13. /\ \A l \in trail[x].why \ {trail[x].lit} :
              \E y \in 1 .. (x - 1) : trail[y].lit = -l
         /\ Follows(trail[x].why, M)
    BY <2>3, <2>12 DEF Reasoned
  <2>14. PICK l \in trail[x].why : l \in A
    BY <2>13 DEF Follows
  <2>15. l \in trail[x].why \ {trail[x].lit} /\ l \in Lit
    BY <1>1, <2>3, <2>14
  <2>16. PICK y \in 1 .. (x - 1) : trail[y].lit = -l
    BY <2>13, <2>15
  <2>17. P(y)
    <3>1. -(-l) = l
      BY <2>15, LitFacts
    <3> QED
      BY <2>8, <2>12, <2>15, <2>16, <3>1
  <2>18. -l \in A
    BY <2>4, <2>16, <2>17
  <2> QED
    BY <2>14, <2>15, <2>18, TotalLit
<1>5. ASSUME NEW l \in c PROVE -l \in A
  <2>1. PICK x \in DOMAIN trail : trail[x].lit = -l /\ LevelOf(l) = trail[x].level
    BY FalseAt
  <2>2. CASE LevelOf(l) > 0
    <3>1. l \in b
      BY <2>2 DEF Above
    <3>2. -trail[x].lit \in b
      BY <2>1, <3>1, LitFacts
    <3>3. P(x)
      BY <3>2
    <3> QED
      BY <1>4, <2>1, <3>3
  <2>3. CASE ~(LevelOf(l) > 0)
    <3>1. trail[x].level = 0
      BY <1>1, <2>1, <2>3
    <3> QED
      BY <2>1, <3>1 DEF Reasoned
  <2> QED
    BY <2>2, <2>3
<1>6. PICK l \in c : l \in A
  BY DEF Follows
<1> QED
  BY <1>5, <1>6, TotalLit

LEMMA ShortenedFollows ==
  ASSUME NEW M, Total(M), \A d \in db : Follows(d.lits, M),
         NEW c \in SUBSET Lit, Follows(c, M), UIP(c) \in c
  PROVE  Follows(Shortened(c), M)
<1> SUFFICES ASSUME NEW A \in M, Shortened(c) \cap A = {} PROVE FALSE
  BY DEF Follows
<1>1. UIP(c) \in Shortened(c)
  BY DEF Shortened
<1>2. UIP(c) \notin A
  BY <1>1
<1>3. PICK l \in c : l \in A
  BY DEF Follows
<1>4. l # UIP(c) /\ l \notin Shortened(c)
  BY <1>2, <1>3
<1>5. PICK d \in db : d.lits = {UIP(c), -l}
  BY <1>4 DEF Shortened
<1>6. -l \in A
  BY <1>2, <1>5 DEF Follows
<1> QED
  BY <1>3, <1>6, TotalLit

LEMMA UIPOf ==
  ASSUME NEW c, Current(c) = {UIP(c)}, NEW d \in SUBSET c, UIP(c) \in d
  PROVE  UIP(d) = UIP(c) /\ Current(d) = {UIP(d)}
<1>1. \A l \in c : LevelOf(l) = Level <=> l = UIP(c)
  BY DEF Current
<1>2. \A l \in d : LevelOf(l) = Level <=> l = UIP(c)
  BY <1>1
<1>3. UIP(d) = UIP(c)
  <2>1. \E l \in d : LevelOf(l) = Level
    BY <1>2
  <2>2. UIP(d) \in d /\ LevelOf(UIP(d)) = Level
    BY <2>1 DEF UIP
  <2> QED
    BY <1>2, <2>2
<1> QED
  BY <1>2, <1>3 DEF Current

(* What analyze works on: a clause all models satisfy, false on the trail. *)
Conflict(c, t, M) ==
  c \in SUBSET Lit /\ (\A l \in c : -l \in LitsOf(t)) /\ Follows(c, M)

LEMMA LearntFacts ==
  ASSUME Shape(trail, lim), NEW M, Total(M), Reasoned(trail, lim, M),
         \A d \in db : Follows(d.lits, M), Conflict(confl, trail, M),
         Level > 0, Current(confl) = {UIP(confl)}, NEW c \in LearntClauses
  PROVE  /\ Conflict(c, trail, M)
         /\ c \subseteq Above(confl)
         /\ UIP(c) = UIP(confl) /\ UIP(c) \in c /\ Current(c) = {UIP(c)}
<1> DEFINE b == Above(confl)
           d == Minimised(b)
<1>1. UIP(confl) \in b
  BY DEF Current, Above
<1>2. b \subseteq confl
  BY DEF Above
<1>3. UIP(b) = UIP(confl) /\ Current(b) = {UIP(b)}
  BY <1>1, <1>2, UIPOf
<1>4. d \subseteq b /\ UIP(b) \in d
  BY <1>1, <1>3 DEF Minimised
<1>5. UIP(d) = UIP(b) /\ Current(d) = {UIP(d)}
  BY <1>3, <1>4, UIPOf
<1>6. Follows(d, M)
  BY MinimisedFollows DEF Conflict
<1>7. Shortened(d) \subseteq d /\ UIP(d) \in Shortened(d)
  BY <1>4, <1>5 DEF Shortened
<1>8. UIP(Shortened(d)) = UIP(d) /\ Current(Shortened(d)) = {UIP(Shortened(d))}
  BY <1>5, <1>7, UIPOf
<1>9. d \in SUBSET Lit
  BY <1>2, <1>4 DEF Conflict
<1>10. Follows(Shortened(d), M)
  BY <1>4, <1>5, <1>6, <1>9, ShortenedFollows
<1>11. c = d \/ c = Shortened(d)
  BY DEF LearntClauses
<1> HIDE DEF b, d
<1>12. c \subseteq b /\ Follows(c, M)
  BY <1>4, <1>6, <1>7, <1>10, <1>11
<1>13. UIP(c) = UIP(confl) /\ UIP(c) \in c /\ Current(c) = {UIP(c)}
  BY <1>3, <1>4, <1>5, <1>7, <1>8, <1>11
<1>14. Conflict(c, trail, M)
  BY <1>2, <1>12 DEF Conflict
<1> QED
  BY <1>12, <1>13, <1>14 DEF b

LEMMA BacktrackFacts ==
  ASSUME Shape(trail, lim), NEW c \in SUBSET Lit, \A l \in c : -l \in LitsOf(trail),
         \A l \in c : LevelOf(l) > 0, Level > 0, Current(c) = {UIP(c)}
  PROVE  /\ BacktrackLevel(c) \in Nat /\ BacktrackLevel(c) < Level
         /\ \A l \in c \ {UIP(c)} : LevelOf(l) <= BacktrackLevel(c)
         /\ c = {UIP(c)} => BacktrackLevel(c) = 0
         /\ c # {UIP(c)} => BacktrackLevel(c) > 0
<1> DEFINE u == UIP(c)
           T == {LevelOf(l) : l \in c \ {u}} \cup {0}
<1>1. \A l \in c \ {u} : LevelOf(l) # Level
  BY DEF Current
<1>2. Level \in Nat
  BY ShapeFacts DEF Level
<1>3. \A l \in c : LevelOf(l) \in 0 .. Level
  BY FalseAt
<1>4. \A l \in c \ {u} : LevelOf(l) \in Nat /\ LevelOf(l) < Level
  BY <1>1, <1>2, <1>3
<1>5. T \in SUBSET Nat /\ T # {} /\ \A x \in T : x <= Level
  BY <1>2, <1>4
<1>6. \E x \in T : \A y \in T : y <= x
  BY <1>2, <1>5, LargestIn
<1>7. BacktrackLevel(c) \in T /\ \A y \in T : y <= BacktrackLevel(c)
  BY <1>6 DEF BacktrackLevel, Max
<1>8. u \in c
  BY DEF Current
<1>9. c # {u} => \E l \in c \ {u} : TRUE
  BY <1>8
<1>10. BacktrackLevel(c) < Level
  BY <1>2, <1>4, <1>7
<1>11. \A l \in c \ {u} : LevelOf(l) <= BacktrackLevel(c)
  BY <1>7
<1>12. c = {u} => T = {0}
  OBVIOUS
<1>13. c # {u} => BacktrackLevel(c) > 0
  BY <1>4, <1>5, <1>7, <1>9, <1>11
<1> QED
  BY <1>5, <1>7, <1>10, <1>11, <1>12, <1>13

(* One resolution of analyze: the last false literal is no decision, since   *)
(* another literal of its level became false before it.                      *)
LEMMA ResolveFacts ==
  ASSUME Shape(trail, lim), NEW M, Total(M), Reasoned(trail, lim, M),
         NEW c, Conflict(c, trail, M), Level > 0,
         \E z \in DOMAIN trail : -trail[z].lit \in c /\ trail[z].level = Level,
         Current(c) # {UIP(c)},
         NEW x, x = LastFalse(c),
         NEW d, d = (c \ {-trail[x].lit}) \cup (trail[x].why \ {trail[x].lit})
  PROVE  /\ Conflict(d, trail, M)
         /\ \E z \in DOMAIN trail : -trail[z].lit \in d /\ trail[z].level = Level
<1>1. /\ Len(trail) \in Nat /\ DOMAIN trail = 1 .. Len(trail)
      /\ Level \in Nat /\ DOMAIN lim = 1 .. Level
      /\ \A k \in DOMAIN lim : lim[k] \in Nat
      /\ \A y \in DOMAIN trail : /\ trail[y].lit \in Lit /\ trail[y].why \subseteq Lit
                                 /\ trail[y].level \in Nat
  BY ShapeFacts DEF Level
<1>2. PICK z \in DOMAIN trail : -trail[z].lit \in c /\ trail[z].level = Level
  OBVIOUS
<1> DEFINE T == {y \in DOMAIN trail : -trail[y].lit \in c}
<1>3. T \in SUBSET Nat /\ T # {} /\ \A y \in T : y <= Len(trail)
  BY <1>1, <1>2
<1>4. \E w \in T : \A y \in T : y <= w
  BY <1>1, <1>3, LargestIn
<1>5. /\ x \in DOMAIN trail /\ -trail[x].lit \in c
      /\ \A y \in DOMAIN trail : -trail[y].lit \in c => y <= x
  BY <1>4 DEF LastFalse
<1>6. Level \in DOMAIN lim
  BY <1>1
<1>7. \A y \in DOMAIN trail : trail[y].level <= Level /\ (Level <= trail[y].level <=> lim[Level] < y)
  BY <1>6 DEF Shape, Level
<1>8. lim[Level] < z /\ z <= x
  BY <1>1, <1>2, <1>5, <1>7
<1>9. trail[x].level = Level
  BY <1>1, <1>5, <1>6, <1>7, <1>8
<1>10. PICK y \in DOMAIN trail : y # x /\ -trail[y].lit \in c /\ trail[y].level = Level
  <2>1. LevelOf(-trail[z].lit) = Level
    BY <1>1, <1>2, LevelAt, LitFacts
  <2>2. UIP(c) \in Current(c)
    BY <1>2, <2>1 DEF UIP, Current
  <2>3. PICK l \in Current(c) : l # UIP(c)
    BY <2>2
  <2>4. PICK k \in Current(c) : k # -trail[x].lit
    BY <2>2, <2>3
  <2>5. k \in c /\ LevelOf(k) = Level /\ k \in Lit /\ -k \in LitsOf(trail)
    BY <2>4 DEF Current, Conflict
  <2>6. PICK y \in DOMAIN trail : trail[y].lit = -k /\ LevelOf(k) = trail[y].level
    BY <2>5, FalseAt
  <2>7. -trail[y].lit = k
    BY <2>5, <2>6, LitFacts
  <2> QED
    BY <2>4, <2>5, <2>6, <2>7
<1>11. lim[Level] < y /\ y < x
  BY <1>1, <1>5, <1>7, <1>10
<1>12. trail[x].why # {}
  <2> SUFFICES ASSUME trail[x].why = {} PROVE FALSE
    OBVIOUS
  <2>1. x = lim[Level] + 1
    BY <1>5, <1>9 DEF Reasoned
  <2> QED
    BY <1>1, <1>6, <1>11, <2>1
<1>13. /\ trail[x].lit \in trail[x].why
       /\ \A l \in trail[x].why \ {trail[x].lit} : \E w \in 1 .. (x - 1) : trail[w].lit = -l
       /\ Follows(trail[x].why, M)
  BY <1>5, <1>12 DEF Reasoned
<1>14. \A l \in trail[x].why \ {trail[x].lit} : -l \in LitsOf(trail)
  BY <1>1, <1>5, <1>13, LitsOfAt
<1>15. ASSUME NEW A \in M PROVE d \cap A # {}
  <2>1. PICK l \in c : l \in A
    BY DEF Conflict, Follows
  <2>2. CASE l # -trail[x].lit
    BY <2>1, <2>2
  <2>3. CASE l = -trail[x].lit
    <3>1. trail[x].lit \notin A
      BY <1>1, <1>5, <2>1, <2>3, TotalLit
    <3>2. PICK k \in trail[x].why : k \in A
      BY <1>13 DEF Follows
    <3> QED
      BY <3>1, <3>2
  <2> QED
    BY <2>2, <2>3
<1>16. Conflict(d, trail, M)
  BY <1>1, <1>5, <1>14, <1>15 DEF Conflict, Follows
<1>17. -trail[y].lit # -trail[x].lit
  <2>1. VarOf(trail[y].lit) # VarOf(trail[x].lit)
    BY <1>5, <1>10, OneEntry
  <2> QED
    BY <1>1, <1>5, <1>10, <2>1, LitFacts
<1>18. -trail[y].lit \in d
  BY <1>10, <1>17
<1> QED
  BY <1>10, <1>16, <1>18

(* analyzeFinal: the clause of the assumptions to blame. *)
LEMMA FinalClauseFacts ==
  ASSUME Shape(trail, lim), NEW M, Total(M), Reasoned(trail, lim, M),
         NEW p \in Lit, -p \in LitsOf(trail), Blamed(p) # {}
  PROVE  Attachable(FinalClause(p), M)
<1>1. /\ Len(trail) \in Nat /\ DOMAIN trail = 1 .. Len(trail)
      /\ Level \in Nat
      /\ \A x \in DOMAIN trail :
           /\ trail[x].lit \in Lit /\ trail[x].why \subseteq Lit
           /\ trail[x].level \in Nat /\ trail[x].level <= Level
           /\ -trail[x].lit \notin LitsOf(trail)
  BY ShapeFacts DEF Level, Shape
<1>2. \A e \in Blamed(p) : \E x \in DOMAIN trail : trail[x] = e
  BY DEF Blamed, ToSet
<1>3. \A e \in Blamed(p) : /\ e.lit \in Lit /\ e.lit \in LitsOf(trail)
                           /\ e.level \in Nat /\ e.level <= Level
  BY <1>1, <1>2, LitsOfAt
<1> DEFINE T == {e.level : e \in Blamed(p)}
<1>4. T \in SUBSET Nat /\ T # {} /\ \A x \in T : x <= Level
  BY <1>3
<1>5. \E x \in T : \A y \in T : y <= x
  BY <1>1, <1>4, LargestIn
<1>6. \E e \in Blamed(p) : \A d \in Blamed(p) : d.level <= e.level
  BY <1>5
<1> DEFINE last == CHOOSE e \in Blamed(p) : \A d \in Blamed(p) : d.level <= e.level
           lits == {-p} \cup {-e.lit : e \in Blamed(p)}
<1>7. last \in Blamed(p)
  BY <1>6
<1>8. FinalClause(p) = [lits |-> lits, learnt |-> TRUE, watched |-> {-p, -last.lit}]
  BY DEF FinalClause
<1> HIDE DEF last
<1>9. -p \in lits /\ -last.lit \in lits /\ lits \subseteq Lit
  BY <1>3, <1>7, LitFacts
<1>10. -p # -last.lit
  <2> SUFFICES ASSUME -p = -last.lit PROVE FALSE
    OBVIOUS
  <2>1. p = last.lit
    BY <1>3, <1>7, LitFacts
  <2>2. PICK x \in DOMAIN trail : trail[x].lit = last.lit
    BY <1>2, <1>7
  <2> QED
    BY <1>1, <2>1, <2>2
<1>11. Follows(lits, M)
  <2> SUFFICES ASSUME NEW A \in M, lits \cap A = {} PROVE FALSE
    BY DEF Follows
  <2>1. \A e \in Blamed(p) : e.lit \in A
    <3> SUFFICES ASSUME NEW e \in Blamed(p) PROVE e.lit \in A
      OBVIOUS
    <3>1. -e.lit \notin A
      OBVIOUS
    <3> QED
      BY <1>3, <3>1, TotalLit
  <2>2. ASSUME NEW e \in ToSet(trail), VarOf(e.lit) \in Involved(p), e.level > 0
        PROVE  VarsOf(Above(e.why)) \cap Var \subseteq Involved(p)
    BY <2>2 DEF Involved
  <2> DEFINE X == {x \in DOMAIN trail : VarOf(trail[x].lit) \in Involved(p) /\ trail[x].lit \notin A}
  <2>3. X = {}
    <3> SUFFICES ASSUME X # {} PROVE FALSE
      OBVIOUS
    <3>1. X \in SUBSET Nat
      BY <1>1
    <3>2. PICK x \in X : \A y \in X : x <= y
      BY <3>1, SmallestIn
    <3>3. x \in DOMAIN trail /\ VarOf(trail[x].lit) \in Involved(p) /\ trail[x].lit \notin A
      OBVIOUS
    <3>4. trail[x] \in ToSet(trail)
      BY <3>3 DEF ToSet
    <3>5. trail[x].level > 0
      BY <1>1, <3>3 DEF Reasoned
    <3>6. trail[x].why # {}
      BY <2>1, <3>3, <3>4, <3>5 DEF Blamed
    <3>7. /\ \A l \in trail[x].why \ {trail[x].lit} : \E w \in 1 .. (x - 1) : trail[w].lit = -l
          /\ Follows(trail[x].why, M)
      BY <3>3, <3>6 DEF Reasoned
    <3>8. PICK l \in trail[x].why : l \in A
      BY <3>7 DEF Follows
    <3>9. l # trail[x].lit /\ l \in Lit
      BY <1>1, <3>3, <3>8
    <3>10. PICK w \in 1 .. (x - 1) : trail[w].lit = -l
      BY <3>7, <3>8, <3>9
    <3>11. w \in DOMAIN trail /\ ~(x <= w)
      BY <1>1, <3>3
    <3>12. trail[w].lit \notin A
      BY <3>8, <3>9, <3>10, TotalLit
    <3>13. VarOf(trail[w].lit) = VarOf(l) /\ VarOf(l) \in Var
      BY <3>9, <3>10, LitFacts
    <3>14. LevelOf(l) = trail[w].level
      BY <3>11, <3>13, LevelAt
    <3>15. trail[w].level > 0
      BY <1>1, <3>11, <3>12 DEF Reasoned
    <3>16. VarOf(l) \in VarsOf(Above(trail[x].why))
      BY <3>8, <3>14, <3>15 DEF Above, VarsOf
    <3>17. VarOf(l) \in Involved(p)
      BY <2>2, <3>3, <3>4, <3>5, <3>13, <3>16
    <3>18. w \in X
      BY <3>11, <3>12, <3>13, <3>17
    <3> QED
      BY <3>2, <3>11, <3>18
  <2>4. PICK x \in DOMAIN trail : trail[x].lit = -p
    BY LitsOfAt
  <2>5. VarOf(-p) \in Involved(p)
    <3>1. VarOf(-p) = VarOf(p) /\ VarOf(p) \in Var
      BY LitFacts
    <3> QED
      BY <3>1 DEF Involved
  <2>6. -p \in A
    BY <2>3, <2>4, <2>5
  <2> QED
    BY <2>6
<1>12. FinalClause(p) \in Clauses
  BY <1>8, <1>9 DEF Clauses
<1>13. FinalClause(p).lits = lits /\ FinalClause(p).watched = {-p, -last.lit}
  BY <1>8
<1> HIDE DEF lits
<1> QED
  BY <1>9, <1>10, <1>11, <1>12, <1>13 DEF Attachable

------------------------------------------------------------------------------
(* Clauses and their watches. *)

LEMMA LitFinite ==
  ASSUME NEW c \in SUBSET Lit
  PROVE  IsFiniteSet(c) /\ Cardinality(c) \in Nat
<1>1. IsFiniteSet((-NbVar) .. NbVar)
  BY SolverAssumption, FS_Interval
<1>2. c \in SUBSET ((-NbVar) .. NbVar)
  BY SolverAssumption DEF Lit, Var
<1> QED
  BY <1>1, <1>2, FS_Subset, FS_CardinalityType

LEMMA TwoIn ==
  ASSUME NEW c \in SUBSET Lit
  PROVE  /\ Cardinality(c) >= 2 <=> \E a, b \in c : a # b
         /\ Cardinality(c) = 1 <=> \E a : c = {a}
         /\ Cardinality(c) = 0 <=> c = {}
<1>1. IsFiniteSet(c) /\ Cardinality(c) \in Nat
  BY LitFinite
<1>2. Cardinality(c) = 0 <=> c = {}
  BY <1>1, FS_EmptySet
<1>3. Cardinality(c) = 1 <=> \E a : c = {a}
  BY <1>1, FS_Singleton
<1>4. Cardinality(c) >= 2 <=> Cardinality(c) # 0 /\ Cardinality(c) # 1
  BY <1>1
<1>5. ASSUME c # {}, ~(\E a : c = {a}) PROVE \E a, b \in c : a # b
  <2>1. PICK a \in c : TRUE
    BY <1>5
  <2>2. c # {a}
    BY <1>5
  <2> QED
    BY <2>1, <2>2
<1>6. (\E a, b \in c : a # b) => c # {} /\ ~(\E a : c = {a})
  OBVIOUS
<1>7. Cardinality(c) >= 2 <=> \E a, b \in c : a # b
  BY <1>2, <1>3, <1>4, <1>5, <1>6
<1> QED
  BY <1>2, <1>3, <1>7

LEMMA PairOf ==
  ASSUME NEW a, NEW b, a # b
  PROVE  Cardinality({a, b}) = 2
<1>1. IsFiniteSet({a}) /\ Cardinality({a}) = 1
  BY FS_Singleton
<1>2. Cardinality({a} \cup {b}) = 2
  BY <1>1, FS_AddElement
<1>3. {a, b} = {a} \cup {b}
  OBVIOUS
<1> QED
  BY <1>2, <1>3

(* A literal of the smallest variable. *)
LEMMA FirstLit ==
  ASSUME NEW c \in SUBSET Lit, c # {}, \A l \in c : -l \notin c
  PROVE  \E a \in c : \A l \in c \ {a} : VarOf(a) < VarOf(l)
<1> DEFINE T == {VarOf(l) : l \in c}
<1>1. \A l \in c : VarOf(l) \in Nat
  BY LitFacts, SolverAssumption DEF Var
<1>2. T \in SUBSET Nat /\ T # {}
  BY <1>1
<1>3. PICK x \in T : \A y \in T : x <= y
  BY <1>2, SmallestIn
<1>4. PICK a \in c : x = VarOf(a)
  OBVIOUS
<1>5. ASSUME NEW l \in c \ {a} PROVE VarOf(a) < VarOf(l)
  <2>1. VarOf(l) # VarOf(a)
    BY SameVar, LitFacts
  <2> QED
    BY <1>1, <1>3, <1>4, <2>1
<1> QED
  BY <1>5

LEMMA AttachedFacts ==
  ASSUME NEW c \in SUBSET Lit, Cardinality(c) > 1, \A l \in c : -l \notin c,
         NEW M, Follows(c, M)
  PROVE  /\ Attachable(Attached(c), M)
         /\ Attached(c).lits = c /\ Attached(c).learnt = FALSE
<1>1. c # {} /\ ~(\E a : c = {a})
  BY LitFinite, TwoIn
<1>2. PICK a \in c : \A l \in c \ {a} : VarOf(a) < VarOf(l)
  BY <1>1, FirstLit
<1>3. c \ {a} # {}
  BY <1>1
<1>4. PICK b \in c \ {a} : \A l \in (c \ {a}) \ {b} : VarOf(b) < VarOf(l)
  BY <1>3, FirstLit
<1>5. {a, b} \in kSubset(2, c)
  BY <1>4, PairOf DEF kSubset
<1>6. \A l \in {a, b}, m \in c \ {a, b} : VarOf(l) < VarOf(m)
  BY <1>2, <1>4
<1> DEFINE w == CHOOSE w \in kSubset(2, c) :
                  \A l \in w, m \in c \ w : VarOf(l) < VarOf(m)
<1>7. w \in kSubset(2, c)
  BY <1>5, <1>6
<1>8. Attached(c) = [lits |-> c, learnt |-> FALSE, watched |-> w]
  BY DEF Attached
<1> HIDE DEF w
<1>9. w \subseteq c /\ Cardinality(w) = 2
  BY <1>7 DEF kSubset
<1>10. w \in SUBSET Lit
  BY <1>9
<1>11. PICK d, e \in w : d # e
  BY <1>9, <1>10, TwoIn
<1>12. w = {d, e}
  <2>1. {d, e} \in SUBSET w /\ Cardinality({d, e}) = Cardinality(w)
    BY <1>9, <1>11, PairOf
  <2> QED
    BY <1>10, <2>1, LitFinite, FS_Subset
<1>13. Attached(c) \in Clauses
  BY <1>8, <1>10 DEF Clauses
<1> QED
  BY <1>8, <1>9, <1>11, <1>12, <1>13 DEF Attachable

------------------------------------------------------------------------------
(* The watches while the trail and the clauses change. *)

LEMMA GuardedCut ==
  ASSUME NEW t, NEW m, Shape(t, m), NEW D, NEW z \in Nat, NEW q,
         Guarded(t, D, z, q, {}), NEW k \in Nat, NEW u, NEW p, Shape(u, p),
         Cuts(t, m, k, u, p), NEW w \in Nat, w <= z, NEW r, NEW vis
  PROVE  Guarded(u, D, w, r, vis)
<1> SUFFICES ASSUME NEW c \in D, NEW x \in DOMAIN u, x <= w, -u[x].lit \in c.watched
             PROVE  \E y \in DOMAIN u : u[y].lit \in c.lits /\ u[y].level <= u[x].level
  BY DEF Guarded
<1>1. /\ \A y \in DOMAIN u : y \in DOMAIN t /\ u[y] = t[y]
      /\ \A y \in DOMAIN t : y \in DOMAIN u <=> t[y].level <= k
  BY DEF Cuts
<1>2. /\ \A y \in DOMAIN t : t[y].level \in Nat
      /\ DOMAIN t = 1 .. Len(t) /\ Len(t) \in Nat
  BY ShapeFacts
<1>3. x \in DOMAIN t /\ x <= z /\ -t[x].lit \in c.watched /\ t[x].level <= k
  BY <1>1, <1>2
<1>4. PICK y \in DOMAIN t : t[y].lit \in c.lits /\ t[y].level <= t[x].level
  BY <1>3 DEF Guarded
<1>5. y \in DOMAIN u
  BY <1>1, <1>2, <1>3, <1>4
<1> QED
  BY <1>1, <1>4, <1>5

LEMMA GuardedExtend ==
  ASSUME NEW t, NEW m, Shape(t, m), NEW D, NEW z, NEW q, NEW vis,
         Guarded(t, D, z, q, vis), z \in 0 .. Len(t),
         NEW u, NEW l, NEW why, NEW level, Extends(t, u, l, why, level)
  PROVE  Guarded(u, D, z, q, vis)
<1>1. /\ \A x \in DOMAIN t : x \in DOMAIN u /\ u[x] = t[x]
      /\ DOMAIN u = DOMAIN t \cup {Len(t) + 1}
  BY DEF Extends
<1>2. DOMAIN t = 1 .. Len(t) /\ Len(t) \in Nat
  BY ShapeFacts
<1>3. \A x \in DOMAIN u : x <= z => x \in DOMAIN t
  BY <1>1, <1>2
<1> QED
  BY <1>1, <1>3 DEF Guarded

LEMMA GuardedFewer ==
  ASSUME NEW t, NEW D, NEW z, NEW q, NEW vis, Guarded(t, D, z, q, vis),
         NEW E \in SUBSET D
  PROVE  Guarded(t, E, z, q, vis)
  BY DEF Guarded

LEMMA GuardedMore ==
  ASSUME NEW t, NEW D, NEW z, NEW q, NEW vis, Guarded(t, D, z, q, vis), NEW c,
         \A x \in DOMAIN t : -t[x].lit \in c.watched =>
           \E y \in DOMAIN t : t[y].lit \in c.lits /\ t[y].level <= t[x].level
  PROVE  Guarded(t, D \cup {c}, z, q, vis)
  BY DEF Guarded

LEMMA GuardedNext ==
  ASSUME NEW t, NEW m, Shape(t, m), NEW D, NEW q \in Nat, Guarded(t, D, q, q, {})
  PROVE  Guarded(t, D, q + 1, q + 1, {c \in D : -t[q + 1].lit \in c.watched})
<1>1. DOMAIN t = 1 .. Len(t) /\ Len(t) \in Nat
  BY ShapeFacts
<1>2. \A x \in DOMAIN t : x <= q + 1 => x <= q \/ x = q + 1
  BY <1>1
<1> QED
  BY <1>2 DEF Guarded

LEMMA GuardedTrue ==
  ASSUME NEW t, NEW D, NEW q, NEW vis, Guarded(t, D, q, q, vis),
         q \in DOMAIN t, \A y \in DOMAIN t : t[y].level <= t[q].level,
         NEW c, \E y \in DOMAIN t : t[y].lit \in c.lits
  PROVE  Guarded(t, D, q, q, vis \ {c})
<1> SUFFICES ASSUME NEW d \in D, NEW x \in DOMAIN t, x <= q, -t[x].lit \in d.watched,
                    ~(x = q /\ d \in vis \ {c})
             PROVE  \E y \in DOMAIN t : t[y].lit \in d.lits /\ t[y].level <= t[x].level
  BY DEF Guarded
<1>1. CASE x = q /\ d = c
  BY <1>1
<1>2. CASE ~(x = q /\ d \in vis)
  BY <1>2 DEF Guarded
<1> QED
  BY <1>1, <1>2

LEMMA GuardedRewatch ==
  ASSUME NEW t, NEW m, Shape(t, m), NEW D, NEW q, NEW vis, Guarded(t, D, q, q, vis),
         q \in DOMAIN t, NEW c \in D, NEW l \in Lit, -l \notin LitsOf(t),
         NEW e, e.lits = c.lits, e.watched = (c.watched \ {-t[q].lit}) \cup {l}
  PROVE  Guarded(t, (D \ {c}) \cup {e}, q, q, vis \ {c})
<1> SUFFICES ASSUME NEW d \in (D \ {c}) \cup {e}, NEW x \in DOMAIN t, x <= q,
                    -t[x].lit \in d.watched, ~(x = q /\ d \in vis \ {c})
             PROVE  \E y \in DOMAIN t : t[y].lit \in d.lits /\ t[y].level <= t[x].level
  BY DEF Guarded
<1>1. CASE d \in D \ {c}
  BY <1>1 DEF Guarded
<1>2. CASE d = e
  <2>1. t[x].lit \in Lit /\ t[x].lit \in LitsOf(t)
    BY ShapeFacts, LitsOfAt
  <2>2. -t[x].lit # l
    BY <2>1, LitFacts
  <2>3. -t[x].lit \in c.watched /\ -t[x].lit # -t[q].lit
    BY <1>2, <2>2
  <2>4. x # q
    BY <2>3
  <2>5. \E y \in DOMAIN t : t[y].lit \in c.lits /\ t[y].level <= t[x].level
    BY <2>3, <2>4 DEF Guarded
  <2> QED
    BY <1>2, <2>5
<1> QED
  BY <1>1, <1>2

LEMMA GuardedEarlier ==
  ASSUME NEW t, NEW m, Shape(t, m), NEW D, NEW z \in Nat, NEW q, NEW vis,
         Guarded(t, D, z, q, vis), NEW w \in Nat, w <= z,
         vis = {} \/ w < q, q \in Nat, NEW r, NEW new
  PROVE  Guarded(t, D, w, r, new)
<1>1. DOMAIN t = 1 .. Len(t) /\ Len(t) \in Nat
  BY ShapeFacts
<1>2. \A x \in DOMAIN t : x <= w => x <= z /\ (vis = {} \/ x # q)
  BY <1>1
<1> QED
  BY <1>2 DEF Guarded

(* The entries of level 0 are still there. *)
RootKept(t, u) == \A x \in DOMAIN t : t[x].level = 0 => x \in DOMAIN u /\ u[x] = t[x]

LEMMA RootTrueKept ==
  ASSUME NEW t, NEW u, RootKept(t, u), NEW l, RootTrue(t, l)
  PROVE  RootTrue(u, l)
<1>1. PICK x \in DOMAIN t : t[x].lit = l /\ t[x].level = 0
  BY DEF RootTrue
<1>2. x \in DOMAIN u /\ u[x] = t[x]
  BY <1>1 DEF RootKept
<1> QED
  BY <1>1, <1>2 DEF RootTrue

LEMMA RootKeptBy ==
  ASSUME NEW t, NEW u, NEW l, NEW why, NEW level, NEW m, NEW k, NEW p
  PROVE  /\ Extends(t, u, l, why, level) => RootKept(t, u)
         /\ Cuts(t, m, k, u, p) /\ k \in Nat => RootKept(t, u)
<1>1. Extends(t, u, l, why, level) => RootKept(t, u)
  BY DEF Extends, RootKept
<1>2. ASSUME Cuts(t, m, k, u, p), k \in Nat PROVE RootKept(t, u)
  BY <1>2 DEF Cuts, RootKept
<1> QED
  BY <1>1, <1>2

LEMMA CoveredKept ==
  ASSUME NEW c, NEW t, NEW u, NEW D, NEW E, Covered(c, t, D), RootKept(t, u),
         \A d \in D : ~d.learnt => \/ \E e \in E : ~e.learnt /\ e.lits = d.lits
                                   \/ \E l \in d.lits : RootTrue(u, l)
  PROVE  Covered(c, u, E)
<1>1. CASE \E l \in c : -l \in c
  BY <1>1 DEF Covered
<1>2. CASE \E l \in c : RootTrue(t, l)
  BY <1>2, RootTrueKept DEF Covered
<1>3. ASSUME NEW d \in D, ~d.learnt, d.lits \subseteq c,
             \A l \in c \ d.lits : RootTrue(t, -l)
      PROVE  Covered(c, u, E)
  <2>1. CASE \E l \in d.lits : RootTrue(u, l)
    BY <1>3, <2>1 DEF Covered
  <2>2. CASE \E e \in E : ~e.learnt /\ e.lits = d.lits
    <3>1. PICK e \in E : ~e.learnt /\ e.lits = d.lits
      BY <2>2
    <3>2. \A l \in c \ e.lits : RootTrue(u, -l)
      BY <1>3, <3>1, RootTrueKept
    <3> QED
      BY <1>3, <3>1, <3>2 DEF Covered
  <2> QED
    BY <1>3, <2>1, <2>2
<1> QED
  BY <1>1, <1>2, <1>3 DEF Covered

------------------------------------------------------------------------------
(* A trail with nothing left to propagate. *)

Open(S, l) == l \notin S /\ -l \notin S

LEMMA ClauseClosed ==
  ASSUME NEW t, NEW m, Shape(t, m), NEW D, NEW q, Guarded(t, D, Len(t), q, {}),
         NEW c \in D, NEW M, Attachable(c, M), c.lits \cap LitsOf(t) = {}
  PROVE  \E a, b \in c.lits : a # b /\ Open(LitsOf(t), a) /\ Open(LitsOf(t), b)
<1>1. PICK a, b \in c.lits : a # b /\ c.watched = {a, b}
  BY DEF Attachable
<1>2. a \in Lit /\ b \in Lit
  BY DEF Attachable, Clauses
<1>3. ASSUME NEW l \in c.watched, -l \in LitsOf(t), l \in Lit PROVE FALSE
  <2>1. PICK x \in DOMAIN t : t[x].lit = -l
    BY <1>3, LitsOfAt
  <2>2. -t[x].lit = l /\ x <= Len(t)
    BY <1>3, <2>1, LitFacts, ShapeFacts
  <2>3. \E y \in DOMAIN t : t[y].lit \in c.lits
    BY <2>1, <2>2 DEF Guarded
  <2> QED
    BY <2>3, LitsOfAt
<1> QED
  BY <1>1, <1>2, <1>3 DEF Open

LEMMA TrailFits ==
  ASSUME NEW t, NEW m, Shape(t, m), NEW D, NEW q, Guarded(t, D, Len(t), q, {}),
         NEW M, \A c \in D : Attachable(c, M)
  PROVE  Fits(LitsOf(t), D)
<1>1. \A l \in LitsOf(t) : -l \notin LitsOf(t)
  BY ShapeFacts, LitsOfAt
<1>2. ASSUME NEW c \in D, c.lits \cap LitsOf(t) = {}
      PROVE  \E a, b \in c.lits : a # b /\ Open(LitsOf(t), a) /\ Open(LitsOf(t), b)
  BY <1>2, ClauseClosed
<1> QED
  BY <1>1, <1>2 DEF Fits, Open

LEMMA InputClosed ==
  ASSUME NEW t, NEW m, Shape(t, m), NEW D, NEW q, Guarded(t, D, Len(t), q, {}),
         NEW M, \A d \in D : Attachable(d, M),
         NEW c \in SUBSET Lit, Covered(c, t, D), c \cap LitsOf(t) = {}
  PROVE  \E a, b \in c : a # b /\ Open(LitsOf(t), a) /\ Open(LitsOf(t), b)
<1>1. CASE \E l \in c : -l \in c
  <2>1. PICK l \in c : -l \in c
    BY <1>1
  <2>2. l # -l /\ -(-l) = l
    BY LitFacts
  <2>3. Open(LitsOf(t), l) /\ Open(LitsOf(t), -l)
    BY <2>1, <2>2 DEF Open
  <2> QED
    BY <2>1, <2>2, <2>3
<1>2. ASSUME NEW l \in c, RootTrue(t, l) PROVE FALSE
  BY <1>2, LitsOfAt DEF RootTrue
<1>3. ASSUME NEW d \in D, d.lits \subseteq c
      PROVE  \E a, b \in c : a # b /\ Open(LitsOf(t), a) /\ Open(LitsOf(t), b)
  <2>1. d.lits \cap LitsOf(t) = {}
    BY <1>3
  <2>2. PICK a, b \in d.lits : a # b /\ Open(LitsOf(t), a) /\ Open(LitsOf(t), b)
    BY <2>1, ClauseClosed
  <2> QED
    BY <1>3, <2>2
<1> QED
  BY <1>1, <1>2, <1>3 DEF Covered

(* Propagation under a partial assignment that fits stays inside it. *)
LEMMA FitsUnit ==
  ASSUME NEW S, NEW D, Fits(S, D), NEW T \in SUBSET S, NEW c \in D, NEW f,
         \A l \in c.lits \ {f} : -l \in T
  PROVE  f \in c.lits /\ f \in S
<1>1. CASE c.lits \cap S # {}
  BY <1>1 DEF Fits
<1>2. CASE \E a, b \in c.lits :
             a # b /\ a \notin S /\ -a \notin S /\ b \notin S /\ -b \notin S
  BY <1>2
<1> QED
  BY <1>1, <1>2 DEF Fits

LEMMA FitsSame ==
  ASSUME NEW S, NEW D, Fits(S, D), NEW E,
         \A e \in E : \E d \in D : e.lits = d.lits
  PROVE  Fits(S, E)
  BY DEF Fits

------------------------------------------------------------------------------
(* Components, and models put together from two. *)

LEMMA FormulaLits ==
  ASSUME input \in Inputs
  PROVE  /\ input.clauses \in Seq(SUBSET Lit)
         /\ \A c \in formula : c \in SUBSET Lit
         /\ \A c \in formula : \E x \in 1 .. Len(input.clauses) : c = input.clauses[x]
<1>1. input.clauses \in Seq(SUBSET Lit)
  BY SolverAssumption
<1>2. DOMAIN input.clauses = 1 .. Len(input.clauses)
  BY <1>1, LenProperties
<1>3. \A x \in 1 .. Len(input.clauses) : input.clauses[x] \in SUBSET Lit
  BY <1>1, ElementOfSeq
<1> QED
  BY <1>1, <1>2, <1>3 DEF formula, ToSet

(* What is left of a clause. *)
Rest(c, V) == {l \in c : -l \notin V}

(* No clause of F left under V leads out of the variables S. *)
Uncrossed(F, V, S) ==
  \A c \in F : c \cap V = {} =>
    VarsOf(Rest(c, V)) \subseteq S \/ VarsOf(Rest(c, V)) \cap S = {}

LEMMA WholeIs ==
  ASSUME NEW V, NEW S
  PROVE  Whole(V, S) <=> Uncrossed(formula, V, S)
<1>1. \A c \in Left(V) : \E d \in formula : d \cap V = {} /\ c = Rest(d, V)
  BY DEF Left, Rest
<1>2. \A d \in formula : d \cap V = {} => Rest(d, V) \in Left(V)
  BY DEF Left, Rest
<1> QED
  BY <1>1, <1>2 DEF Whole, Uncrossed

LEMMA UncrossedMore ==
  ASSUME NEW F, NEW V, NEW S, Uncrossed(F, V, S), NEW W, V \subseteq W
  PROVE  Uncrossed(F, W, S)
<1> SUFFICES ASSUME NEW c \in F, c \cap W = {}
             PROVE  VarsOf(Rest(c, W)) \subseteq S \/ VarsOf(Rest(c, W)) \cap S = {}
  BY DEF Uncrossed
<1>1. c \cap V = {}
  OBVIOUS
<1>2. VarsOf(Rest(c, V)) \subseteq S \/ VarsOf(Rest(c, V)) \cap S = {}
  BY <1>1 DEF Uncrossed
<1>3. VarsOf(Rest(c, W)) \subseteq VarsOf(Rest(c, V))
  BY DEF VarsOf, Rest
<1> QED
  BY <1>2, <1>3

LEMMA UncrossedVar ==
  ASSUME NEW F, \A c \in F : c \in SUBSET Lit, NEW V
  PROVE  Uncrossed(F, V, Var)
<1>1. \A c \in F : VarsOf(Rest(c, V)) \subseteq Var
  BY LitFacts DEF VarsOf, Rest
<1> QED
  BY <1>1 DEF Uncrossed

LEMMA ComponentWhole ==
  ASSUME NEW comp \in Components, Whole(Value, frames[1].vars)
  PROVE  comp \subseteq frames[1].vars /\ Whole(Value, comp)
<1> DEFINE active == {v \in frames[1].vars : \E c \in Left(Value) : v \in VarsOf(c)}
           closed == {s \in SUBSET active : Whole(Value, s)}
<1>1. PICK v \in active : comp = {w \in active : \A s \in closed : v \in s <=> w \in s}
  BY DEF Components
<1>2. ASSUME NEW c \in Left(Value), VarsOf(c) \cap comp # {}
      PROVE  VarsOf(c) \subseteq comp
  <2>1. PICK w \in VarsOf(c) : w \in comp
    BY <1>2
  <2>2. VarsOf(c) \subseteq frames[1].vars
    BY <1>1, <2>1 DEF Whole
  <2>3. VarsOf(c) \subseteq active
    BY <2>2
  <2>4. ASSUME NEW u \in VarsOf(c), NEW s \in closed PROVE w \in s <=> u \in s
    BY <2>1 DEF Whole
  <2> HIDE DEF active, closed
  <2> QED
    BY <1>1, <2>1, <2>3, <2>4
<1> HIDE DEF closed
<1>3. comp \subseteq frames[1].vars
  BY <1>1
<1> QED
  BY <1>2, <1>3 DEF Whole

(* All variables are on the trail, and no clause is open. *)
LEMMA TotalIsModel ==
  ASSUME NEW T \in SUBSET Lit, \A l \in T : -l \notin T,
         \A v \in Var : v \in T \/ -v \in T,
         \A c \in formula : c \subseteq Lit /\ (c \cap T = {} => \E a \in c : Open(T, a))
  PROVE  T \in Models
<1>1. \A v \in Var : v \in T <=> -v \notin T
  BY VarIsLit
<1>2. ASSUME NEW c \in formula, c \cap T = {} PROVE FALSE
  <2>1. PICK a \in c : Open(T, a)
    BY <1>2
  <2>2. VarOf(a) \in Var /\ (a = VarOf(a) \/ a = -VarOf(a)) /\ -(-VarOf(a)) = VarOf(a)
    BY <2>1, LitFacts, VarIsLit
  <2> QED
    BY <2>1, <2>2 DEF Open
<1> QED
  BY <1>1, <1>2 DEF Models

(* The consistent assignment T has a value for the variables S. *)
Decides(T, S) == (\A l \in T : -l \notin T) /\ \A v \in S : v \in T \/ -v \in T

(* It leaves no clause of the formula empty or unit. *)
Closed(T) ==
  \A c \in formula :
    c \subseteq Lit /\ (c \cap T = {} => \E a, b \in c : a # b /\ Open(T, a) /\ Open(T, b))

(* The variables S are on the trail T, and nothing left under V leads out of *)
(* them: T on S goes together with any model that has V.                     *)
LEMMA Recombined ==
  ASSUME NEW T \in SUBSET Lit, NEW S \in SUBSET Var, Decides(T, S), Closed(T),
         NEW V \in SUBSET T, Uncrossed(formula, V, S), NEW A \in Models, V \subseteq A
  PROVE  \E B \in Models : V \subseteq B /\ \A l \in T : VarOf(l) \in S => l \in B
<1> USE DEF Decides, Closed
<1> DEFINE B == {l \in Lit : IF VarOf(l) \in S THEN l \in T ELSE l \in A}
<1>1. A \subseteq Lit /\ \A l \in Lit : l \in A <=> -l \notin A
  BY ModelsTotal DEF Total
<1>2. V \subseteq B
  OBVIOUS
<1>3. \A l \in T : VarOf(l) \in S => l \in B
  OBVIOUS
<1>4. ASSUME NEW l \in Lit, VarOf(l) \in S PROVE l \in T \/ -l \in T
  <2>1. l = VarOf(l) \/ l = -VarOf(l)
    BY LitFacts
  <2>2. VarOf(l) \in T \/ -VarOf(l) \in T
    BY <1>4
  <2>3. -(-VarOf(l)) = VarOf(l)
    BY LitFacts, VarIsLit
  <2> QED
    BY <2>1, <2>2, <2>3
<1>5. ASSUME NEW v \in Var PROVE v \in B <=> -v \notin B
  <2>1. v \in Lit /\ -v \in Lit /\ VarOf(v) = v /\ VarOf(-v) = v /\ v # -v
    BY VarIsLit
  <2> QED
    BY <1>1, <2>1
<1>6. ASSUME NEW c \in formula PROVE c \cap B # {}
  <2>1. CASE c \cap V # {}
    BY <1>2, <2>1
  <2>2. CASE c \cap V = {}
    <3>1. CASE VarsOf(Rest(c, V)) \cap S = {}
      <4>1. PICK l \in c : l \in A
        BY DEF Models
      <4>2. l \in Lit /\ -l \notin V
        BY <1>1, <4>1
      <4>3. VarOf(l) \notin S
        BY <3>1, <4>1, <4>2 DEF Rest, VarsOf
      <4> QED
        BY <4>1, <4>2, <4>3
    <3>2. CASE VarsOf(Rest(c, V)) \subseteq S
      <4>1. \A l \in c : -l \notin V => VarOf(l) \in S
        BY <3>2 DEF Rest, VarsOf
      <4>2. c \cap T # {}
        <5> SUFFICES ASSUME c \cap T = {} PROVE FALSE
          OBVIOUS
        <5>1. PICK a \in c : Open(T, a)
          OBVIOUS
        <5>2. -a \notin V /\ a \in Lit
          BY <5>1 DEF Open
        <5> QED
          BY <1>4, <4>1, <5>1, <5>2 DEF Open
      <4>3. PICK l \in c : l \in T
        BY <4>2
      <4>4. -l \notin V
        BY <4>3
      <4> QED
        BY <1>3, <4>1, <4>3, <4>4
    <3> QED
      BY <2>2, <3>1, <3>2 DEF Uncrossed
  <2> QED
    BY <2>1, <2>2
<1>7. B \in Models
  BY <1>5, <1>6 DEF Models
<1> HIDE DEF B
<1> QED
  BY <1>2, <1>3, <1>7

------------------------------------------------------------------------------
(* Assumptions and calls. *)

Sat(M, s) == \E A \in M : ToSet(s) \subseteq A
Implies(M, s, S) == \A A \in M : ToSet(s) \subseteq A => S \subseteq A

(* The assumptions all that the x-th call from the inside has. *)
Before(all, x) == SubSeq(all, 1, Len(all) + 1 - x)
UnitsFrom(fr, x) == UNION {fr[y].units : y \in x .. Len(fr)}
============================================================================
