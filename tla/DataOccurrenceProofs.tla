----------------------- MODULE DataOccurrenceProofs ------------------------
(***************************************************************************)
(* Backtracking by two counters is correct for occurrence lists of any     *)
(* length and any number of levels.                                        *)
(***************************************************************************)
EXTENDS DataOccurrence, TLAPS, SequenceTheorems

Swap(d, p, q) == [d EXCEPT ![p] = d[q], ![q] = d[p]]
Image(d, a, b) == {d[r] : r \in a .. (b - 1)}

(* Where the element of every position is after a swap. *)
LEMMA SwapValues ==
  ASSUME NEW d \in [Clauses -> Clauses], NEW p \in Clauses, NEW q \in Clauses
  PROVE  /\ Swap(d, p, q) \in [Clauses -> Clauses]
         /\ Swap(d, p, q)[p] = d[q] /\ Swap(d, p, q)[q] = d[p]
         /\ \A r \in Clauses : r # p /\ r # q => Swap(d, p, q)[r] = d[r]
  BY DEF Swap

(***************************************************************************)
(* Swapping two positions of a range does not change what the range holds: *)
(* why a saved pair of counters survives the loops that run after it.      *)
(***************************************************************************)
LEMMA SwapInsideRange ==
  ASSUME NEW d \in [Clauses -> Clauses], NEW a \in Int, NEW b \in Int,
         a .. (b - 1) \subseteq Clauses,
         NEW p \in a .. (b - 1), NEW q \in a .. (b - 1)
  PROVE  Image(Swap(d, p, q), a, b) = Image(d, a, b)
<1> DEFINE e == Swap(d, p, q)
<1>0. p \in Clauses /\ q \in Clauses
  OBVIOUS
<1>1. /\ e[p] = d[q] /\ e[q] = d[p]
      /\ \A r \in Clauses : r # p /\ r # q => e[r] = d[r]
  BY <1>0, SwapValues
<1> HIDE DEF e
<1>2. ASSUME NEW r \in a .. (b - 1) PROVE e[r] \in Image(d, a, b)
  BY <1>1 DEF Image
<1>3. ASSUME NEW r \in a .. (b - 1) PROVE d[r] \in Image(e, a, b)
  <2>1. CASE r = p
    BY <1>1, <2>1 DEF Image
  <2>2. CASE r # p /\ r = q
    BY <1>1, <2>2 DEF Image
  <2>3. CASE r # p /\ r # q
    BY <1>1, <2>3 DEF Image
  <2> QED
    BY <2>1, <2>2, <2>3
<1>4. Image(e, a, b) = Image(d, a, b)
  BY <1>2, <1>3 DEF Image
<1> QED
  BY <1>4 DEF e

(* A swap keeps the array a permutation. *)
LEMMA SwapPermutation ==
  ASSUME NEW d \in [Clauses -> Clauses], NEW p \in Clauses, NEW q \in Clauses,
         \A r, s \in Clauses : d[r] = d[s] => r = s
  PROVE  \A r, s \in Clauses : Swap(d, p, q)[r] = Swap(d, p, q)[s] => r = s
<1> DEFINE e == Swap(d, p, q)
<1>1. /\ e[p] = d[q] /\ e[q] = d[p]
      /\ \A r \in Clauses : r # p /\ r # q => e[r] = d[r]
  BY SwapValues, ZenonT(30)
<1> HIDE DEF e
<1>2. \A r, s \in Clauses : e[r] = e[s] => r = s
  BY <1>1
<1> QED
  BY <1>2 DEF e

(* Binary clauses come first, and the clauses are numbered without a gap. *)
LEMMA ConstantTypes ==
  /\ notBin \in Nat /\ NbBin \in Nat /\ NbNotBin \in Nat /\ notBin = NbBin
  /\ \A p : p \in Clauses <=> p \in Int /\ 0 <= p /\ p < NbBin + NbNotBin
  BY OccurrenceAssumption DEF notBin, Clauses

(* What it means for a clause to be in a range of the array. *)
LEMMA AtMember ==
  ASSUME NEW a, NEW b, NEW c
  PROVE  c \in At(a, b) <=> \E r \in a .. (b - 1) : c = data[r]
  BY DEF At

(* The type of what one level saved. *)
LEMMA SavedType ==
  ASSUME OccTypeOK, NEW k \in DOMAIN saved
  PROVE  saved[k] \in [nbBin : 0 .. NbBin, nbNotBin : 0 .. NbNotBin,
                       isSat : SUBSET Clauses]
<1> DEFINE T == [nbBin : 0 .. NbBin, nbNotBin : 0 .. NbNotBin,
                 isSat : SUBSET Clauses]
<1>1. saved \in Seq(T)
  BY DEF OccTypeOK
<1> HIDE DEF T
<1>2. saved[k] \in T
  BY <1>1
<1> QED
  BY <1>2 DEF T

(* At first the range is the whole array and no clause is satisfied. *)
LEMMA OccInitInv == OccInit => OccInv
<1> SUFFICES ASSUME OccInit PROVE OccInv
  OBVIOUS
<1> USE ConstantTypes DEF OccInit
<1>1. data \in [Clauses -> Clauses] /\ \A p \in Clauses : data[p] = p
  OBVIOUS
<1>2. OccTypeOK
  BY <1>1 DEF OccTypeOK
<1>3. Permutation
  BY <1>1 DEF Permutation
<1>4. LoopInv
  BY <1>1 DEF LoopInv, At
<1>5. Nested /\ SavedExact
  BY DEF Nested, SavedExact
<1> QED
  BY <1>2, <1>3, <1>4, <1>5 DEF OccInv

(***************************************************************************)
(* One removal: the satisfied clause at position p goes to position q, an  *)
(* end of the current range, inside the range of every saved level.        *)
(***************************************************************************)
LEMMA RemovalKeepsSaved ==
  ASSUME OccInv, NEW p \in bin .. ((notBin + nbNotBin) - 1),
         NEW q \in bin .. ((notBin + nbNotBin) - 1),
         data' = Swapped(p, q), saved' = saved
  PROVE  /\ data' \in [Clauses -> Clauses]
         /\ data'[p] = data[q] /\ data'[q] = data[p]
         /\ \A r \in Clauses : r # p /\ r # q => data'[r] = data[r]
         /\ Permutation'
         /\ SavedExact'
<1> USE ConstantTypes DEF OccInv
<1>1. /\ bin \in Nat /\ nbNotBin \in Nat /\ data \in [Clauses -> Clauses]
      /\ nbNotBin <= NbNotBin /\ bin <= notBin
  BY DEF OccTypeOK
<1>2. p \in Clauses /\ q \in Clauses
  BY <1>1
<1>3. data' = Swap(data, p, q)
  BY DEF Swapped, Swap
<1>4. /\ data' \in [Clauses -> Clauses]
      /\ data'[p] = data[q] /\ data'[q] = data[p]
      /\ \A r \in Clauses : r # p /\ r # q => data'[r] = data[r]
  <2>1. /\ Swap(data, p, q) \in [Clauses -> Clauses]
        /\ Swap(data, p, q)[p] = data[q] /\ Swap(data, p, q)[q] = data[p]
        /\ \A r \in Clauses : r # p /\ r # q => Swap(data, p, q)[r] = data[r]
    BY <1>1, <1>2, SwapValues
  <2> QED
    BY <1>3, <2>1, Zenon
<1>5. Permutation'
  BY <1>1, <1>2, <1>3, SwapPermutation DEF Permutation
<1>6. SavedExact'
  <2> SUFFICES ASSUME NEW k \in DOMAIN saved
               PROVE  Image(data', notBin - saved[k].nbBin, notBin + saved[k].nbNotBin)
                        = Clauses \ saved[k].isSat
    BY DEF SavedExact, At, Image
  <2> DEFINE a == notBin - saved[k].nbBin
             b == notBin + saved[k].nbNotBin
  <2>1. saved[k] \in [nbBin : 0 .. NbBin, nbNotBin : 0 .. NbNotBin,
                      isSat : SUBSET Clauses]
    BY SavedType
  <2>2. a \in Int /\ b \in Int /\ a .. (b - 1) \subseteq Clauses
    BY <2>1
  <2>3. p \in a .. (b - 1) /\ q \in a .. (b - 1)
    BY <1>1, <2>1 DEF Nested
  <2>4. Image(data, a, b) = Clauses \ saved[k].isSat
    BY DEF SavedExact, At, Image
  <2> HIDE DEF a, b
  <2>5. Image(Swap(data, p, q), a, b) = Image(data, a, b)
    BY <1>1, <2>2, <2>3, SwapInsideRange
  <2> QED
    BY <1>3, <2>4, <2>5 DEF a, b
<1> QED
  BY <1>4, <1>5, <1>6

(* One iteration of removeSatisfiedNotBin. *)
LEMMA StepNotBinInv == ASSUME OccInv, StepNotBin PROVE OccInv'
<1> USE ConstantTypes DEF OccInv
<1>1. /\ bin \in Nat /\ nbNotBin \in Nat /\ data \in [Clauses -> Clauses]
      /\ nbNotBin <= NbNotBin /\ bin <= notBin /\ isSat \subseteq Clauses
      /\ i \in Nat /\ i < nbNotBin /\ pc = "notBin"
      /\ bin + nbBin = notBin
  BY DEF OccTypeOK, LoopInv, StepNotBin
<1>2. UNCHANGED << pc, bin, nbBin, isSat, saved >>
  BY DEF StepNotBin
<1> DEFINE p == notBin + i
           q == (notBin + nbNotBin) - 1
<1>3. CASE data[p] \in isSat /\ data' = Swapped(p, q) /\ nbNotBin' = nbNotBin - 1
           /\ UNCHANGED i
  <2>1. p \in bin .. ((notBin + nbNotBin) - 1) /\ q \in bin .. ((notBin + nbNotBin) - 1)
    BY <1>1
  <2>2. p \in Clauses /\ q \in Clauses /\ p <= q
    BY <1>1
  <2> HIDE DEF p, q
  <2>3. /\ data' \in [Clauses -> Clauses]
        /\ data'[p] = data[q] /\ data'[q] = data[p]
        /\ \A r \in Clauses : r # p /\ r # q => data'[r] = data[r]
        /\ Permutation'
        /\ SavedExact'
    BY <1>2, <1>3, <2>1, RemovalKeepsSaved
  <2>4. OccTypeOK'
    BY <1>1, <1>2, <1>3, <2>3 DEF OccTypeOK
  <2>5. Nested'
    <3>1. \A k \in DOMAIN saved : saved[k].nbNotBin \in Nat
      BY SavedType
    <3> QED
      BY <1>1, <1>2, <1>3, <3>1 DEF Nested
  <2>6. Clauses \ isSat \subseteq Image(data', bin, q)
    <3> SUFFICES ASSUME NEW c \in Clauses \ isSat PROVE c \in Image(data', bin, q)
      OBVIOUS
    <3>0. c \in At(bin, notBin + nbNotBin)
      BY DEF LoopInv
    <3>1. PICK r \in bin .. ((notBin + nbNotBin) - 1) : c = data[r]
      BY <3>0, AtMember
    <3>2. r \in Clauses /\ r # p /\ bin <= r /\ r <= q
      BY <1>1, <1>3, <3>1 DEF q
    <3>3. CASE r = q
      BY <1>1, <2>2, <2>3, <3>1, <3>2, <3>3 DEF Image, p, q
    <3>4. CASE r # q
      BY <1>1, <2>2, <2>3, <3>1, <3>2, <3>4 DEF Image, q
    <3> QED
      BY <3>3, <3>4
  <2>7. \A r \in notBin .. ((notBin + i) - 1) : data'[r] \notin isSat
    <3> SUFFICES ASSUME NEW r \in notBin .. ((notBin + i) - 1)
                 PROVE  data'[r] \notin isSat
      OBVIOUS
    <3>1. r \in Clauses /\ r # p /\ r # q /\ data[r] \notin isSat
      BY <1>1 DEF p, q, LoopInv, At
    <3> QED
      BY <2>3, <3>1
  <2>8. LoopInv'
    BY <1>1, <1>2, <1>3, <2>6, <2>7 DEF LoopInv, At, Image, q
  <2> QED
    BY <2>3, <2>4, <2>5, <2>8
<1>4. CASE data[p] \notin isSat /\ i' = i + 1 /\ UNCHANGED << data, nbNotBin >>
  <2>1. OccTypeOK'
    BY <1>1, <1>2, <1>4 DEF OccTypeOK
  <2>2. Permutation' /\ Nested' /\ SavedExact'
    BY <1>2, <1>4 DEF Permutation, Nested, SavedExact, At
  <2>3. \A r \in notBin .. (notBin + i) : data[r] \notin isSat
    BY <1>1, <1>4 DEF LoopInv, At
  <2>4. LoopInv'
    BY <1>1, <1>2, <1>4, <2>3 DEF LoopInv, At
  <2> QED
    BY <2>1, <2>2, <2>4
<1> QED
  BY <1>3, <1>4 DEF StepNotBin

(* removeSatisfiedNotBin ends and removeSatisfiedBin starts. *)
LEMMA EndNotBinInv == ASSUME OccInv, EndNotBin PROVE OccInv'
<1> USE ConstantTypes DEF OccInv
<1>1. /\ bin \in Nat /\ nbNotBin \in Nat /\ nbBin \in Nat
      /\ bin <= notBin /\ pc = "notBin" /\ i = nbNotBin
      /\ bin + nbBin = notBin /\ nbBin <= NbBin
  BY DEF OccTypeOK, LoopInv, EndNotBin
<1>2. /\ UNCHANGED << data, bin, nbBin, nbNotBin, isSat, saved >>
      /\ i' = (bin + nbBin) - 1
      /\ pc' = IF nbBin = 0 THEN "idle" ELSE "bin"
  BY <1>1 DEF EndNotBin
<1>3. OccTypeOK'
  BY <1>1, <1>2 DEF OccTypeOK
<1>4. Permutation' /\ Nested' /\ SavedExact'
  BY <1>2 DEF Permutation, Nested, SavedExact, At
<1>5. At(notBin, notBin + nbNotBin) \cap isSat = {}
  BY <1>1 DEF LoopInv
<1>6. LoopInv'
  <2>1. CASE nbBin = 0
    BY <1>1, <1>2, <1>5, <2>1 DEF LoopInv, At
  <2>2. CASE nbBin # 0
    <3>1. i' + 1 = notBin /\ pc' = "bin" /\ bin <= i'
      BY <1>1, <1>2, <2>2
    <3> QED
      BY <1>1, <1>2, <1>5, <3>1 DEF LoopInv, At
  <2> QED
    BY <2>1, <2>2
<1> QED
  BY <1>3, <1>4, <1>6

(* One iteration of removeSatisfiedBin. *)
LEMMA StepBinInv == ASSUME OccInv, StepBin PROVE OccInv'
<1> USE ConstantTypes DEF OccInv
<1>1. /\ bin \in Nat /\ nbNotBin \in Nat /\ data \in [Clauses -> Clauses]
      /\ nbNotBin <= NbNotBin /\ bin <= notBin /\ isSat \subseteq Clauses
      /\ i \in Nat /\ bin <= i /\ i < notBin /\ pc = "bin"
  BY DEF OccTypeOK, LoopInv, StepBin
<1>2. UNCHANGED << pc, nbBin, nbNotBin, isSat, saved >>
  BY DEF StepBin
<1>3. CASE data[i] \notin isSat /\ i' = i - 1 /\ UNCHANGED << data, bin >>
  <2>1. OccTypeOK'
    BY <1>1, <1>2, <1>3 DEF OccTypeOK
  <2>2. Permutation' /\ Nested' /\ SavedExact'
    BY <1>2, <1>3 DEF Permutation, Nested, SavedExact, At
  <2>3. \A r \in i .. (notBin - 1) : data[r] \notin isSat
    BY <1>1, <1>3 DEF LoopInv, At
  <2>4. LoopInv'
    BY <1>1, <1>2, <1>3, <2>3 DEF LoopInv, At
  <2> QED
    BY <2>1, <2>2, <2>4
<1>4. CASE data[i] \in isSat /\ data' = Swapped(i, bin) /\ bin' = bin + 1
           /\ UNCHANGED i
  <2>1. i \in bin .. ((notBin + nbNotBin) - 1) /\ bin \in bin .. ((notBin + nbNotBin) - 1)
    BY <1>1
  <2>2. i \in Clauses /\ bin \in Clauses
    BY <1>1
  <2>3. /\ data' \in [Clauses -> Clauses]
        /\ data'[i] = data[bin] /\ data'[bin] = data[i]
        /\ \A r \in Clauses : r # i /\ r # bin => data'[r] = data[r]
        /\ Permutation'
        /\ SavedExact'
    BY <1>2, <1>4, <2>1, RemovalKeepsSaved
  <2>4. OccTypeOK'
    BY <1>1, <1>2, <1>4, <2>3 DEF OccTypeOK
  <2>5. Nested'
    <3>1. \A k \in DOMAIN saved : saved[k].nbBin \in Nat
      BY SavedType
    <3> QED
      BY <1>1, <1>2, <1>4, <3>1 DEF Nested
  <2>6. Clauses \ isSat \subseteq Image(data', bin + 1, notBin + nbNotBin)
    <3> SUFFICES ASSUME NEW c \in Clauses \ isSat
                 PROVE  c \in Image(data', bin + 1, notBin + nbNotBin)
      OBVIOUS
    <3>0. c \in At(bin, notBin + nbNotBin)
      BY DEF LoopInv
    <3>1. PICK r \in bin .. ((notBin + nbNotBin) - 1) : c = data[r]
      BY <3>0, AtMember
    <3>2. r \in Clauses /\ r # i /\ bin <= r
      BY <1>1, <1>4, <3>1
    <3>3. CASE r = bin
      BY <1>1, <2>2, <2>3, <3>1, <3>2, <3>3 DEF Image
    <3>4. CASE r # bin
      BY <1>1, <2>2, <2>3, <3>1, <3>2, <3>4 DEF Image
    <3> QED
      BY <3>3, <3>4
  <2>7. /\ \A r \in notBin .. ((notBin + nbNotBin) - 1) : data'[r] \notin isSat
        /\ \A r \in (i + 1) .. (notBin - 1) : data'[r] \notin isSat
    <3> SUFFICES ASSUME NEW r \in Int, i < r, r < notBin + nbNotBin,
                        data[r] \notin isSat
                 PROVE  data'[r] \notin isSat
      BY <1>1 DEF LoopInv, At
    <3>1. r \in Clauses /\ r # i /\ r # bin
      BY <1>1
    <3> QED
      BY <2>3, <3>1
  <2>8. LoopInv'
    BY <1>1, <1>2, <1>4, <2>6, <2>7 DEF LoopInv, At, Image
  <2> QED
    BY <2>3, <2>4, <2>5, <2>8
<1> QED
  BY <1>3, <1>4 DEF StepBin

(* removeSatisfiedBin ends. *)
LEMMA EndBinInv == ASSUME OccInv, EndBin PROVE OccInv'
<1> USE ConstantTypes DEF OccInv
<1>1. /\ bin \in Nat /\ nbNotBin \in Nat /\ bin <= notBin
      /\ pc = "bin" /\ i = bin - 1
  BY DEF OccTypeOK, LoopInv, EndBin
<1>2. /\ UNCHANGED << data, bin, nbNotBin, i, isSat, saved >>
      /\ nbBin' = notBin - bin
      /\ pc' = "idle"
  BY DEF EndBin
<1>3. OccTypeOK'
  BY <1>1, <1>2 DEF OccTypeOK
<1>4. Permutation' /\ Nested' /\ SavedExact'
  BY <1>2 DEF Permutation, Nested, SavedExact, At
<1>5. \A r \in bin .. ((notBin + nbNotBin) - 1) : data[r] \notin isSat
  BY <1>1 DEF LoopInv, At
<1>6. LoopInv'
  BY <1>1, <1>2, <1>5 DEF LoopInv, At
<1> QED
  BY <1>3, <1>4, <1>6

(* A level put in front of the saved ones. *)
LEMMA PushFront ==
  ASSUME NEW T, NEW s \in Seq(T), NEW e \in T
  PROVE  /\ << e >> \o s \in Seq(T)
         /\ DOMAIN (<< e >> \o s) = 1 .. (Len(s) + 1)
         /\ (<< e >> \o s)[1] = e
         /\ \A k \in 2 .. (Len(s) + 1) :
              k - 1 \in DOMAIN s /\ (<< e >> \o s)[k] = s[k - 1]
  OBVIOUS

(* The level in front of the others taken off. *)
LEMMA PopFront ==
  ASSUME NEW T, NEW s \in Seq(T), s # << >>
  PROVE  /\ Head(s) \in T /\ Head(s) = s[1] /\ 1 \in DOMAIN s
         /\ Tail(s) \in Seq(T)
         /\ \A k \in DOMAIN Tail(s) :
              k \in Nat /\ k + 1 \in DOMAIN s /\ Tail(s)[k] = s[k + 1]
  OBVIOUS

(* removeSatisfiedClauses saves the counters of a level. *)
LEMMA SaveInv ==
  ASSUME OccInv, pc = "idle", saved' = SavedState \o saved, UNCHANGED data,
         bin' \in Nat, nbNotBin' \in Nat, bin <= bin', nbNotBin' <= nbNotBin
  PROVE  /\ saved' \in Seq([nbBin : 0 .. NbBin, nbNotBin : 0 .. NbNotBin,
                            isSat : SUBSET Clauses])
         /\ Nested'
         /\ SavedExact'
<1> USE ConstantTypes DEF OccInv
<1> DEFINE T == [nbBin : 0 .. NbBin, nbNotBin : 0 .. NbNotBin,
                 isSat : SUBSET Clauses]
           e == [nbBin |-> nbBin, nbNotBin |-> nbNotBin, isSat |-> isSat]
<1>1. /\ bin \in Nat /\ nbNotBin \in Nat /\ nbBin \in Nat /\ bin + nbBin = notBin
      /\ At(bin, notBin + nbNotBin) = Clauses \ isSat
  <2>1. /\ bin \in Nat /\ nbNotBin \in Nat /\ nbBin \in Nat /\ bin + nbBin = notBin
        /\ nbNotBin <= NbNotBin /\ data \in [Clauses -> Clauses]
    BY DEF OccTypeOK, LoopInv
  <2>2. At(bin, notBin + nbNotBin) \subseteq Clauses
    BY <2>1 DEF At
  <2> QED
    BY <2>1, <2>2 DEF LoopInv
<1>2. e \in T /\ e.nbBin = nbBin /\ e.nbNotBin = nbNotBin /\ e.isSat = isSat
  BY DEF OccTypeOK
<1>3. saved \in Seq(T) /\ saved' = << e >> \o saved
  BY DEF OccTypeOK, SavedState
<1>4. \A k \in DOMAIN saved : saved[k] \in T
  BY SavedType
<1>5. \A k \in DOMAIN saved : saved[k].nbBin \in Nat /\ saved[k].nbNotBin \in Nat
  BY <1>4
<1> HIDE DEF T, e
<1>6. /\ saved' \in Seq(T)
      /\ DOMAIN saved' = 1 .. (Len(saved) + 1)
      /\ saved'[1] = e
      /\ \A k \in 2 .. (Len(saved) + 1) :
           k - 1 \in DOMAIN saved /\ saved'[k] = saved[k - 1]
  BY <1>2, <1>3, PushFront
<1>7. ASSUME NEW k \in DOMAIN saved'
      PROVE  \/ k = 1 /\ saved'[k] = e
             \/ k \in Nat /\ k # 1 /\ k - 1 \in DOMAIN saved /\ saved'[k] = saved[k - 1]
  <2>1. Len(saved) \in Nat
    BY <1>3
  <2> QED
    BY <1>6, <2>1
<1>8. Nested'
  <2>1. ASSUME NEW k \in DOMAIN saved'
        PROVE  notBin - saved'[k].nbBin <= bin' /\ nbNotBin' <= saved'[k].nbNotBin
    <3>1. CASE k = 1
      BY <1>1, <1>2, <1>7, <3>1
    <3>2. CASE k # 1
      <4>1. k - 1 \in DOMAIN saved /\ saved'[k] = saved[k - 1]
        BY <1>7, <3>2
      <4>2. /\ saved[k - 1].nbBin \in Nat /\ saved[k - 1].nbNotBin \in Nat
            /\ notBin - saved[k - 1].nbBin <= bin
            /\ nbNotBin <= saved[k - 1].nbNotBin
        BY <1>5, <4>1 DEF Nested
      <4> QED
        BY <1>1, <4>1, <4>2
    <3> QED
      BY <3>1, <3>2
  <2>2. ASSUME NEW j \in DOMAIN saved', NEW k \in DOMAIN saved', j <= k
        PROVE  /\ saved'[j].nbBin <= saved'[k].nbBin
               /\ saved'[j].nbNotBin <= saved'[k].nbNotBin
    <3>1. CASE j = 1 /\ k = 1
      BY <1>1, <1>2, <1>7, <3>1
    <3>2. CASE j = 1 /\ k # 1
      <4>1. k - 1 \in DOMAIN saved /\ saved'[k] = saved[k - 1] /\ saved'[j] = e
        BY <1>7, <3>2
      <4>2. /\ saved[k - 1].nbBin \in Nat /\ saved[k - 1].nbNotBin \in Nat
            /\ notBin - saved[k - 1].nbBin <= bin
            /\ nbNotBin <= saved[k - 1].nbNotBin
        BY <1>5, <4>1 DEF Nested
      <4>3. nbBin <= saved[k - 1].nbBin
        BY <1>1, <4>2
      <4> QED
        BY <1>2, <4>1, <4>2, <4>3
    <3>3. CASE j # 1 /\ k # 1
      <4>1. /\ k - 1 \in DOMAIN saved /\ saved'[k] = saved[k - 1]
            /\ j - 1 \in DOMAIN saved /\ saved'[j] = saved[j - 1]
            /\ j \in Nat /\ k \in Nat
        BY <1>7, <3>3
      <4>2. j - 1 <= k - 1
        BY <2>2, <4>1
      <4> QED
        BY <4>1, <4>2 DEF Nested
    <3>4. ~(j # 1 /\ k = 1)
      <4>1. Len(saved) \in Nat
        BY <1>3
      <4> QED
        BY <1>6, <2>2, <4>1
    <3> QED
      BY <3>1, <3>2, <3>3, <3>4
  <2> QED
    BY <2>1, <2>2 DEF Nested
<1>9. SavedExact'
  <2> SUFFICES ASSUME NEW k \in DOMAIN saved'
               PROVE  At(notBin - saved'[k].nbBin, notBin + saved'[k].nbNotBin)
                        = Clauses \ saved'[k].isSat
    BY DEF SavedExact, At
  <2>1. CASE k = 1
    <3>1. notBin - nbBin = bin
      BY <1>1
    <3> QED
      BY <1>1, <1>2, <1>7, <2>1, <3>1
  <2>2. CASE k # 1
    BY <1>7, <2>2 DEF SavedExact
  <2> QED
    BY <2>1, <2>2
<1> QED
  BY <1>6, <1>8, <1>9 DEF T

(* preUpdate saves the counters and enters the removal loops. *)
LEMMA PreUpdateInv ==
  ASSUME OccInv, NEW S \in SUBSET At(bin, notBin + nbNotBin), PreUpdate(S)
  PROVE  OccInv'
<1> USE ConstantTypes DEF OccInv
<1>1. /\ bin \in Nat /\ nbNotBin \in Nat /\ bin <= notBin /\ pc = "idle"
      /\ data \in [Clauses -> Clauses] /\ nbNotBin <= NbNotBin
      /\ isSat \subseteq Clauses /\ bin + nbBin = notBin
  BY DEF OccTypeOK, LoopInv, PreUpdate
<1>2. /\ pc' = "notBin" /\ i' = 0
      /\ UNCHANGED << data, bin, nbBin, nbNotBin >>
      /\ saved' = SavedState \o saved
      /\ isSat' = isSat \cup S
  BY DEF PreUpdate, RemoveSatisfied
<1>3. /\ saved' \in Seq([nbBin : 0 .. NbBin, nbNotBin : 0 .. NbNotBin,
                         isSat : SUBSET Clauses])
      /\ Nested' /\ SavedExact'
  BY <1>1, <1>2, SaveInv
<1>4. S \subseteq Clauses
  BY <1>1 DEF At
<1>5. OccTypeOK'
  BY <1>1, <1>2, <1>3, <1>4 DEF OccTypeOK
<1>6. Permutation'
  BY <1>2 DEF Permutation
<1>7. LoopInv'
  BY <1>1, <1>2 DEF LoopInv, At
<1> QED
  BY <1>3, <1>5, <1>6, <1>7

(* preUpdate of a literal made true saves the counters and empties the list. *)
LEMMA PreUpdateTrueInv == ASSUME OccInv, PreUpdateTrue PROVE OccInv'
<1> USE ConstantTypes DEF OccInv
<1>1. /\ bin \in Nat /\ nbNotBin \in Nat /\ bin <= notBin /\ pc = "idle"
      /\ data \in [Clauses -> Clauses] /\ nbNotBin <= NbNotBin
      /\ isSat \subseteq Clauses /\ bin + nbBin = notBin /\ nbBin \in Nat
  BY DEF OccTypeOK, LoopInv, PreUpdateTrue
<1>2. /\ pc' = "notBin" /\ i' = 0 /\ UNCHANGED data
      /\ saved' = SavedState \o saved
      /\ isSat' = isSat \cup At(bin, notBin + nbNotBin)
      /\ nbNotBin' = 0 /\ bin' = notBin /\ nbBin' = 0
  BY <1>1 DEF PreUpdateTrue, RemoveSatisfied
<1>3. /\ saved' \in Seq([nbBin : 0 .. NbBin, nbNotBin : 0 .. NbNotBin,
                         isSat : SUBSET Clauses])
      /\ Nested' /\ SavedExact'
  BY <1>1, <1>2, SaveInv
<1>4. At(bin, notBin + nbNotBin) \subseteq Clauses
  BY <1>1 DEF At
<1>5. OccTypeOK'
  BY <1>1, <1>2, <1>3, <1>4 DEF OccTypeOK
<1>6. Permutation'
  BY <1>2 DEF Permutation
<1>7. Clauses \ isSat' = {}
  BY <1>2 DEF LoopInv
<1>8. LoopInv'
  BY <1>2, <1>7 DEF LoopInv, At
<1> QED
  BY <1>3, <1>5, <1>6, <1>8

(* inprocessing enters the loops again, in a level already saved. *)
LEMMA InprocessingInv ==
  ASSUME OccInv, NEW S \in SUBSET At(bin, notBin + nbNotBin), Inprocessing(S)
  PROVE  OccInv'
<1> USE ConstantTypes DEF OccInv
<1>1. /\ bin \in Nat /\ nbNotBin \in Nat /\ bin <= notBin /\ pc = "idle"
      /\ data \in [Clauses -> Clauses] /\ nbNotBin <= NbNotBin
      /\ isSat \subseteq Clauses /\ bin + nbBin = notBin
  BY DEF OccTypeOK, LoopInv, Inprocessing
<1>2. /\ pc' = "notBin" /\ i' = 0
      /\ UNCHANGED << data, bin, nbBin, nbNotBin, saved >>
      /\ isSat' = isSat \cup S
  BY DEF Inprocessing, RemoveSatisfied
<1>3. S \subseteq Clauses
  BY <1>1 DEF At
<1>4. OccTypeOK'
  BY <1>1, <1>2, <1>3 DEF OccTypeOK
<1>5. Permutation' /\ Nested' /\ SavedExact'
  BY <1>2 DEF Permutation, Nested, SavedExact, At
<1>6. LoopInv'
  BY <1>1, <1>2 DEF LoopInv, At
<1> QED
  BY <1>4, <1>5, <1>6

(* postUpdate restores the counters saved last. *)
LEMMA PostUpdateInv == ASSUME OccInv, PostUpdate PROVE OccInv'
<1> USE ConstantTypes DEF OccInv
<1> DEFINE T == [nbBin : 0 .. NbBin, nbNotBin : 0 .. NbNotBin,
                 isSat : SUBSET Clauses]
           h == Head(saved)
<1>1. /\ bin \in Nat /\ nbBin \in Nat /\ pc = "idle" /\ bin + nbBin = notBin
      /\ data \in [Clauses -> Clauses] /\ saved # << >> /\ saved \in Seq(T)
  BY DEF OccTypeOK, LoopInv, PostUpdate
<1> HIDE DEF T
<1>2. /\ h \in T /\ h = saved[1] /\ 1 \in DOMAIN saved
      /\ Tail(saved) \in Seq(T)
      /\ \A k \in DOMAIN Tail(saved) :
           k \in Nat /\ k + 1 \in DOMAIN saved /\ Tail(saved)[k] = saved[k + 1]
  BY <1>1, PopFront
<1>3. h.nbBin \in 0 .. NbBin /\ h.nbNotBin \in 0 .. NbNotBin /\ h.isSat \in SUBSET Clauses
  BY <1>2 DEF T
<1> HIDE DEF h
<1>4. /\ UNCHANGED << pc, data, i >>
      /\ nbNotBin' = h.nbNotBin /\ nbBin' = h.nbBin /\ isSat' = h.isSat
      /\ saved' = Tail(saved)
      /\ bin' = notBin - h.nbBin
  BY <1>1, <1>3 DEF PostUpdate, RestoredBin, h
<1>5. OccTypeOK'
  BY <1>1, <1>2, <1>3, <1>4 DEF OccTypeOK, T
<1>6. Permutation'
  BY <1>4 DEF Permutation
<1>7. At(notBin - h.nbBin, notBin + h.nbNotBin) = Clauses \ h.isSat
  BY <1>2 DEF SavedExact
<1>8. LoopInv'
  <2>1. At(bin, notBin + nbNotBin)' = Clauses \ h.isSat
    BY <1>4, <1>7 DEF At
  <2>2. pc' = "idle" /\ bin' + nbBin' = notBin
    BY <1>1, <1>3, <1>4
  <2> QED
    BY <1>4, <2>1, <2>2 DEF LoopInv
<1>9. Nested'
  <2>1. ASSUME NEW k \in DOMAIN saved'
        PROVE  notBin - saved'[k].nbBin <= bin' /\ nbNotBin' <= saved'[k].nbNotBin
    <3>1. k \in Nat /\ k + 1 \in DOMAIN saved /\ saved'[k] = saved[k + 1] /\ 1 <= k + 1
      BY <1>2, <1>4
    <3>2. h.nbBin <= saved[k + 1].nbBin /\ h.nbNotBin <= saved[k + 1].nbNotBin
      BY <1>2, <3>1 DEF Nested
    <3>3. saved[k + 1].nbBin \in Nat /\ saved[k + 1].nbNotBin \in Nat
      BY <3>1, SavedType
    <3> QED
      BY <1>3, <1>4, <3>1, <3>2, <3>3
  <2>2. ASSUME NEW j \in DOMAIN saved', NEW k \in DOMAIN saved', j <= k
        PROVE  /\ saved'[j].nbBin <= saved'[k].nbBin
               /\ saved'[j].nbNotBin <= saved'[k].nbNotBin
    <3>1. /\ k \in Nat /\ k + 1 \in DOMAIN saved /\ saved'[k] = saved[k + 1]
          /\ j \in Nat /\ j + 1 \in DOMAIN saved /\ saved'[j] = saved[j + 1]
          /\ j + 1 <= k + 1
      BY <1>2, <1>4, <2>2
    <3> QED
      BY <3>1 DEF Nested
  <2> QED
    BY <2>1, <2>2 DEF Nested
<1>10. SavedExact'
  BY <1>2, <1>4 DEF SavedExact, At
<1> QED
  BY <1>5, <1>6, <1>8, <1>9, <1>10

(* Every step keeps the inductive invariant. *)
LEMMA OccNextInv == OccInv /\ [OccNext]_occVars => OccInv'
<1> SUFFICES ASSUME OccInv, [OccNext]_occVars PROVE OccInv'
  OBVIOUS
<1>1. CASE UNCHANGED occVars
  <2>1. OccTypeOK' /\ Permutation'
    BY <1>1 DEF occVars, OccInv, OccTypeOK, Permutation
  <2>2. LoopInv' /\ Nested' /\ SavedExact'
    BY <1>1 DEF occVars, OccInv, LoopInv, Nested, SavedExact, At
  <2> QED
    BY <2>1, <2>2 DEF OccInv
<1>2. ASSUME NEW S \in SUBSET At(bin, notBin + nbNotBin),
             PreUpdate(S) \/ Inprocessing(S)
      PROVE  OccInv'
  BY <1>2, PreUpdateInv, InprocessingInv
<1>3. CASE PreUpdateTrue \/ PostUpdate
  BY <1>3, PreUpdateTrueInv, PostUpdateInv
<1>4. CASE StepNotBin \/ EndNotBin \/ StepBin \/ EndBin
  BY <1>4, StepNotBinInv, EndNotBinInv, StepBinInv, EndBinInv
<1> QED
  BY <1>1, <1>2, <1>3, <1>4 DEF OccNext

(***************************************************************************)
(* OccInv holds in every state of the list.                                *)
(***************************************************************************)
THEOREM OccInvariant == OccSpec => []OccInv
  BY OccInitInv, OccNextInv, PTL DEF OccSpec

(***************************************************************************)
(* Type correctness: no index of the two loops leaves the array.           *)
(***************************************************************************)
THEOREM OccTypeCorrect == OccSpec => []OccTypeOK
<1>1. OccInv => OccTypeOK
  BY DEF OccInv
<1> QED
  BY <1>1, OccInvariant, PTL

(***************************************************************************)
(* Between two calls the list holds exactly the clauses not satisfied.     *)
(***************************************************************************)
THEOREM OccListExact == OccSpec => []ListExact
<1>1. OccInv => ListExact
  <2> SUFFICES ASSUME OccInv, pc = "idle"
               PROVE  /\ bin + nbBin = notBin
                      /\ At(bin, notBin + nbNotBin) = Clauses \ isSat
    BY DEF ListExact
  <2>1. /\ bin \in Nat /\ nbNotBin \in Nat /\ nbNotBin <= NbNotBin
        /\ data \in [Clauses -> Clauses] /\ bin <= notBin
    BY ConstantTypes DEF OccInv, OccTypeOK
  <2>2. At(bin, notBin + nbNotBin) \subseteq Clauses
    BY <2>1, ConstantTypes DEF At
  <2> QED
    BY <2>2 DEF OccInv, LoopInv
<1> QED
  BY <1>1, OccInvariant, PTL

(***************************************************************************)
(* The two counters of a saved level delimit the clauses not satisfied     *)
(* then, however the array was shuffled since.                             *)
(***************************************************************************)
THEOREM OccSavedExact == OccSpec => []SavedExact
<1>1. OccInv => SavedExact
  BY DEF OccInv
<1> QED
  BY <1>1, OccInvariant, PTL

------------------------------------------------------------------------------
(* The refinement mapping of BS: the set, and the sets saved. *)
Content == At(bin, notBin + nbNotBin)
Stack == [k \in DOMAIN saved |->
            At(notBin - saved[k].nbBin, notBin + saved[k].nbNotBin)]

(* What the saved sets are does not depend on the array. *)
LEMMA StackForm ==
  OccInv => Stack = [k \in DOMAIN saved |-> Clauses \ saved[k].isSat]
  BY DEF OccInv, SavedExact, Stack

(* The sets the saved levels stand for, after a step. *)
LEMMA StackFormNext ==
  OccInv' => Stack' = [k \in DOMAIN saved' |-> Clauses \ saved'[k].isSat]
  BY DEF OccInv, SavedExact, Stack, At, Clauses, notBin

(* A range with a later start and an earlier end is inside the other. *)
LEMMA RangeShrinks ==
  ASSUME NEW a \in Nat, NEW b \in Nat, NEW c \in Nat, NEW d \in Nat, NEW n \in Nat,
         a <= c, d <= b
  PROVE  \A r \in c .. ((n + d) - 1) : r \in a .. ((n + b) - 1)
  OBVIOUS

(* A swap inside the range, then a smaller range: no clause comes in. *)
LEMMA SwapShrinks ==
  ASSUME OccInv, NEW p \in bin .. ((notBin + nbNotBin) - 1),
         NEW q \in bin .. ((notBin + nbNotBin) - 1),
         data' = Swapped(p, q), saved' = saved,
         bin' \in Nat, nbNotBin' \in Nat, bin <= bin', nbNotBin' <= nbNotBin
  PROVE  Content' \subseteq Content
<1>1. /\ bin \in Nat /\ nbNotBin \in Nat /\ data \in [Clauses -> Clauses]
      /\ nbNotBin <= NbNotBin /\ bin <= notBin
  BY ConstantTypes DEF OccInv, OccTypeOK
<1>2. /\ data'[p] = data[q] /\ data'[q] = data[p]
      /\ \A r \in Clauses : r # p /\ r # q => data'[r] = data[r]
  BY RemovalKeepsSaved
<1>3. \A r \in bin' .. ((notBin + nbNotBin') - 1) : r \in bin .. ((notBin + nbNotBin) - 1)
  BY <1>1, ConstantTypes, RangeShrinks
<1>4. \A r \in bin .. ((notBin + nbNotBin) - 1) : r \in Clauses
  BY <1>1, ConstantTypes
<1>5. ASSUME NEW r \in bin' .. ((notBin + nbNotBin') - 1)
      PROVE  \E s \in bin .. ((notBin + nbNotBin) - 1) : data'[r] = data[s]
  BY <1>2, <1>3, <1>4
<1> QED
  BY <1>5 DEF Content, At

(* No step of the loops adds a clause to the range. *)
LEMMA ShrinkStep ==
  ASSUME OccInv, StepNotBin \/ EndNotBin \/ StepBin \/ EndBin \/ UNCHANGED occVars
  PROVE  Content' \subseteq Content /\ saved' = saved
<1> USE ConstantTypes DEF OccInv
<1>1. /\ bin \in Nat /\ nbNotBin \in Nat /\ data \in [Clauses -> Clauses]
      /\ nbNotBin <= NbNotBin /\ bin <= notBin
  BY DEF OccTypeOK
<1>2. CASE UNCHANGED << data, bin, nbNotBin, saved >>
  BY <1>2 DEF Content, At
<1>4. CASE StepNotBin
  <2>1. CASE UNCHANGED << data, nbNotBin >>
    BY <1>2, <1>4, <2>1 DEF StepNotBin
  <2>2. CASE /\ data' = Swapped(notBin + i, (notBin + nbNotBin) - 1)
             /\ nbNotBin' = nbNotBin - 1
    <3>1. i \in Nat /\ i < nbNotBin /\ bin' = bin /\ saved' = saved
      BY <1>4 DEF StepNotBin, LoopInv
    <3> QED
      BY <1>1, <2>2, <3>1, SwapShrinks
  <2> QED
    BY <1>4, <2>1, <2>2 DEF StepNotBin
<1>5. CASE StepBin
  <2>1. CASE UNCHANGED << data, bin >>
    BY <1>2, <1>5, <2>1 DEF StepBin
  <2>2. CASE data' = Swapped(i, bin) /\ bin' = bin + 1
    <3>1. i \in Nat /\ bin <= i /\ i < notBin /\ nbNotBin' = nbNotBin /\ saved' = saved
      BY <1>1, <1>5 DEF StepBin, LoopInv
    <3> QED
      BY <1>1, <2>2, <3>1, SwapShrinks
  <2> QED
    BY <1>5, <2>1, <2>2 DEF StepBin
<1>6. CASE EndNotBin \/ EndBin \/ UNCHANGED occVars
  BY <1>2, <1>6 DEF EndNotBin, EndBin, occVars
<1> QED
  BY <1>4, <1>5, <1>6

(* propagateTrue empties the list. *)
LEMMA CleanStep ==
  ASSUME OccInv, PreUpdateTrue
  PROVE  Content' \subseteq Content
<1>1. /\ bin' = notBin /\ nbNotBin' = 0 /\ notBin \in Nat
  BY ConstantTypes DEF OccInv, LoopInv, PreUpdateTrue
<1>2. bin' .. ((notBin + nbNotBin') - 1) = {}
  BY <1>1
<1> QED
  BY <1>2 DEF Content, At

(* Between two calls the set is the clauses not satisfied. *)
LEMMA OccContent == ASSUME OccInv, pc = "idle" PROVE Content = Clauses \ isSat
<1>1. /\ bin \in Nat /\ nbNotBin \in Nat /\ nbNotBin <= NbNotBin
      /\ data \in [Clauses -> Clauses] /\ bin <= notBin
  BY ConstantTypes DEF OccInv, OccTypeOK
<1>2. At(bin, notBin + nbNotBin) \subseteq Clauses
  BY <1>1, ConstantTypes DEF At
<1> QED
  BY <1>2 DEF OccInv, LoopInv, Content

(* Between two calls the range holds the clauses not satisfied, after a step. *)
LEMMA OccContentNext ==
  ASSUME OccInv', pc' = "idle" PROVE Content' = Clauses \ isSat'
<1>1. (OccInv /\ pc = "idle" => Content = Clauses \ isSat)'
  BY OccContent, PTL
<1> QED
  BY <1>1

(* A step that saves a level pushes the set as it is. *)
LEMMA PushStep ==
  ASSUME OccInv, OccInv', pc = "idle", saved' = SavedState \o saved
  PROVE  Stack' = << Content >> \o Stack
<1> DEFINE e == [nbBin |-> nbBin, nbNotBin |-> nbNotBin, isSat |-> isSat]
           T == [nbBin : 0 .. NbBin, nbNotBin : 0 .. NbNotBin,
                 isSat : SUBSET Clauses]
<1>1. Content = Clauses \ isSat
  BY OccContent
<1>2. saved \in Seq(T) /\ e \in T /\ e.isSat = isSat /\ saved' = << e >> \o saved
  BY DEF OccInv, OccTypeOK, SavedState
<1> HIDE DEF e, T
<1>3. /\ DOMAIN saved' = 1 .. (Len(saved) + 1)
      /\ saved'[1] = e
      /\ \A k \in 2 .. (Len(saved) + 1) :
           k - 1 \in DOMAIN saved /\ saved'[k] = saved[k - 1]
  BY <1>2, PushFront
<1>4. Len(saved) \in Nat /\ DOMAIN saved = 1 .. Len(saved)
  BY <1>2
<1>5. /\ Stack = [k \in 1 .. Len(saved) |-> Clauses \ saved[k].isSat]
      /\ Stack' = [k \in 1 .. (Len(saved) + 1) |-> Clauses \ saved'[k].isSat]
  <2>1. Stack = [k \in DOMAIN saved |-> Clauses \ saved[k].isSat]
    BY StackForm
  <2>2. Stack' = [k \in DOMAIN saved' |-> Clauses \ saved'[k].isSat]
    BY StackFormNext
  <2> QED
    BY <1>3, <1>4, <2>1, <2>2
<1>6. Stack \in Seq(SUBSET Clauses) /\ Len(Stack) = Len(saved) /\ Content \in SUBSET Clauses
  BY <1>1, <1>4, <1>5
<1>7. /\ << Content >> \o Stack \in Seq(SUBSET Clauses)
      /\ DOMAIN (<< Content >> \o Stack) = 1 .. (Len(saved) + 1)
      /\ (<< Content >> \o Stack)[1] = Content
      /\ \A k \in 2 .. (Len(saved) + 1) : (<< Content >> \o Stack)[k] = Stack[k - 1]
  BY <1>6, PushFront
<1>8. ASSUME NEW k \in 1 .. (Len(saved) + 1)
      PROVE  Stack'[k] = (<< Content >> \o Stack)[k]
  <2>1. CASE k = 1
    BY <1>1, <1>2, <1>3, <1>5, <1>7, <2>1
  <2>2. CASE k # 1
    <3>1. k \in 2 .. (Len(saved) + 1) /\ k - 1 \in 1 .. Len(saved)
      BY <1>4, <2>2
    <3> QED
      BY <1>3, <1>5, <1>7, <3>1
  <2> QED
    BY <2>1, <2>2
<1>9. Stack' = [k \in 1 .. (Len(saved) + 1) |-> Stack'[k]]
  BY <1>5
<1>10. << Content >> \o Stack
         = [k \in 1 .. (Len(saved) + 1) |-> (<< Content >> \o Stack)[k]]
  BY <1>7
<1> QED
  BY <1>8, <1>9, <1>10

(* A sequence is the function of its elements. *)
LEMMA SequenceIsFunction ==
  ASSUME NEW T, NEW s \in Seq(T) PROVE s = [k \in DOMAIN s |-> s[k]]
  OBVIOUS

(* postUpdate brings back the set saved last, and forgets it. *)
LEMMA PopStep ==
  ASSUME OccInv, OccInv', PostUpdate
  PROVE  Stack # << >> /\ Content' = Head(Stack) /\ Stack' = Tail(Stack)
<1> DEFINE T == [nbBin : 0 .. NbBin, nbNotBin : 0 .. NbNotBin,
                 isSat : SUBSET Clauses]
           h == Head(saved)
<1>1. saved \in Seq(T) /\ saved # << >> /\ saved' = Tail(saved) /\ isSat' = h.isSat
  BY DEF OccInv, OccTypeOK, PostUpdate
<1>2. pc' = "idle"
  BY DEF PostUpdate
<1> HIDE DEF T
<1>3. /\ h = saved[1] /\ 1 \in DOMAIN saved
      /\ Tail(saved) \in Seq(T)
      /\ \A k \in DOMAIN Tail(saved) :
           k \in Nat /\ k + 1 \in DOMAIN saved /\ Tail(saved)[k] = saved[k + 1]
  BY <1>1, PopFront
<1> HIDE DEF h
<1>4. /\ Len(saved) \in Nat \ {0} /\ DOMAIN saved = 1 .. Len(saved)
      /\ DOMAIN Tail(saved) = 1 .. (Len(saved) - 1)
  BY <1>1
<1>5. Content' = Clauses \ h.isSat
  <2>1. Content' = Clauses \ isSat'
    BY <1>2, OccContentNext
  <2> QED
    BY <1>1, <2>1
<1>6. Stack = [k \in 1 .. Len(saved) |-> Clauses \ saved[k].isSat]
  BY <1>4, StackForm
<1>7. Stack' = [k \in 1 .. (Len(saved) - 1) |-> Clauses \ saved'[k].isSat]
  BY <1>1, <1>4, StackFormNext
<1>8. Stack \in Seq(SUBSET Clauses) /\ Len(Stack) = Len(saved) /\ Stack # << >>
  BY <1>4, <1>6
<1>9. /\ Head(Stack) = Stack[1]
      /\ Tail(Stack) \in Seq(SUBSET Clauses)
      /\ \A k \in DOMAIN Tail(Stack) : Tail(Stack)[k] = Stack[k + 1]
  BY <1>8, PopFront
<1>10. DOMAIN Tail(Stack) = 1 .. (Len(saved) - 1)
  BY <1>4, <1>8
<1>11. ASSUME NEW k \in 1 .. (Len(saved) - 1)
       PROVE  Stack'[k] = Tail(Stack)[k]
  <2>1. k \in Nat /\ k + 1 \in 1 .. Len(saved) /\ saved'[k] = saved[k + 1]
    BY <1>1, <1>3, <1>4
  <2> QED
    BY <1>6, <1>7, <1>9, <1>10, <2>1
<1>12. Tail(Stack) = [k \in 1 .. (Len(saved) - 1) |-> Tail(Stack)[k]]
  BY <1>9, <1>10, SequenceIsFunction
<1>13. Stack' = [k \in 1 .. (Len(saved) - 1) |-> Stack'[k]]
  BY <1>7
<1>14. Content' = Head(Stack)
  BY <1>3, <1>4, <1>5, <1>6, <1>9
<1> QED
  BY <1>8, <1>11, <1>12, <1>13, <1>14

(***************************************************************************)
(* The array with its two counters implements a set that backtracks: every *)
(* step of the list is a step of BacktrackableSet or leaves both its       *)
(* content and the saved sets alone.                                       *)
(***************************************************************************)
THEOREM OccBacktracks == OccSpec => Backtracks
<1>1. OccInit => BS!SetInit
  <2> SUFFICES ASSUME OccInit PROVE Content = Clauses /\ Stack = << >>
    BY DEF BS!SetInit, Content, Stack
  <2>1. OccInv /\ pc = "idle" /\ isSat = {} /\ saved = << >>
    BY OccInitInv DEF OccInit
  <2> QED
    BY <2>1, OccContent DEF Stack
<1>2. ASSUME OccInv, OccInv', [OccNext]_occVars
      PROVE  [BS!SetNext]_(BS!setVars)
  <2>1. ASSUME Content' \subseteq Content, saved' = saved
        PROVE  BS!Shrink
    <3>1. Stack' = Stack
      <4>1. Stack = [k \in DOMAIN saved |-> Clauses \ saved[k].isSat]
        BY <1>2, StackForm
      <4>2. Stack' = [k \in DOMAIN saved' |-> Clauses \ saved'[k].isSat]
        BY <1>2, StackFormNext
      <4> QED
        BY <2>1, <4>1, <4>2
    <3> QED
      BY <2>1, <3>1 DEF BS!Shrink, Content, Stack
  <2>2. ASSUME Content' \subseteq Content, pc = "idle", saved' = SavedState \o saved
        PROVE  BS!SaveAndShrink
    <3>1. Stack' = << Content >> \o Stack
      BY <1>2, <2>2, PushStep
    <3> QED
      BY <2>2, <3>1 DEF BS!SaveAndShrink, Content, Stack
  <2>3. CASE StepNotBin \/ EndNotBin \/ StepBin \/ EndBin \/ UNCHANGED occVars
    BY <1>2, <2>1, <2>3, ShrinkStep DEF BS!SetNext
  <2>4. ASSUME NEW S, PreUpdate(S)
        PROVE  BS!SaveAndShrink
    <3>1. Content' = Content
      BY <2>4 DEF PreUpdate, RemoveSatisfied, Content, At
    <3> QED
      BY <2>2, <2>4, <3>1 DEF PreUpdate
  <2>5. ASSUME NEW S, Inprocessing(S)
        PROVE  BS!Shrink
    <3>1. Content' = Content
      BY <2>5 DEF Inprocessing, RemoveSatisfied, Content, At
    <3> QED
      BY <2>1, <2>5, <3>1 DEF Inprocessing
  <2>6. CASE PreUpdateTrue
    <3>1. Content' \subseteq Content
      BY <1>2, <2>6, CleanStep
    <3> QED
      BY <2>2, <2>6, <3>1 DEF PreUpdateTrue, BS!SetNext
  <2>7. CASE PostUpdate
    <3>1. Stack # << >> /\ Content' = Head(Stack) /\ Stack' = Tail(Stack)
      BY <1>2, <2>7, PopStep
    <3>2. BS!Restore
      BY <3>1 DEF BS!Restore, Content, Stack
    <3> QED
      BY <3>2 DEF BS!SetNext
  <2> QED
    BY <1>2, <2>3, <2>4, <2>5, <2>6, <2>7 DEF OccNext, BS!SetNext
<1> QED
  BY <1>1, <1>2, OccInvariant, PTL DEF OccSpec, Backtracks, BS!SetSpec
=============================================================================
