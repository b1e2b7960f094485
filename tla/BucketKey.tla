------------------------------ MODULE BucketKey ------------------------------
(***************************************************************************)
(* The keys of the component cache: the bytes that storeFormula writes for *)
(* a component in src/src/caching/bucket/cnf/, for the representations by  *)
(* clauses (BucketManagerCnfCl.hpp), up to renaming                        *)
(* (BucketManagerCnfSym.hpp), by indices (BucketManagerCnfIndex.hpp) and   *)
(* the mixed one (BucketManagerCnfCombi.hpp).                              *)
(*                                                                         *)
(* A literal is its intern number, 2v for v and 2v + 1 for its negation.   *)
(* Memory is the set of the bits that are 1, each a pair << byte, bit >>.  *)
(* The scratch arrays of the manager live from one call to the next and    *)
(* are variables.  The allocator hands out recycled memory: what it holds  *)
(* before the call, and in the byte after the block, is arbitrary.         *)
(***************************************************************************)
EXTENDS Integers, FiniteSets, Sequences, SequencesExt, FiniteSetsExt

CONSTANTS
  NbVarCnf,        \* m_nbVarCnf
  Problems,        \* a formula, the mode and the representation of its keys
  Orders,          \* the orders in which occurrence lists hold the clauses
  LimitNbVarSym,   \* m_limitNbVarSym
  LimitNbVarIndex, \* m_limitNbVarIndex
  MaxCalls         \* bound: calls of storeFormula

VarOf(l) == l \div 2
Neg(l) == IF l % 2 = 0 THEN l + 1 ELSE l - 1
Lit == 2 .. 2 * NbVarCnf + 1
VarsOf(c) == {VarOf(l) : l \in c}

(* The elements of a set of numbers up to "bound", in ascending order. *)
Ascending(S, bound) ==
  SelectSeq([k \in 1 .. bound + 1 |-> k - 1], LAMBDA x : x \in S)

ASSUME KeyAssumption ==
  \A p \in Problems :
    /\ IsFiniteSet(DOMAIN p.clauses) /\ DOMAIN p.clauses \subseteq Nat
    /\ \A idx \in DOMAIN p.clauses : p.clauses[idx] \subseteq Lit
    /\ p.mode \in {"all", "not-touched", "not-binary"}
    /\ p.representation \in {"clause", "sym", "index", "combi"}
    /\ \A o \in Orders : ToSet(o) = DOMAIN p.clauses

VARIABLES
  problem,           \* never changes
  nbCalls,           \* the calls of storeFormula so far
  previous,          \* what the call before the last one stored
  bucket,            \* m_bucket: what the last call stored
  m_markIdx,         \* the bucket each clause is in while they are sorted
  markedAsRedundant, \* the positions of the clauses stored already
  shiftedSizeClause  \* the sizes of the clauses, by position

keyVars == << problem, nbCalls, previous, bucket,
              m_markIdx, markedAsRedundant, shiftedSizeClause >>

Clauses == DOMAIN problem.clauses
MaxSizeClause == Max({Cardinality(problem.clauses[idx]) : idx \in Clauses})
Positions == 0 .. Cardinality(Clauses) - 1
NoBucket == 0
None == [header |-> << 0, 0, 0, 0 >>]

------------------------------------------------------------------------------
(* The residual formula under an assignment, a set of true literals. *)

Undef(l, value) == l \notin value /\ Neg(l) \notin value
Residual(idx, value) == {l \in problem.clauses[idx] : Undef(l, value)}
NotSatisfied(value) == {idx \in Clauses : problem.clauses[idx] \cap value = {}}
ActiveIn(comp, value) ==
  {idx \in NotSatisfied(value) : VarsOf(Residual(idx, value)) \cap comp # {}}

(* BucketManagerCnf::isKeptClause. *)
IsKeptClause(idx, value) ==
  CASE problem.mode = "not-touched" -> \E l \in problem.clauses[idx] : Neg(l) \in value
    [] problem.mode = "not-binary" -> Cardinality(problem.clauses[idx]) > 2
    [] OTHER -> TRUE

(* getVecIdxClause: the lists of a literal that hold the clause. *)
Listed(idx) ==
  CASE problem.mode = "not-touched" -> Cardinality(problem.clauses[idx]) > 2
    [] problem.mode = "not-binary" -> Cardinality(problem.clauses[idx]) = 2
    [] OTHER -> TRUE

(* What the manager storeFormula is called on, or the one it hands it to. *)
Representation(size) ==
  IF problem.representation # "combi" THEN problem.representation
  ELSE IF size < LimitNbVarSym THEN "sym"
  ELSE IF size > LimitNbVarIndex THEN "index" ELSE "clause"

(***************************************************************************)
(* What storeFormula is called with: an assignment closed under unit       *)
(* propagation, and a component of the residual formula, in ascending      *)
(* order.                                                                  *)
(***************************************************************************)
Quiescent(value) ==
  \A idx \in NotSatisfied(value) : Cardinality(Residual(idx, value)) >= 2
Closed(comp, value) ==
  \A idx \in ActiveIn(comp, value) : VarsOf(Residual(idx, value)) \subseteq comp
ComponentsOf(value) ==
  LET active == UNION {VarsOf(Residual(idx, value)) : idx \in NotSatisfied(value)}
      closed == {s \in SUBSET active \ {{}} : Closed(s, value)}
  IN {s \in closed : \A t \in closed : t \subseteq s => t = s}
ValuesOf ==
  LET V == UNION {VarsOf(problem.clauses[idx]) : idx \in Clauses} IN
  {{2 * v + s[v] : v \in {w \in V : s[w] < 2}} : s \in [V -> 0 .. 2]}
Calls ==
  UNION {{[component |-> Ascending(s, NbVarCnf), value |-> value] : s \in ComponentsOf(value)} :
           value \in {x \in ValuesOf : Quiescent(x)}}

------------------------------------------------------------------------------
(* Memory. *)

Bits(val) == {k \in 0 .. 30 : (val \div 2^k) % 2 = 1}
Clear(mem, first, size) == {x \in mem : x[1] \notin first .. first + size - 1}

(***************************************************************************)
(* addElementInData at the bit "off" of the block: the loop fills bytes    *)
(* from the low bits of val, the rest of val goes to the high bits left.   *)
(***************************************************************************)
AddElementInData(off, val, nbBit) ==
  LET room == 8 - (off % 8)
      full == IF nbBit < room THEN 0 ELSE room + 8 * ((nbBit - room) \div 8)
      last == off + full
      shift == 8 - (last % 8) - (nbBit - full)
  IN {<< (off + k) \div 8, IF k < room THEN k ELSE (off + k) % 8 >> :
        k \in {k \in Bits(val) : k < full}}
     \cup {<< last \div 8, k - full + shift >> :
             k \in {k \in Bits(val) : /\ nbBit > full
                                      /\ k >= full /\ k - full + shift < 8}}

(* An array of type U, of "octets" bytes: its element at the byte "off". *)
StoreElement(mem, off, val, octets) ==
  Clear(mem, off, octets)
    \cup {<< off + k \div 8, k % 8 >> : k \in {k \in Bits(val) : k < 8 * octets}}
StoreArray(mem, off, vals, octets) ==
  FoldLeftDomain(LAMBDA m, k : StoreElement(m, off + (k - 1) * octets, vals[k], octets),
                 mem, vals)

NbOctetToEncodeInt(v) == IF v < 2^8 THEN 1 ELSE IF v < 2^16 THEN 2 ELSE 4
NbBitUnsigned(v) == IF v = 0 THEN 1 ELSE CHOOSE n \in 1 .. 31 : n - 1 = Max(Bits(v))

------------------------------------------------------------------------------
(* Sorting the clauses of the component. *)

BucketSortInfo(s, e) == [start |-> s, end |-> e, counter |-> 0, redirected |-> NoBucket]

(* The body of the loop of createDistribWrTLit on the clause idx. *)
Visit(s, idx) ==
  LET b == s.mark[idx]
      t == IF b # NoBucket /\ s.vec[b].counter = 0
           THEN [s EXCEPT !.vec[b].redirected = Len(s.vec) + Len(s.split) + 1,
                          !.split = Append(@, b)]
           ELSE s
  IN IF b = NoBucket
     THEN [s EXCEPT !.size[idx] = 1, !.mustUnMark = @ \cup {idx}, !.mark[idx] = s.own,
                    !.tab = Append(@, s.nbClause + s.counter), !.counter = @ + 1]
     ELSE [t EXCEPT !.size[idx] = @ + 1, !.mark[idx] = t.vec[b].redirected,
                    !.tab = Append(@, t.vec[b].start + t.vec[b].counter),
                    !.vec[b].counter = @ + 1]

(* Mutant of Split: the bucket that was split keeps its start. *)
SplitInPlace(vec, split) ==
  [b \in DOMAIN vec |-> [vec[b] EXCEPT !.counter = 0]]
    \o [k \in DOMAIN split |->
          BucketSortInfo(vec[split[k]].start,
                         vec[split[k]].start + vec[split[k]].counter)]

(* The buckets are split: the clauses with the literal come first. *)
Split(vec, split) ==
  [b \in DOMAIN vec |-> [vec[b] EXCEPT !.start = @ + vec[b].counter, !.counter = 0]]
    \o [k \in DOMAIN split |->
          BucketSortInfo(vec[split[k]].start,
                         vec[split[k]].start + vec[split[k]].counter)]

(* getIdxBucketSortInfo, then the loop of createDistribWrTLit on the list. *)
Visited(d, list) ==
  LET new == d.unused = NoBucket
  IN FoldLeft(Visit,
              [vec |-> IF new THEN Append(d.vec, BucketSortInfo(d.nbClause, d.nbClause))
                       ELSE d.vec,
               own |-> IF new THEN Len(d.vec) + 1 ELSE d.unused,
               split |-> << >>, tab |-> << >>, counter |-> 0, nbClause |-> d.nbClause,
               mark |-> d.mark, mustUnMark |-> d.mustUnMark, size |-> d.size], list)

(* The rest of createDistribWrTLit for the literal l. *)
Distributed(d, l, s) ==
  LET done == Split(s.vec, s.split)
  IN [d EXCEPT
        !.vec = IF s.counter = 0 THEN done
                ELSE [done EXCEPT ![s.own] =
                        BucketSortInfo(d.nbClause, d.nbClause + s.counter)],
        !.unused = IF s.counter = 0 THEN s.own ELSE NoBucket,
        !.nbClause = @ + s.counter,
        !.mark = s.mark, !.mustUnMark = s.mustUnMark, !.size = s.size,
        !.distrib = IF s.tab = << >> THEN @
                    ELSE Append(@, [lit |-> l, tab |-> SortSeq(s.tab, <)])]

CreateDistribWrTLit(d, l, list) == Distributed(d, l, Visited(d, list))

(* The list of the literal l that the representation r goes through. *)
ListOf(c, l, order, r) ==
  SelectSeq(order, LAMBDA idx : /\ l \in problem.clauses[idx]
                                /\ idx \in NotSatisfied(c.value)
                                /\ r = "clause" => /\ Listed(idx)
                                                   /\ IsKeptClause(idx, c.value))

(* The first loop of collectDistrib. *)
Sorted(c, order, r) ==
  LET lits == FlattenSeq([k \in DOMAIN c.component |->
                            << 2 * c.component[k] + 1, 2 * c.component[k] >>])
  IN FoldLeft(LAMBDA d, l : CreateDistribWrTLit(d, l, ListOf(c, l, order, r)),
              [vec |-> << >>, unused |-> NoBucket, nbClause |-> 0, mark |-> m_markIdx,
               mustUnMark |-> {}, size |-> [idx \in Clauses |-> 0], distrib |-> << >>],
              lits)

(* Mutant of UnMark: of equal clauses, only one is taken out. *)
UnMarkKept(d) ==
  [idx \in Clauses |-> IF \E j \in d.mustUnMark : j < idx /\ d.mark[j] = d.mark[idx]
                       THEN d.mark[idx] ELSE NoBucket]

UnMark(d) ==
  [idx \in Clauses |-> IF idx \in d.mustUnMark THEN NoBucket ELSE d.mark[idx]]

(***************************************************************************)
(* The rest of collectDistrib: of the clauses left in one bucket, which    *)
(* are equal, all but the first are redundant; the others move up.         *)
(***************************************************************************)
WithoutRedundant(d) ==
  LET b(idx) == d.vec[d.mark[idx]]
      redundant == {j \in Positions : \/ j \in markedAsRedundant
                                      \/ \E idx \in d.mustUnMark :
                                           b(idx).start < j /\ j < b(idx).end}
      size == [i \in Positions |->
                 IF \E idx \in d.mustUnMark : b(idx).start = i
                 THEN d.size[CHOOSE idx \in d.mustUnMark : b(idx).start = i]
                 ELSE shiftedSizeClause[i]]
      kept == Ascending(Positions \ redundant, d.nbClause - 1)
      sizeDistrib == FoldLeft(LAMBDA n, e : n + 2 + Len(e.tab), 0, d.distrib)
  IN [nbClause |-> Len(kept),
      distrib |-> d.distrib,
      shiftedIndex |-> [i \in 0 .. d.nbClause - 1 |->
                          IF i \in redundant THEN sizeDistrib
                          ELSE (CHOOSE k \in DOMAIN kept : kept[k] = i) - 1],
      shiftedSize |-> [i \in Positions |-> IF i < Len(kept) THEN size[kept[i + 1]]
                                           ELSE size[i]],
      markIdx |-> UnMark(d),
      redundant |-> {j \in redundant : j >= d.nbClause}]

CollectDistrib(c, order, r) == WithoutRedundant(Sorted(c, order, r))

(* distribDiffSize, and the sizes it counts, smallest first. *)
DistribDiffSize(d, i) == Cardinality({k \in 0 .. d.nbClause - 1 : d.shiftedSize[k] = i})
SizesOf(d) == Ascending({d.shiftedSize[k] : k \in 0 .. d.nbClause - 1}, MaxSizeClause)
NbLitOf(d) == FoldLeft(LAMBDA n, i : n + i * DistribDiffSize(d, i), 0, SizesOf(d))

(***************************************************************************)
(* Where storeClauses puts its clauses: by size, "gap" before the ones of  *)
(* each size, "unit" for a literal.                                        *)
(***************************************************************************)
OffsetClauses(d, start, unit, gap) ==
  [k \in 0 .. d.nbClause - 1 |->
     start + gap
       + FoldLeft(LAMBDA n, i : IF i < d.shiftedSize[k]
                                THEN n + gap + DistribDiffSize(d, i) * i * unit ELSE n,
                  0, SizesOf(d))
       + Cardinality({j \in 0 .. k - 1 : d.shiftedSize[j] = d.shiftedSize[k]})
           * d.shiftedSize[k] * unit]

(* The literals written for the clause at the position k, in this order. *)
LitsOf(d, k) ==
  LET es == SelectSeq(d.distrib, LAMBDA e : \E x \in DOMAIN e.tab :
                                              d.shiftedIndex[e.tab[x]] = k)
  IN [x \in DOMAIN es |-> es[x].lit]

(* m_mapVar: the place of the variable in the component, from 0. *)
MapVar(component, v) == (CHOOSE k \in DOMAIN component : component[k] = v) - 1

------------------------------------------------------------------------------
(* BucketManagerCnfCl: clauses as bits. *)

ComputeNeededBytes(component, d) ==
  LET back == Last(component)
      nbBit == NbBitUnsigned(back)
      asList == 1 + (nbBit * Len(component) - 1) \div 8
      asArray == 1 + (back - 1) \div 8
      nbBitLit == NbBitUnsigned(2 + 2 * Len(component))
  IN [nbBitEltVar |-> IF asArray < asList THEN 0 ELSE nbBit,
      nbByteStoreVar |-> IF asArray < asList THEN asArray ELSE asList,
      nbBitStoreLit |-> nbBitLit,
      nbByteStoreFormula |->
        IF d.nbClause = 0 THEN 0
        ELSE 1 + (nbBitLit * (2 * Len(SizesOf(d)) + NbLitOf(d))) \div 8]

StoreVariables(mem, info, component) ==
  Clear(mem, 0, info.nbByteStoreVar) \cup
    IF info.nbBitEltVar = 0
    THEN {<< component[k] \div 8, component[k] % 8 >> : k \in DOMAIN component}
    ELSE UNION {AddElementInData((k - 1) * info.nbBitEltVar, component[k],
                                 info.nbBitEltVar) : k \in DOMAIN component}

StoreClausesCl(mem, info, component, d) ==
  LET first == 8 * info.nbByteStoreVar
      nbBit == info.nbBitStoreLit
      sizes == SizesOf(d)
      place == OffsetClauses(d, first + Len(sizes) * nbBit, nbBit, nbBit)
      lit(l) == 2 * (MapVar(component, VarOf(l)) + 1) + (l % 2)
  IN Clear(mem, info.nbByteStoreVar, info.nbByteStoreFormula)
     \cup UNION {AddElementInData(first + (k - 1) * nbBit, sizes[k], nbBit) :
                   k \in DOMAIN sizes}
     \cup UNION {UNION {AddElementInData(place[k] + (x - 1) * nbBit,
                                         lit(LitsOf(d, k)[x]), nbBit) :
                          x \in DOMAIN LitsOf(d, k)} : k \in 0 .. d.nbClause - 1}

StoreFormulaCl(component, d, dirty) ==
  LET info == ComputeNeededBytes(component, d)
      szData == info.nbByteStoreVar + info.nbByteStoreFormula
      vars == StoreVariables(dirty, info, component)
  IN [header |-> << szData, Len(component), info.nbBitEltVar, info.nbBitStoreLit >>,
      memory |-> IF d.nbClause = 0 THEN vars
                 ELSE StoreClausesCl(vars, info, component, d)]

------------------------------------------------------------------------------
(* BucketManagerCnfSym: clauses over the places of their variables. *)

StoreFormulaSym(component, d, dirty) ==
  LET sizes == SizesOf(d)
      most == Max({DistribDiffSize(d, sizes[k]) : k \in DOMAIN sizes}
                    \cup ToSet(sizes) \cup {0})
      nbODistrib == NbOctetToEncodeInt(most)
      nbOLit == NbOctetToEncodeInt(2 * Len(component))
      first == nbODistrib * 2 * Len(sizes)
      info == FlattenSeq([k \in DOMAIN sizes |->
                            << sizes[k], DistribDiffSize(d, sizes[k]) >>])
      place == OffsetClauses(d, first, nbOLit, 0)
      lits(k) == [x \in DOMAIN LitsOf(d, k) |->
                    2 * MapVar(component, VarOf(LitsOf(d, k)[x])) + (LitsOf(d, k)[x] % 2)]
  IN [header |-> << first + nbOLit * NbLitOf(d), Len(component), 0,
                    NbBitUnsigned(2 + 2 * Len(component)) >>,
      memory |-> FoldLeft(LAMBDA m, k : StoreArray(m, place[k], lits(k), nbOLit),
                          StoreArray(dirty, 0, info, nbODistrib),
                          [k \in 1 .. d.nbClause |-> k - 1])]

(* BucketManagerCnfIndex: the component and the indices of its clauses. *)
CollectIdActiveClauses(c) ==
  Ascending({idx \in ActiveIn(ToSet(c.component), c.value) : IsKeptClause(idx, c.value)},
            Max(Clauses))
StoreFormulaIndex(c, dirty) ==
  LET idxClauses == CollectIdActiveClauses(c)
      nbOVar == NbOctetToEncodeInt(Last(c.component) + 1)
      nbOData == IF idxClauses = << >> THEN 1 ELSE NbOctetToEncodeInt(Last(idxClauses) + 1)
      szVar == nbOVar * Len(c.component)
  IN [header |-> << szVar + nbOData * Len(idxClauses), Len(c.component), nbOVar, nbOData >>,
      memory |-> StoreArray(StoreArray(dirty, 0, c.component, nbOVar),
                            szVar, idxClauses, nbOData)]

------------------------------------------------------------------------------
(* The block the allocator hands out, and the byte after it. *)
MaxByte == 20    \* bound: more than any block of the instance
Dirty == {{}, (0 .. MaxByte) \X (0 .. 7)}

Init ==
  /\ problem \in Problems
  /\ nbCalls = 0
  /\ previous = None
  /\ bucket = None
  /\ m_markIdx = [idx \in Clauses |-> NoBucket]
  /\ markedAsRedundant = {}
  /\ \E garbage \in {0, 3} : shiftedSizeClause = [i \in Positions |-> garbage]

Stored(c, s, dirty) ==
  [header |-> s.header, call |-> c,
   data |-> {x \in s.memory : x[1] < s.header[1]},
   overrun |-> {x \in s.memory : x[1] >= s.header[1]}
                 # {x \in dirty : x[1] >= s.header[1]}]

(* storeFormula of BucketManagerCnfIndex. *)
StoreIndex(c, dirty) ==
  /\ problem.mode = "all"  \* getCurrentClausesNotBin asserts otherwise
  /\ bucket' = Stored(c, StoreFormulaIndex(c, dirty), dirty)
  /\ UNCHANGED << m_markIdx, markedAsRedundant, shiftedSizeClause >>

(* storeFormula of the two others, with what collectDistrib made. *)
StoreDistrib(c, r, d, dirty) ==
  /\ bucket' = Stored(c, IF r = "clause" THEN StoreFormulaCl(c.component, d, dirty)
                         ELSE StoreFormulaSym(c.component, d, dirty), dirty)
  /\ m_markIdx' = d.markIdx
  /\ markedAsRedundant' = d.redundant
  /\ shiftedSizeClause' =
       [i \in Positions |-> IF i < d.nbClause THEN 0 ELSE d.shiftedSize[i]]

StoreFormula(c, order, dirty) ==
  LET r == Representation(Len(c.component))
  IN /\ nbCalls' = nbCalls + 1
     /\ previous' = bucket
     /\ \/ r = "index" /\ StoreIndex(c, dirty)
        \/ r # "index" /\ StoreDistrib(c, r, CollectDistrib(c, order, r), dirty)
     /\ UNCHANGED problem

Done == nbCalls = MaxCalls /\ UNCHANGED keyVars

CollectBucket ==
  /\ nbCalls < MaxCalls
  /\ \E c \in Calls, order \in Orders, dirty \in Dirty :
       StoreFormula(c, order, dirty)

Next == CollectBucket \/ Done
KeySpec == Init /\ [][Next]_keyVars

------------------------------------------------------------------------------
(* What a key stands for: the clauses of the component that it stores, by  *)
(* their literals, by the places of their variables, or by their indices.  *)
Renamed(component, c) == {2 * MapVar(component, VarOf(l)) + (l % 2) : l \in c}
Meaning(c) ==
  LET comp == ToSet(c.component)
      r == Representation(Len(c.component))
      active == ActiveIn(comp, c.value)
      clauses(S) == {Residual(idx, c.value) : idx \in S}
  IN CASE r = "clause" ->
            << r, comp, clauses({idx \in active : /\ Listed(idx)
                                                  /\ IsKeptClause(idx, c.value)}) >>
       [] r = "sym" ->
            << r, Len(c.component), {Renamed(c.component, x) : x \in clauses(active)} >>
       [] OTHER -> << r, comp, {idx \in active : IsKeptClause(idx, c.value)} >>

SameKey(a, b) == a.header = b.header /\ a.data = b.data

(***************************************************************************)
(* Between two calls no clause is left in a bucket and no position is left *)
(* marked redundant: collectDistrib undoes exactly what it marked, on      *)
(* formulas with and without equal residual clauses.                       *)
(***************************************************************************)
KeyTypeOK ==
  /\ problem \in Problems
  /\ nbCalls \in 0 .. MaxCalls
  /\ \A b \in {previous, bucket} \ {None} :
       /\ b.call \in [component : Seq(1 .. NbVarCnf), value : SUBSET Lit]
       /\ b.data \subseteq (0 .. b.header[1] - 1) \X (0 .. 7)
       /\ b.overrun \in BOOLEAN
  /\ m_markIdx = [idx \in Clauses |-> NoBucket]
  /\ markedAsRedundant = {}
  /\ shiftedSizeClause \in [Positions -> Nat]

(***************************************************************************)
(* The header and the bytes of two keys are the same exactly when the two  *)
(* components have the same clauses, whatever the order of the occurrence  *)
(* lists, the memory handed out and what the call before left behind:      *)
(* the look-up by memcmp neither confuses two components nor misses one.   *)
(***************************************************************************)
KeyExact ==
  previous # None => (SameKey(previous, bucket)
                        <=> Meaning(previous.call) = Meaning(bucket.call))

(***************************************************************************)
(* storeFormula writes inside the block it asked for: "returns the pointer *)
(* just after the end of the data".  The bit of a last variable that is a  *)
(* multiple of 8 is written one byte further.                              *)
(***************************************************************************)
WritesInside == bucket # None => ~bucket.overrun
==============================================================================
