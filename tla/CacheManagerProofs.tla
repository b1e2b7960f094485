------------------------- MODULE CacheManagerProofs -------------------------
(***************************************************************************)
(* The component cache is correct for all residual formulas, all sizes of  *)
(* the memory and of the hash table, and both kinds of table: every block  *)
(* has one holder, its bytes stay those of its key, and a hit is right.    *)
(***************************************************************************)
EXTENDS CacheManager, BucketAllocatorProofs, FiniteSetTheorems, SequenceTheorems

------------------------------------------------------------------------------
(* What the cache uses of the allocator and of sequences. *)

(***************************************************************************)
(* getArray hands out one block of the size asked for, which nobody had,   *)
(* shares no byte with a block in use and lies in a page.                  *)
(***************************************************************************)
LEMMA GetArrayFresh ==
  ASSUME AllocInv, NEW size \in Request, GetArray(size)
  PROVE  \E n \in Blocks :
           /\ live' = live \cup {n}
           /\ n \notin live
           /\ n.size = size
           /\ \A b \in live : Apart(b, n)
<1>1. AllocInv'
  BY GetFromFreeSpaceInv, GetFromPageInv, GetFromNewPageInv DEF GetArray
<1>2. size \in Nat /\ size > 0
  BY RequestType
<1>3. SUFFICES \E n \in Blocks : live' = live \cup {n} /\ n \notin live /\ n.size = size
  BY <1>1, <1>2 DEF AllocInv, NoOverlap, HandedOut
<1>4. CASE GetFromFreeSpace(size)
  <2>1. CASE \E b \in OfSize(size) : live' = live \cup {b}
    BY <2>1 DEF OfSize, AllocInv, NoOverlap, AllocTypeOK
  <2>2. CASE \E b \in OfSize(sizeFreeSpace - 1) :
               live' = live \cup {Block(b.addr, size)} /\ OfSize(size) = {}
    <3>1. PICK b \in m_freeSpace : live' = live \cup {Block(b.addr, size)}
                                   /\ b.size = sizeFreeSpace - 1
                                   /\ OfSize(size) = {}
      BY <2>2 DEF OfSize
    <3> DEFINE n == Block(b.addr, size)
    <3>2. b \in Blocks /\ n \in Blocks /\ n.size = size /\ n.addr = b.addr
      BY <1>2 DEF AllocInv, AllocTypeOK, Block, Blocks
    <3>3. b.size # size /\ b.size > 0
      BY <1>2, <1>4, <3>1, <3>2
         DEF OfSize, GetFromFreeSpace, UseFreeSpace, AllocInv, AllocTypeOK, Blocks
    <3>4. n \notin live
      <4> SUFFICES ASSUME n \in live PROVE FALSE
        OBVIOUS
      <4>1. n # b
        BY <3>2, <3>3
      <4>2. Apart(n, b)
        BY <4>1, <1>2, <3>2, <3>3 DEF AllocInv, NoOverlap
      <4> QED
        BY <4>2, <1>2, <3>2, <3>3 DEF Apart, Blocks
    <3> QED
      BY <3>1, <3>2, <3>4
  <2> QED
    BY <1>4, <2>1, <2>2 DEF GetFromFreeSpace
<1>5. CASE GetFromPage(size)
  <2> DEFINE n == Block(m_data + m_posInData, size)
  <2>1. n \in Blocks /\ n.size = size /\ n.addr = m_data + m_posInData
    BY <1>2 DEF AllocInv, AllocTypeOK, Block, Blocks
  <2>2. n \notin live
    <3> SUFFICES ASSUME n \in live PROVE FALSE
      OBVIOUS
    <3>1. Apart(n, Block(m_data + m_posInData, m_sizeData - m_posInData))
      BY <1>2, <2>1 DEF AllocInv, InsidePages
    <3> QED
      BY <1>2, <1>5, <2>1, <3>1
         DEF Apart, Block, GetFromPage, AllocInv, AllocTypeOK
  <2> QED
    BY <1>5, <2>1, <2>2 DEF GetFromPage
<1>6. CASE GetFromNewPage(size)
  <2>1. PICK base \in Bases :
          /\ NewPage(Block(base, SizeAdditionalPage), SizeAdditionalPage)
          /\ live' = live \cup {Block(base, size)}
    BY <1>6 DEF GetFromNewPage
  <2> DEFINE n == Block(base, size)
  <2>2. /\ base \in Nat /\ SizeAdditionalPage \in Nat /\ size <= SizeAdditionalPage
        /\ n \in Blocks /\ n.size = size /\ n.addr = base
    BY <1>2, PageAssumption DEF Block, Blocks, Request
  <2>3. n \notin live
    <3> SUFFICES ASSUME n \in live PROVE FALSE
      OBVIOUS
    <3>1. PICK p \in m_allocateData : Within(n, p)
      BY DEF AllocInv, InsidePages
    <3>2. Apart(Block(base, SizeAdditionalPage), p) /\ p \in Blocks
      BY <2>1 DEF NewPage, AllocInv, AllocTypeOK
    <3> QED
      BY <1>2, <2>2, <3>1, <3>2 DEF Within, Apart, Block, Blocks
  <2> QED
    BY <2>1, <2>2, <2>3
<1> QED
  BY <1>4, <1>5, <1>6 DEF GetArray

(* getArray keeps the old pages and adds none but those of operator new. *)
LEMMA GetArrayPages ==
  ASSUME NEW size, GetArray(size)
  PROVE  \A p \in m_allocateData' :
            \/ p \in m_allocateData
            \/ p.addr \in Bases /\ p.size = SizeAdditionalPage
<1>1. CASE GetFromFreeSpace(size)
  BY <1>1 DEF GetFromFreeSpace
<1>2. CASE GetFromPage(size)
  BY <1>2 DEF GetFromPage
<1>3. CASE GetFromNewPage(size)
  <2>1. PICK base \in Bases :
          m_allocateData' = m_allocateData \cup {Block(base, SizeAdditionalPage)}
    BY <1>3 DEF GetFromNewPage
  <2> QED
    BY <2>1 DEF Block
<1> QED
  BY <1>1, <1>2, <1>3 DEF GetArray

(* releaseMemory takes one block from the caller and leaves the pages. *)
LEMMA ReleaseMemoryLive ==
  ASSUME NEW b, ReleaseMemory(b)
  PROVE  b \in live /\ live' = live \ {b} /\ m_allocateData' = m_allocateData
  BY DEF ReleaseMemory

(* Leaving out the i-th element moves the later ones down by one. *)
LEMMA RemoveAtProperties ==
  ASSUME NEW S, NEW s \in Seq(S), NEW i \in DOMAIN s
  PROVE  /\ RemoveAt(s, i) \in Seq(S)
         /\ DOMAIN RemoveAt(s, i) = 1 .. (Len(s) - 1)
         /\ Len(RemoveAt(s, i)) = Len(s) - 1
         /\ \A j \in 1 .. (Len(s) - 1) :
               RemoveAt(s, i)[j] = IF j < i THEN s[j] ELSE s[j + 1]
<1>1. Len(s) \in Nat /\ DOMAIN s = 1 .. Len(s) /\ \A j \in 1 .. Len(s) : s[j] \in S
  BY LenProperties, ElementOfSeq
<1> DEFINE a == SubSeq(s, 1, i - 1)
           b == SubSeq(s, i + 1, Len(s))
<1>2. /\ a \in Seq(S) /\ Len(a) = i - 1
      /\ \A j \in 1 .. (i - 1) : a[j] = s[j]
  BY <1>1, SubSeqProperties
<1>3. /\ b \in Seq(S) /\ Len(b) = Len(s) - i
      /\ \A j \in 1 .. (Len(s) - i) : b[j] = s[i + j]
  BY <1>1, SubSeqProperties
<1> HIDE DEF a, b
<1>4. /\ a \o b \in Seq(S)
      /\ Len(a \o b) = Len(a) + Len(b)
      /\ \A j \in 1 .. (Len(a) + Len(b)) :
            (a \o b)[j] = IF j <= Len(a) THEN a[j] ELSE b[j - Len(a)]
  BY <1>2, <1>3, ConcatProperties
<1>5. Len(a) + Len(b) = Len(s) - 1
  BY <1>1, <1>2, <1>3
<1>6. ASSUME NEW j \in 1 .. (Len(s) - 1)
      PROVE  (a \o b)[j] = IF j < i THEN s[j] ELSE s[j + 1]
  <2>1. CASE j < i
    BY <2>1, <1>1, <1>2, <1>4, <1>5
  <2>2. CASE ~(j < i)
    <3>1. j - (i - 1) \in 1 .. (Len(s) - i) /\ i + (j - (i - 1)) = j + 1
      BY <2>2, <1>1
    <3>2. (a \o b)[j] = b[j - (i - 1)]
      BY <2>2, <1>1, <1>2, <1>4, <1>5
    <3>3. b[j - (i - 1)] = s[i + (j - (i - 1))]
      BY <3>1, <1>3
    <3> QED
      BY <2>2, <3>1, <3>2, <3>3
  <2> QED
    BY <2>1, <2>2
<1>7. RemoveAt(s, i) = a \o b
  BY DEF RemoveAt, a, b
<1> QED
  BY <1>4, <1>5, <1>6, <1>7, LenProperties

------------------------------------------------------------------------------
(* The part of the invariant about blocks and their holders. *)
Ownership ==
  /\ PagesInMemory
  /\ TableGood
  /\ PendingGood
  /\ BucketGood
  /\ SlotsFit
  /\ HoldersApart
  /\ NoneLost

(* The type invariant without that of the allocator. *)
OwnTypeOK ==
  /\ pc \in {"idle", "reduce", "remove", "collect", "lookup"}
  /\ key \in Keys \cup {None}
  /\ m_bucket \in Blocks
  /\ hashTable \in [Slots -> Seq(Entries)]
  /\ pending \in Seq(Entries)
  /\ m_limitVarCached \in Nat
  /\ negative \in [0 .. NbInitVar -> 0 .. MaxStat]
  /\ positive \in [0 .. NbInitVar -> 0 .. MaxStat]
  /\ nbReduceCall \in 0 .. MaxReduce

(* The invariant in these parts ... *)
LEMMA CacheInvParts ==
  CacheInv <=> /\ AllocInv
               /\ OwnTypeOK
               /\ noCollision \in BOOLEAN
               /\ pc # "idle" => key \in Keys
               /\ Ownership
               /\ HitIsRight
               /\ LimitRespected
  BY Zenon DEF CacheInv, CacheTypeOK, OwnTypeOK, Ownership, AllocInv

(* ... and after a step. *)
LEMMA CacheInvAfter ==
  ASSUME AllocInv', OwnTypeOK', noCollision' \in BOOLEAN,
         pc' # "idle" => key' \in Keys,
         Ownership', HitIsRight', LimitRespected'
  PROVE  CacheInv'
  BY Zenon DEF CacheInv, CacheTypeOK, OwnTypeOK, Ownership, AllocInv

(* The constructor and initHashTable: an empty table over a fresh allocator. *)
LEMMA CacheInitInv == CacheInit => CacheInv
<1> SUFFICES ASSUME CacheInit PROVE CacheInv
  OBVIOUS
<1>1. AllocInv
  BY AllocInitInv DEF CacheInit
<1>2. OwnTypeOK
  BY CacheAssumption DEF CacheInit, OwnTypeOK, NoBlock, Block, Blocks
<1>3. noCollision \in BOOLEAN
  BY CacheAssumption, Zenon DEF CacheInit
<1>4. pc # "idle" => key \in Keys
  BY DEF CacheInit
<1>5. PagesInMemory
  BY DEF CacheInit, AllocInit, PagesInMemory, Block
<1>6. TableGood /\ PendingGood /\ BucketGood /\ SlotsFit /\ HoldersApart
  BY DEF CacheInit, TableGood, PendingGood, BucketGood, SlotsFit, HoldersApart
<1>7. NoneLost
  BY FS_EmptySet DEF CacheInit, AllocInit, NoneLost
<1>8. HitIsRight
  BY DEF CacheInit, HitIsRight
<1>9. LimitRespected
  BY CacheAssumption DEF CacheInit, LimitRespected
<1> QED
  BY <1>1, <1>2, <1>3, <1>4, <1>5, <1>6, <1>7, <1>8, <1>9, CacheInvParts
     DEF Ownership

(* An entry stays good while its block is kept and the memory not written. *)
LEMMA GoodEntryKept ==
  ASSUME NEW e, GoodEntry(e), e.data \in live', memory' = memory
  PROVE  GoodEntry(e)'
  BY DEF GoodEntry, Holds

(* Steps of searchInCache that move no block. *)
LEMMA OwnershipKept ==
  ASSUME Ownership, pc # "lookup", pc' # "lookup",
         UNCHANGED << live, m_allocateData, memory, hashTable, pending,
                      noCollision, m_bucket >>
  PROVE  Ownership'
<1>1. PagesInMemory' /\ SlotsFit' /\ HoldersApart' /\ NoneLost' /\ BucketGood'
  BY DEF Ownership, PagesInMemory, SlotsFit, HoldersApart, NoneLost, BucketGood
<1>2. TableGood' /\ PendingGood'
  BY DEF Ownership, TableGood, PendingGood, GoodEntry, Holds
<1> QED
  BY <1>1, <1>2 DEF Ownership

(* The call of searchInCache. *)
LEMMA SearchInCacheInv ==
  ASSUME CacheInv, NEW k \in Keys, SearchInCache(k)
  PROVE  CacheInv'
<1>1. /\ pc = "idle" /\ pc' \in {"reduce", "collect"} /\ key' = k
      /\ UNCHANGED << live, m_allocateData, memory, hashTable, pending,
                      noCollision, m_bucket >>
      /\ UNCHANGED allocVars
      /\ UNCHANGED << m_limitVarCached, negative, positive, nbReduceCall, answer >>
  BY DEF SearchInCache, allocVars
<1>2. AllocInv'
  BY <1>1, AllocNextInv DEF CacheInv
<1>3. Ownership'
  BY <1>1, OwnershipKept, CacheInvParts
<1>4. OwnTypeOK'
  BY <1>1, CacheInvParts DEF OwnTypeOK
<1>5. HitIsRight' /\ LimitRespected' /\ key' \in Keys
  BY <1>1 DEF CacheInv, HitIsRight, LimitRespected
<1>6. noCollision' \in BOOLEAN
  BY <1>1, CacheInvParts, Zenon
<1> QED
  BY <1>2, <1>3, <1>4, <1>5, <1>6, CacheInvAfter

(* reduceCache lowers the limit by the sizes that were not worthwhile. *)
LEMMA LoweredLimitBounds ==
  ASSUME m_limitVarCached \in Nat
  PROVE  /\ LoweredLimit \in Nat
         /\ LoweredLimit <= m_limitVarCached
         /\ m_limitVarCached < MinNbVarNotCached => LoweredLimit = m_limitVarCached
         /\ m_limitVarCached >= MinNbVarNotCached =>
              LoweredLimit >= MinNbVarNotCached
<1> DEFINE S == (MinNbVarNotCached + 1) .. m_limitVarCached
           T == {i \in Visited : ~Worthwhile(i)}
<1>1. MinNbVarNotCached \in Nat
  BY CacheAssumption
<1>2. /\ IsFiniteSet(S)
      /\ Cardinality(S) = IF MinNbVarNotCached + 1 > m_limitVarCached THEN 0
                          ELSE m_limitVarCached - (MinNbVarNotCached + 1) + 1
  BY <1>1, FS_Interval
<1>3. T \in SUBSET S
  BY DEF Visited
<1>4. IsFiniteSet(T) /\ Cardinality(T) <= Cardinality(S)
  <2> HIDE DEF S, T
  <2> QED
    BY <1>2, <1>3, FS_Subset
<1>5. Cardinality(T) \in Nat
  BY <1>4, FS_CardinalityType
<1>6. LoweredLimit = m_limitVarCached - Cardinality(T)
  BY DEF LoweredLimit
<1> HIDE DEF S, T
<1> QED
  BY <1>1, <1>2, <1>4, <1>5, <1>6

(* CacheCleaningExpectation::reduceCache. *)
LEMMA ReduceCacheInv ==
  ASSUME CacheInv, ReduceCache
  PROVE  CacheInv'
<1>1. /\ pc = "reduce" /\ pc' = "remove"
      /\ UNCHANGED << live, m_allocateData, memory, hashTable, pending,
                      noCollision, m_bucket >>
      /\ UNCHANGED allocVars
      /\ UNCHANGED << key, answer >>
  BY DEF ReduceCache, allocVars
<1>2. OwnTypeOK
  BY CacheInvParts
<1>3. AllocInv'
  BY <1>1, AllocNextInv DEF CacheInv
<1>4. Ownership'
  BY <1>1, OwnershipKept, CacheInvParts
<1>5. m_limitVarCached' \in Nat /\ LimitRespected'
  <2>1. m_limitVarCached \in Nat /\ NbInitVar \in Nat /\ LimitRespected
    BY <1>2, CacheAssumption DEF OwnTypeOK, CacheInv
  <2> DEFINE l == LoweredLimit
             val == (l * 11) \div 10
  <2>2. /\ l \in Nat /\ l <= m_limitVarCached
        /\ m_limitVarCached < MinNbVarNotCached => l = m_limitVarCached
        /\ m_limitVarCached >= MinNbVarNotCached => l >= MinNbVarNotCached
    BY <2>1, LoweredLimitBounds
  <2>3. m_limitVarCached' = IF val <= NbInitVar THEN val ELSE NbInitVar
    BY DEF ReduceCache, SetLimitVarCache
  <2> HIDE DEF l
  <2>4. val \in Nat /\ val >= l
    BY <2>2
  <2>5. MinNbVarNotCached \in Nat
    BY CacheAssumption
  <2> HIDE DEF val
  <2> QED
    BY <2>1, <2>2, <2>3, <2>4, <2>5 DEF LimitRespected
<1>6. /\ negative' \in [0 .. NbInitVar -> 0 .. MaxStat]
      /\ positive' \in [0 .. NbInitVar -> 0 .. MaxStat]
  <2>1. \A n \in 0 .. MaxStat : n \div 2 \in 0 .. MaxStat
    BY CacheAssumption
  <2> QED
    BY <1>2, <2>1 DEF OwnTypeOK, ReduceCache
<1>7. nbReduceCall' \in 0 .. MaxReduce
  BY <1>2, CacheAssumption DEF OwnTypeOK, ReduceCache
<1>8. OwnTypeOK'
  BY <1>1, <1>2, <1>5, <1>6, <1>7 DEF OwnTypeOK
<1>9. HitIsRight' /\ key' \in Keys
  BY <1>1 DEF CacheInv, HitIsRight
<1>10. noCollision' \in BOOLEAN
  BY <1>1, CacheInvParts, Zenon
<1> QED
  BY <1>3, <1>4, <1>5, <1>8, <1>9, <1>10, CacheInvAfter

(* The end of removeEntry. *)
LEMMA RemoveEntryDoneInv ==
  ASSUME CacheInv, RemoveEntryDone
  PROVE  CacheInv'
<1>1. /\ pc = "remove" /\ pc' = "collect"
      /\ ReinitComsumedMemory
      /\ UNCHANGED << live, m_allocateData, memory, hashTable, pending,
                      noCollision, m_bucket >>
      /\ UNCHANGED << key, answer, m_limitVarCached, negative, positive,
                      nbReduceCall >>
  BY DEF RemoveEntryDone, ReinitComsumedMemory
<1>2. AllocInv'
  BY <1>1, AllocNextInv DEF CacheInv, AllocNext
<1>3. Ownership'
  BY <1>1, OwnershipKept, CacheInvParts
<1>4. OwnTypeOK'
  BY <1>1, CacheInvParts DEF OwnTypeOK
<1>5. HitIsRight' /\ LimitRespected' /\ key' \in Keys
  BY <1>1 DEF CacheInv, HitIsRight, LimitRespected
<1>6. noCollision' \in BOOLEAN
  BY <1>1, CacheInvParts, Zenon
<1> QED
  BY <1>2, <1>3, <1>4, <1>5, <1>6, CacheInvAfter

(* releaseMemory, seen by the cache. *)
LEMMA ReleaseMemoryAllocInv ==
  ASSUME AllocInv, NEW b, ReleaseMemory(b)
  PROVE  /\ AllocInv' /\ b \in live /\ live' = live \ {b}
         /\ m_allocateData' = m_allocateData
  BY ReleaseMemoryLive, ReleaseMemoryInv

(* A table and a list of callers of the right type: what their elements are. *)
LEMMA EntriesTyped ==
  ASSUME OwnTypeOK
  PROVE  /\ \A s \in Slots : /\ hashTable[s] \in Seq(Entries)
                             /\ Len(hashTable[s]) \in Nat
                             /\ DOMAIN hashTable[s] = 1 .. Len(hashTable[s])
                             /\ \A i \in DOMAIN hashTable[s] : hashTable[s][i] \in Entries
         /\ pending \in Seq(Entries) /\ Len(pending) \in Nat
         /\ DOMAIN pending = 1 .. Len(pending)
         /\ \A i \in DOMAIN pending : pending[i] \in Entries
<1>1. ASSUME NEW q \in Seq(Entries)
      PROVE  /\ Len(q) \in Nat /\ DOMAIN q = 1 .. Len(q)
             /\ \A i \in DOMAIN q : q[i] \in Entries
  BY LenProperties, ElementOfSeq
<1>2. \A s \in Slots : hashTable[s] \in Seq(Entries)
  BY DEF OwnTypeOK
<1>3. pending \in Seq(Entries)
  BY DEF OwnTypeOK
<1> QED
  BY <1>1, <1>2, <1>3

(* removeEntry, one entry of the table. *)
LEMMA RemoveEntryInv ==
  ASSUME CacheInv, RemoveEntry
  PROVE  CacheInv'
<1>1. PICK s \in Slots : \E i \in DOMAIN hashTable[s] :
        /\ ReleaseMemory(hashTable[s][i].data)
        /\ hashTable' = TableWithout(s, i)
  BY DEF RemoveEntry
<1>2. PICK i \in DOMAIN hashTable[s] :
        /\ ReleaseMemory(hashTable[s][i].data)
        /\ hashTable' = TableWithout(s, i)
  BY <1>1
<1>3. /\ pc = "remove" /\ pc' = pc
      /\ UNCHANGED << memory, pending, noCollision, m_bucket >>
      /\ UNCHANGED << key, answer, m_limitVarCached, negative, positive,
                      nbReduceCall >>
  BY DEF RemoveEntry
<1>4. AllocInv /\ OwnTypeOK /\ Ownership /\ noCollision \in BOOLEAN
  BY CacheInvParts, Zenon
<1>5. /\ AllocInv' /\ hashTable[s][i].data \in live
      /\ live' = live \ {hashTable[s][i].data}
      /\ m_allocateData' = m_allocateData
  BY <1>2, <1>4, ReleaseMemoryAllocInv
<1> DEFINE from(t, j) == IF t = s /\ j >= i THEN j + 1 ELSE j
<1>6. /\ \A t \in Slots : Len(hashTable[t]) \in Nat
                          /\ DOMAIN hashTable[t] = 1 .. Len(hashTable[t])
      /\ hashTable[s] \in Seq(Entries)
      /\ i \in Nat /\ i >= 1 /\ i <= Len(hashTable[s])
  BY <1>4, EntriesTyped
<1>7. /\ RemoveAt(hashTable[s], i) \in Seq(Entries)
      /\ DOMAIN RemoveAt(hashTable[s], i) = 1 .. (Len(hashTable[s]) - 1)
      /\ Len(RemoveAt(hashTable[s], i)) = Len(hashTable[s]) - 1
      /\ \A j \in 1 .. (Len(hashTable[s]) - 1) :
            RemoveAt(hashTable[s], i)[j] = IF j < i THEN hashTable[s][j]
                                                    ELSE hashTable[s][j + 1]
  BY <1>6, RemoveAtProperties
<1>8. /\ hashTable \in [Slots -> Seq(Entries)]
      /\ hashTable' = [hashTable EXCEPT ![s] = RemoveAt(hashTable[s], i)]
  BY <1>2, <1>4 DEF TableWithout, OwnTypeOK
<1>9. /\ hashTable' \in [Slots -> Seq(Entries)]
      /\ \A t \in Slots : Len(hashTable'[t]) \in Nat
                          /\ Len(hashTable'[t]) <= Len(hashTable[t])
                          /\ DOMAIN hashTable'[t] = 1 .. Len(hashTable'[t])
  BY <1>6, <1>7, <1>8
<1>10. ASSUME NEW t \in Slots, NEW j \in DOMAIN hashTable'[t]
       PROVE  /\ from(t, j) \in DOMAIN hashTable[t]
              /\ hashTable'[t][j] = hashTable[t][from(t, j)]
              /\ t = s => from(t, j) # i
  <2>1. CASE t = s
    BY <2>1, <1>6, <1>7, <1>8
  <2>2. CASE t # s
    BY <2>2, <1>8
  <2> QED
    BY <2>1, <2>2
<1>11. ASSUME NEW t \in Slots, NEW j \in DOMAIN hashTable[t], t # s \/ j # i
       PROVE  \E k \in DOMAIN hashTable'[t] : hashTable'[t][k] = hashTable[t][j]
  <2>1. CASE t = s /\ j < i
    BY <2>1, <1>6, <1>7, <1>8
  <2>2. CASE t = s /\ j > i
    <3>1. j - 1 \in 1 .. (Len(hashTable[s]) - 1) /\ ~(j - 1 < i) /\ (j - 1) + 1 = j
      BY <2>2, <1>6
    <3>2. RemoveAt(hashTable[s], i)[j - 1] = hashTable[s][j]
      BY <3>1, <1>7
    <3> QED
      BY <2>2, <3>1, <3>2, <1>7, <1>8
  <2>3. CASE t # s
    BY <2>3, <1>8
  <2> QED
    BY <2>1, <2>2, <2>3, <1>6, <1>11
<1>12. \A t \in Slots : \A j, k \in DOMAIN hashTable'[t] :
          from(t, j) = from(t, k) => j = k
  BY <1>6, <1>9
<1> HIDE DEF from
<1>13. TableGood'
  <2> SUFFICES ASSUME NEW t \in Slots, NEW j \in DOMAIN hashTable'[t]
               PROVE  (GoodEntry(hashTable[t][j]) /\ Hash[hashTable[t][j].key] = t)'
    BY DEF TableGood
  <2> DEFINE e == hashTable[t][from(t, j)]
  <2>1. GoodEntry(e) /\ Hash[e.key] = t
    BY <1>4, <1>10 DEF Ownership, TableGood
  <2>2. e.data # hashTable[s][i].data
    BY <1>4, <1>10 DEF Ownership, HoldersApart
  <2>3. e.data \in live'
    BY <2>1, <2>2, <1>5 DEF GoodEntry
  <2>4. hashTable'[t][j] = e
    BY <1>10
  <2>5. memory' = memory
    BY <1>3
  <2> QED
    BY <2>1, <2>3, <2>4, <2>5 DEF GoodEntry, Holds
<1>14. PendingGood'
  BY <1>3, <1>4, <1>5 DEF Ownership, PendingGood, GoodEntry, Holds, HoldersApart
<1>15. PagesInMemory' /\ BucketGood'
  BY <1>3, <1>4, <1>5 DEF Ownership, PagesInMemory, BucketGood
<1>16. SlotsFit'
  <2> SUFFICES ASSUME noCollision, NEW t \in Slots PROVE Len(hashTable'[t]) <= 1
    BY <1>3 DEF SlotsFit
  <2> QED
    BY <1>4, <1>6, <1>9 DEF Ownership, SlotsFit
<1>17. HoldersApart'
  <2>1. ASSUME NEW t \in Slots, NEW u \in Slots,
               NEW j \in DOMAIN hashTable'[t], NEW k \in DOMAIN hashTable'[u],
               hashTable'[t][j].data = hashTable'[u][k].data
        PROVE  t = u /\ j = k
    BY <2>1, <1>4, <1>10, <1>12 DEF Ownership, HoldersApart
  <2>2. ASSUME NEW t \in Slots, NEW j \in DOMAIN hashTable'[t], NEW k \in DOMAIN pending
        PROVE  hashTable'[t][j].data # pending[k].data
    BY <1>4, <1>10 DEF Ownership, HoldersApart
  <2> QED
    BY <2>1, <2>2, <1>3, <1>4 DEF Ownership, HoldersApart
<1>18. NoneLost'
  <2>1. IsFiniteSet(live')
    BY <1>4, <1>5, FS_RemoveElement DEF Ownership, NoneLost
  <2>2. ASSUME NEW b \in live'
        PROVE  \/ \E t \in Slots : \E j \in DOMAIN hashTable'[t] :
                    hashTable'[t][j].data = b
               \/ \E j \in DOMAIN pending : pending[j].data = b
    <3>1. b \in live /\ b # hashTable[s][i].data
      BY <1>5
    <3>2. CASE \E j \in DOMAIN pending : pending[j].data = b
      BY <3>2
    <3>3. CASE \E t \in Slots : \E j \in DOMAIN hashTable[t] : hashTable[t][j].data = b
      BY <3>1, <3>3, <1>11
    <3> QED
      BY <3>1, <3>2, <3>3, <1>3, <1>4 DEF Ownership, NoneLost
  <2> QED
    BY <2>1, <2>2, <1>3 DEF NoneLost
<1>19. Ownership'
  BY <1>13, <1>14, <1>15, <1>16, <1>17, <1>18 DEF Ownership
<1>20. OwnTypeOK'
  BY <1>3, <1>4, <1>9 DEF OwnTypeOK
<1>21. HitIsRight' /\ LimitRespected' /\ key' \in Keys
  BY <1>3 DEF CacheInv, HitIsRight, LimitRespected
<1>22. noCollision' \in BOOLEAN
  BY <1>3, <1>4, Zenon
<1> QED
  BY <1>5, <1>19, <1>20, <1>21, <1>22, CacheInvAfter

(* The bytes of a block in a page are bytes of the memory. *)
LEMMA BlockInMemory ==
  ASSUME NEW b \in Blocks, NEW p \in Blocks, Within(b, p), p.addr \in Bases,
         p.size \in {SizeFirstPage, SizeAdditionalPage},
         NEW a \in b.addr .. (b.addr + b.size - 1)
  PROVE  a \in UNION {q .. q + SizeFirstPage + SizeAdditionalPage : q \in Bases}
<1>1. SizeFirstPage \in Nat /\ SizeAdditionalPage \in Nat /\ p.addr \in Nat
  BY PageAssumption
<1>2. a \in p.addr .. p.addr + SizeFirstPage + SizeAdditionalPage
  BY <1>1 DEF Within, Blocks
<1> QED
  BY <1>2

(* collectBucket and storeFormula: a fresh block is filled with the key. *)
LEMMA CollectBucketInv ==
  ASSUME CacheInv, CollectBucket
  PROVE  CacheInv'
<1>1. /\ pc = "collect" /\ pc' = "lookup"
      /\ GetArray(SzData[key])
      /\ UNCHANGED << noCollision, key, hashTable, pending, m_limitVarCached,
                      negative, positive, nbReduceCall, answer >>
  BY DEF CollectBucket
<1>2. AllocInv /\ OwnTypeOK /\ Ownership /\ noCollision \in BOOLEAN
  BY CacheInvParts, Zenon
<1>3. key \in Keys /\ SzData[key] \in Request
  BY <1>1, CacheAssumption DEF CacheInv
<1>4. AllocInv'
  BY <1>1, <1>2, <1>3, GetFromFreeSpaceInv, GetFromPageInv, GetFromNewPageInv
     DEF GetArray
<1>5. PICK n \in Blocks : /\ live' = live \cup {n}
                          /\ n \notin live
                          /\ n.size = SzData[key]
                          /\ \A b \in live : Apart(b, n)
  BY <1>1, <1>2, <1>3, GetArrayFresh
<1>6. m_bucket' = n /\ memory' = Written(key, n)
  BY <1>5 DEF CollectBucket
<1>7. /\ \A p \in m_allocateData' :
            p.addr \in Bases /\ p.size \in {SizeFirstPage, SizeAdditionalPage}
      /\ DOMAIN memory' = DOMAIN memory
  BY <1>1, <1>2, <1>6, GetArrayPages DEF Ownership, PagesInMemory, Written
<1>8. PagesInMemory'
  BY <1>2, <1>7 DEF Ownership, PagesInMemory
<1>9. ASSUME NEW b \in live', NEW a \in b.addr .. (b.addr + b.size - 1)
      PROVE  a \in DOMAIN memory
  <2>1. b \in Blocks
    BY <1>4 DEF AllocInv, AllocTypeOK
  <2>2. PICK p \in m_allocateData' : Within(b, p)
    BY <1>4 DEF AllocInv, InsidePages
  <2>3. p \in Blocks /\ p.addr \in Bases /\ p.size \in {SizeFirstPage, SizeAdditionalPage}
    BY <1>4, <1>7 DEF AllocInv, AllocTypeOK
  <2> QED
    BY <1>2, <2>1, <2>2, <2>3, BlockInMemory DEF Ownership, PagesInMemory
<1>10. ASSUME NEW e, GoodEntry(e)
       PROVE  GoodEntry(e)'
  <2>1. e.data \in live /\ e.data \in live'
    BY <1>5, <1>10 DEF GoodEntry
  <2>2. e.data \in Blocks /\ Apart(e.data, n)
    BY <1>2, <1>5, <2>1 DEF AllocInv, AllocTypeOK
  <2>3. ASSUME NEW a \in e.data.addr .. (e.data.addr + e.data.size - 1)
        PROVE  memory'[a] = << e.key, a - e.data.addr >>
    <3>1. a \in DOMAIN memory
      BY <1>9, <2>1
    <3>2. a \notin n.addr .. (n.addr + n.size - 1)
      BY <2>2 DEF Apart, Blocks
    <3>3. memory'[a] = memory[a]
      BY <1>6, <3>1, <3>2 DEF Written
    <3> QED
      BY <1>10, <3>3 DEF GoodEntry, Holds
  <2> QED
    BY <2>1, <2>3, <1>10 DEF GoodEntry, Holds
<1>11. TableGood' /\ PendingGood'
  BY <1>1, <1>2, <1>10 DEF Ownership, TableGood, PendingGood
<1>12. BucketGood'
  <2>1. ASSUME NEW a \in n.addr .. (n.addr + n.size - 1)
        PROVE  memory'[a] = << key, a - n.addr >>
    <3>1. a \in DOMAIN memory
      BY <1>5, <1>9
    <3> QED
      BY <1>6, <3>1 DEF Written
  <2>2. GoodEntry(Entry(m_bucket, key))'
    BY <1>1, <1>5, <1>6, <2>1 DEF GoodEntry, Entry, Holds
  <2> QED
    BY <2>2 DEF BucketGood
<1>13. SlotsFit'
  BY <1>1, <1>2 DEF Ownership, SlotsFit
<1>14. HoldersApart'
  <2>1. \A s \in Slots : \A i \in DOMAIN hashTable[s] : hashTable[s][i].data # n
    BY <1>2, <1>5 DEF Ownership, TableGood, GoodEntry
  <2>2. \A i \in DOMAIN pending : pending[i].data # n
    BY <1>2, <1>5 DEF Ownership, PendingGood, GoodEntry
  <2> QED
    BY <2>1, <2>2, <1>1, <1>2, <1>6 DEF Ownership, HoldersApart
<1>15. NoneLost'
  <2>1. IsFiniteSet(live')
    BY <1>2, <1>5, FS_AddElement DEF Ownership, NoneLost
  <2> QED
    BY <2>1, <1>1, <1>2, <1>5, <1>6 DEF Ownership, NoneLost
<1>16. Ownership'
  BY <1>8, <1>11, <1>12, <1>13, <1>14, <1>15 DEF Ownership
<1>17. OwnTypeOK'
  BY <1>1, <1>2, <1>6 DEF OwnTypeOK
<1>18. HitIsRight' /\ LimitRespected' /\ key' \in Keys
  BY <1>1, <1>3 DEF CacheInv, HitIsRight, LimitRespected
<1>19. noCollision' \in BOOLEAN
  BY <1>1, <1>2, Zenon
<1> QED
  BY <1>4, <1>16, <1>17, <1>18, <1>19, CacheInvAfter

(* The entry that sameHeader and memcmp accept is the one of the key. *)
LEMMA SameEntryKey ==
  ASSUME key \in Keys, NEW e \in Entries, GoodEntry(e),
         GoodEntry(Entry(m_bucket, key)), m_bucket \in Blocks, SameEntry(e)
  PROVE  e.fc = key
<1>1. SzData[key] \in Nat /\ SzData[key] > 0 /\ SzData[e.key] = SzData[key]
  BY CacheAssumption, RequestType DEF SameEntry, SameHeader
<1>2. e.data.size = SzData[key] /\ m_bucket.size = SzData[key]
  BY <1>1 DEF GoodEntry, Entry
<1>3. e.data.addr \in Nat /\ m_bucket.addr \in Nat
  BY DEF Entries, Blocks
<1>4. memory[e.data.addr] = << e.key, 0 >>
  BY <1>1, <1>2, <1>3 DEF GoodEntry, Holds
<1>5. Holds(m_bucket, key)
  BY DEF GoodEntry, Entry
<1>6. memory[m_bucket.addr] = << key, 0 >>
  BY <1>1, <1>2, <1>3, <1>5 DEF Holds
<1>7. memory[e.data.addr + 0] = memory[m_bucket.addr + 0]
  BY <1>1 DEF SameEntry
<1>8. << e.key, 0 >> = << key, 0 >>
  BY <1>3, <1>4, <1>6, <1>7
<1> QED
  BY <1>8 DEF GoodEntry

(* bucketAlreadyExist with a hit: the bucket is given back. *)
LEMMA HitInv ==
  ASSUME CacheInv, Hit
  PROVE  CacheInv'
<1>1. /\ pc = "lookup" /\ pc' = "idle" /\ key' = None /\ m_bucket' = NoBlock
      /\ ReleaseMemory(m_bucket)
      /\ positive[NbVar[key]] < MaxStat
      /\ positive' = [positive EXCEPT ![NbVar[key]] = @ + 1]
      /\ UNCHANGED << noCollision, hashTable, pending, memory,
                      m_limitVarCached, negative, nbReduceCall >>
  BY DEF Hit
<1>2. AllocInv /\ OwnTypeOK /\ Ownership /\ noCollision \in BOOLEAN
  BY CacheInvParts, Zenon
<1>3. /\ AllocInv' /\ m_bucket \in live /\ live' = live \ {m_bucket}
      /\ m_allocateData' = m_allocateData
  BY <1>1, <1>2, ReleaseMemoryAllocInv
<1>4. key \in Keys
  BY <1>1 DEF CacheInv
<1>5. HitIsRight'
  <2>1. PICK i \in Hits : answer' = << key, hashTable[Hash[key]][i].fc >>
    BY DEF Hit
  <2> DEFINE e == hashTable[Hash[key]][i]
  <2>2. Hash[key] \in Slots /\ i \in DOMAIN hashTable[Hash[key]] /\ SameEntry(e)
    BY <1>4, CacheAssumption DEF Hits, Slots
  <2>3. e \in Entries /\ m_bucket \in Blocks
    BY <1>2, <2>2, EntriesTyped DEF OwnTypeOK
  <2>4. GoodEntry(e) /\ GoodEntry(Entry(m_bucket, key))
    BY <1>1, <1>2, <2>2 DEF Ownership, TableGood, BucketGood
  <2>5. e.fc = key
    BY <1>4, <2>2, <2>3, <2>4, SameEntryKey
  <2> QED
    BY <2>1, <2>5 DEF HitIsRight
<1>6. TableGood' /\ PendingGood'
  BY <1>1, <1>2, <1>3
     DEF Ownership, TableGood, PendingGood, HoldersApart, GoodEntry, Holds
<1>7. PagesInMemory' /\ SlotsFit' /\ BucketGood'
  BY <1>1, <1>2, <1>3 DEF Ownership, PagesInMemory, SlotsFit, BucketGood
<1>8. HoldersApart'
  BY <1>1, <1>2 DEF Ownership, HoldersApart
<1>9. NoneLost'
  <2>1. IsFiniteSet(live')
    BY <1>2, <1>3, FS_RemoveElement DEF Ownership, NoneLost
  <2> QED
    BY <2>1, <1>1, <1>2, <1>3 DEF Ownership, NoneLost
<1>10. Ownership'
  BY <1>6, <1>7, <1>8, <1>9 DEF Ownership
<1>11. OwnTypeOK'
  <2>1. NbVar[key] \in 0 .. NbInitVar
    BY <1>4, CacheAssumption
  <2>2. positive' \in [0 .. NbInitVar -> 0 .. MaxStat]
    BY <2>1, <1>1, <1>2, CacheAssumption DEF OwnTypeOK
  <2>3. m_bucket' \in Blocks
    BY <1>1 DEF NoBlock, Block, Blocks
  <2> QED
    BY <2>2, <2>3, <1>1, <1>2 DEF OwnTypeOK
<1>12. LimitRespected'
  BY <1>1 DEF CacheInv, LimitRespected
<1>13. noCollision' \in BOOLEAN
  BY <1>1, <1>2, Zenon
<1> QED
  BY <1>1, <1>3, <1>5, <1>10, <1>11, <1>12, <1>13, CacheInvAfter

(* bucketAlreadyExist without a hit: the caller keeps the bucket. *)
LEMMA MissInv ==
  ASSUME CacheInv, Miss
  PROVE  CacheInv'
<1>1. /\ pc = "lookup" /\ pc' = "idle" /\ key' = None /\ m_bucket' = NoBlock
      /\ negative[NbVar[key]] < MaxStat
      /\ negative' = [negative EXCEPT ![NbVar[key]] = @ + 1]
      /\ answer' = << None, None >>
      /\ UNCHANGED << noCollision, hashTable, memory, m_limitVarCached,
                      positive, nbReduceCall >>
      /\ UNCHANGED allocVars
      /\ UNCHANGED << live, m_allocateData >>
  BY DEF Miss, allocVars
<1>2. AllocInv /\ OwnTypeOK /\ Ownership /\ noCollision \in BOOLEAN
  BY CacheInvParts, Zenon
<1>3. AllocInv'
  BY <1>1, <1>2, AllocNextInv
<1>4. key \in Keys
  BY <1>1 DEF CacheInv
<1> DEFINE e == Entry(m_bucket, key)
<1>5. e \in Entries /\ GoodEntry(e) /\ e.data = m_bucket
  BY <1>1, <1>2, <1>4 DEF Entry, Entries, OwnTypeOK, Ownership, BucketGood
<1>6. pending' = << e >> \o pending
  BY DEF Miss
<1> HIDE DEF e
<1>7. /\ pending \in Seq(Entries) /\ Len(pending) \in Nat
      /\ DOMAIN pending = 1 .. Len(pending)
  BY <1>2, EntriesTyped
<1>8. << e >> \in Seq(Entries) /\ Len(<< e >>) = 1 /\ << e >>[1] = e
  BY <1>5
<1>9. /\ pending' \in Seq(Entries)
      /\ Len(pending') = 1 + Len(pending)
      /\ DOMAIN pending' = 1 .. (1 + Len(pending))
      /\ pending'[1] = e
      /\ \A i \in 2 .. (1 + Len(pending)) : pending'[i] = pending[i - 1]
  <2>1. /\ pending' \in Seq(Entries)
        /\ Len(pending') = 1 + Len(pending)
        /\ \A i \in 1 .. (1 + Len(pending)) :
              pending'[i] = IF i <= 1 THEN << e >>[i] ELSE pending[i - 1]
    BY <1>6, <1>7, <1>8, ConcatProperties
  <2> QED
    BY <2>1, <1>7, <1>8, LenProperties
<1>10. \A i \in DOMAIN pending' : i = 1 \/ i - 1 \in DOMAIN pending
  BY <1>7, <1>9
<1>11. TableGood' /\ PendingGood'
  <2>1. TableGood'
    BY <1>1, <1>2 DEF Ownership, TableGood, GoodEntry, Holds
  <2>2. ASSUME NEW i \in DOMAIN pending' PROVE GoodEntry(pending[i])'
    <3>1. \A x : GoodEntry(x) => GoodEntry(x)'
      BY <1>1 DEF GoodEntry, Holds
    <3>2. GoodEntry(pending'[i])
      BY <1>2, <1>5, <1>7, <1>9, <1>10 DEF Ownership, PendingGood
    <3> QED
      BY <3>2, <1>1 DEF GoodEntry, Holds
  <2> QED
    BY <2>1, <2>2 DEF PendingGood
<1>12. PagesInMemory' /\ SlotsFit' /\ BucketGood'
  BY <1>1, <1>2 DEF Ownership, PagesInMemory, SlotsFit, BucketGood
<1>13. HoldersApart'
  <2>1. ASSUME NEW i \in DOMAIN pending', NEW j \in DOMAIN pending',
               pending'[i].data = pending'[j].data
        PROVE  i = j
    <3>1. \A k \in DOMAIN pending : pending[k].data # e.data
      BY <1>1, <1>2, <1>5 DEF Ownership, HoldersApart
    <3>2. \A k \in DOMAIN pending' \ {1} :
             k - 1 \in DOMAIN pending /\ pending'[k] = pending[k - 1]
      BY <1>7, <1>9
    <3>3. CASE i = 1 \/ j = 1
      BY <2>1, <3>1, <3>2, <3>3, <1>9
    <3>4. CASE i # 1 /\ j # 1
      <4>1. i - 1 = j - 1
        BY <2>1, <3>2, <3>4, <1>2 DEF Ownership, HoldersApart
      <4> QED
        BY <4>1, <1>7, <1>9
    <3> QED
      BY <3>3, <3>4
  <2>2. ASSUME NEW s \in Slots, NEW i \in DOMAIN hashTable[s], NEW j \in DOMAIN pending'
        PROVE  hashTable[s][i].data # pending'[j].data
    BY <1>1, <1>2, <1>5, <1>7, <1>9, <1>10 DEF Ownership, HoldersApart
  <2> QED
    BY <2>1, <2>2, <1>1, <1>2 DEF Ownership, HoldersApart
<1>14. NoneLost'
  <2>1. 1 \in DOMAIN pending' /\ pending'[1].data = m_bucket
    BY <1>5, <1>7, <1>9
  <2>2. ASSUME NEW i \in DOMAIN pending
        PROVE  \E j \in DOMAIN pending' : pending'[j] = pending[i]
    <3>1. i + 1 \in DOMAIN pending' /\ pending'[i + 1] = pending[(i + 1) - 1]
      BY <1>7, <1>9
    <3> QED
      BY <3>1, <1>7
  <2> QED
    BY <2>1, <2>2, <1>1, <1>2 DEF Ownership, NoneLost
<1>15. Ownership'
  BY <1>11, <1>12, <1>13, <1>14 DEF Ownership
<1>16. OwnTypeOK'
  <2>1. NbVar[key] \in 0 .. NbInitVar
    BY <1>4, CacheAssumption
  <2>2. negative' \in [0 .. NbInitVar -> 0 .. MaxStat]
    BY <2>1, <1>1, <1>2, CacheAssumption, SMTT(30) DEF OwnTypeOK
  <2>3. m_bucket' \in Blocks
    BY <1>1 DEF NoBlock, Block, Blocks
  <2> QED
    BY <2>2, <2>3, <1>1, <1>2, <1>9 DEF OwnTypeOK
<1>17. HitIsRight' /\ LimitRespected'
  BY <1>1 DEF CacheInv, LimitRespected, HitIsRight
<1>18. noCollision' \in BOOLEAN
  BY <1>1, <1>2, Zenon
<1> QED
  BY <1>1, <1>3, <1>15, <1>16, <1>17, <1>18, CacheInvAfter

(* The innermost caller leaves: the others move up by one. *)
LEMMA PendingTail ==
  ASSUME OwnTypeOK, pending # << >>, pending' = Tail(pending)
  PROVE  /\ 1 \in DOMAIN pending
         /\ pending' \in Seq(Entries)
         /\ \A i \in DOMAIN pending' :
               i + 1 \in DOMAIN pending /\ pending'[i] = pending[i + 1]
         /\ \A i \in DOMAIN pending :
               i # 1 => \E j \in DOMAIN pending' : i = j + 1 /\ pending'[j] = pending[i]
         /\ DOMAIN pending' \subseteq Nat /\ 0 \notin DOMAIN pending'
<1>1. /\ pending \in Seq(Entries) /\ Len(pending) \in Nat
      /\ DOMAIN pending = 1 .. Len(pending)
  BY EntriesTyped
<1>2. Len(pending) > 0
  BY <1>1, EmptySeq
<1>3. /\ pending' \in Seq(Entries)
      /\ Len(pending') = Len(pending) - 1
      /\ \A i \in 1 .. (Len(pending) - 1) : pending'[i] = pending[i + 1]
  BY <1>1, HeadTailProperties
<1>4. DOMAIN pending' = 1 .. (Len(pending) - 1)
  BY <1>3, LenProperties
<1>5. ASSUME NEW i \in DOMAIN pending, i # 1
      PROVE  \E j \in DOMAIN pending' : i = j + 1 /\ pending'[j] = pending[i]
  <2>1. i - 1 \in DOMAIN pending' /\ i = (i - 1) + 1
    BY <1>1, <1>4, <1>5
  <2> QED
    BY <2>1, <1>3, <1>4
<1> QED
  BY <1>1, <1>2, <1>3, <1>4, <1>5

(* releaseMemory of a TmpEntry whose count is not kept. *)
LEMMA DropTmpEntryInv ==
  ASSUME CacheInv, DropTmpEntry
  PROVE  CacheInv'
<1>1. /\ pc = "idle" /\ pending # << >> /\ pending' = Tail(pending)
      /\ ReleaseMemory(pending[1].data)
      /\ answer' = << None, None >>
      /\ UNCHANGED << noCollision, pc, key, m_bucket, hashTable, memory,
                      m_limitVarCached, negative, positive, nbReduceCall >>
  BY DEF DropTmpEntry
<1>2. AllocInv /\ OwnTypeOK /\ Ownership /\ noCollision \in BOOLEAN
  BY CacheInvParts, Zenon
<1> DEFINE b == pending[1].data
<1>3. /\ AllocInv' /\ b \in live /\ live' = live \ {b}
      /\ m_allocateData' = m_allocateData
  BY <1>1, <1>2, ReleaseMemoryAllocInv
<1>4. /\ 1 \in DOMAIN pending
      /\ pending' \in Seq(Entries)
      /\ \A i \in DOMAIN pending' :
            i + 1 \in DOMAIN pending /\ pending'[i] = pending[i + 1]
      /\ \A i \in DOMAIN pending :
            i # 1 => \E j \in DOMAIN pending' : i = j + 1 /\ pending'[j] = pending[i]
      /\ DOMAIN pending' \subseteq Nat /\ 0 \notin DOMAIN pending'
  BY <1>1, <1>2, PendingTail
<1> HIDE DEF b
<1>5. TableGood'
  <2>1. \A s \in Slots : \A i \in DOMAIN hashTable[s] : hashTable[s][i].data # b
    BY <1>2, <1>4 DEF Ownership, HoldersApart, b
  <2> QED
    BY <2>1, <1>1, <1>2, <1>3 DEF Ownership, TableGood, GoodEntry, Holds
<1>6. PendingGood'
  <2> SUFFICES ASSUME NEW i \in DOMAIN pending' PROVE GoodEntry(pending[i])'
    BY DEF PendingGood
  <2>1. i + 1 \in DOMAIN pending /\ pending'[i] = pending[i + 1] /\ i + 1 # 1
    BY <1>4
  <2>2. GoodEntry(pending'[i]) /\ pending'[i].data # b
    BY <2>1, <1>2, <1>4 DEF Ownership, PendingGood, HoldersApart, b
  <2> QED
    BY <2>2, <1>1, <1>3 DEF GoodEntry, Holds
<1>7. PagesInMemory' /\ SlotsFit' /\ BucketGood'
  BY <1>1, <1>2, <1>3 DEF Ownership, PagesInMemory, SlotsFit, BucketGood
<1>8. HoldersApart'
  <2>1. ASSUME NEW i \in DOMAIN pending', NEW j \in DOMAIN pending',
               pending'[i].data = pending'[j].data
        PROVE  i = j
    <3>1. i + 1 = j + 1
      BY <2>1, <1>2, <1>4 DEF Ownership, HoldersApart
    <3> QED
      BY <3>1, <1>4
  <2>2. ASSUME NEW s \in Slots, NEW i \in DOMAIN hashTable[s], NEW j \in DOMAIN pending'
        PROVE  hashTable[s][i].data # pending'[j].data
    BY <1>2, <1>4 DEF Ownership, HoldersApart
  <2> QED
    BY <2>1, <2>2, <1>1, <1>2 DEF Ownership, HoldersApart
<1>9. NoneLost'
  <2>1. IsFiniteSet(live')
    BY <1>2, <1>3, FS_RemoveElement DEF Ownership, NoneLost
  <2>2. ASSUME NEW c \in live'
        PROVE  \/ \E s \in Slots : \E i \in DOMAIN hashTable[s] : hashTable[s][i].data = c
               \/ \E i \in DOMAIN pending' : pending'[i].data = c
    <3>1. c \in live /\ c # b
      BY <1>3
    <3>2. CASE \E i \in DOMAIN pending : pending[i].data = c
      BY <3>1, <3>2, <1>4 DEF b
    <3> QED
      BY <3>1, <3>2, <1>1, <1>2 DEF Ownership, NoneLost
  <2> QED
    BY <2>1, <2>2, <1>1 DEF NoneLost
<1>10. Ownership'
  BY <1>5, <1>6, <1>7, <1>8, <1>9 DEF Ownership
<1>11. OwnTypeOK'
  BY <1>1, <1>2, <1>4 DEF OwnTypeOK
<1>12. HitIsRight' /\ LimitRespected'
  BY <1>1 DEF CacheInv, LimitRespected, HitIsRight
<1>13. noCollision' \in BOOLEAN
  BY <1>1, <1>2, Zenon
<1> QED
  BY <1>1, <1>3, <1>10, <1>11, <1>12, <1>13, CacheInvAfter

(* pushInHashTable of CacheNoCollision: the old entry of the slot goes. *)
LEMMA PushNoCollisionInv ==
  ASSUME CacheInv, AddInCache, PushNoCollision(pending[1])
  PROVE  AllocInv' /\ Ownership' /\ hashTable' \in [Slots -> Seq(Entries)]
<1>1. /\ pc = "idle" /\ pending # << >> /\ pending' = Tail(pending)
      /\ UNCHANGED << noCollision, pc, key, m_bucket, memory >>
  BY DEF AddInCache
<1>2. AllocInv /\ OwnTypeOK /\ Ownership
  BY CacheInvParts, Zenon
<1>3. /\ 1 \in DOMAIN pending
      /\ \A i \in DOMAIN pending' :
            i + 1 \in DOMAIN pending /\ pending'[i] = pending[i + 1]
      /\ \A i \in DOMAIN pending :
            i # 1 => \E j \in DOMAIN pending' : i = j + 1 /\ pending'[j] = pending[i]
      /\ DOMAIN pending' \subseteq Nat /\ 0 \notin DOMAIN pending'
  BY <1>1, <1>2, PendingTail
<1> DEFINE e == pending[1]
           h == Hash[e.key]
<1>4. e \in Entries /\ GoodEntry(e)
  BY <1>2, <1>3, EntriesTyped DEF Ownership, PendingGood
<1>5. h \in Slots
  BY <1>4, CacheAssumption DEF Entries, Slots
<1>6. /\ noCollision
      /\ IF hashTable[h] # << >> THEN ReleaseMemory(hashTable[h][1].data)
                                 ELSE UNCHANGED allocVars
      /\ hashTable' = [hashTable EXCEPT ![h] = << e >>]
  BY DEF PushNoCollision
<1> HIDE DEF e, h
<1>7. /\ hashTable[h] \in Seq(Entries) /\ Len(hashTable[h]) \in Nat
      /\ DOMAIN hashTable[h] = 1 .. Len(hashTable[h])
      /\ Len(hashTable[h]) <= 1
  BY <1>2, <1>5, <1>6, EntriesTyped DEF Ownership, SlotsFit
<1>8. hashTable[h] # << >> => DOMAIN hashTable[h] = {1}
  BY <1>7, EmptySeq
<1>9. hashTable[h] = << >> => DOMAIN hashTable[h] = {}
  BY <1>7
<1>10. << e >> \in Seq(Entries) /\ DOMAIN << e >> = {1} /\ << e >>[1] = e /\ Len(<< e >>) = 1
  BY <1>4
<1>11. /\ hashTable' \in [Slots -> Seq(Entries)]
       /\ DOMAIN hashTable'[h] = {1} /\ hashTable'[h][1] = e
       /\ Len(hashTable'[h]) = 1
       /\ \A t \in Slots : t # h => hashTable'[t] = hashTable[t]
  BY <1>2, <1>5, <1>6, <1>10 DEF OwnTypeOK
<1>12. /\ AllocInv' /\ m_allocateData' = m_allocateData
       /\ live' \subseteq live /\ IsFiniteSet(live')
       /\ \A b \in live :
             b \in live' <=> (\A i \in DOMAIN hashTable[h] : hashTable[h][i].data # b)
  <2>1. IsFiniteSet(live)
    BY <1>2 DEF Ownership, NoneLost
  <2>2. CASE hashTable[h] # << >>
    <3>1. /\ AllocInv' /\ m_allocateData' = m_allocateData
          /\ live' = live \ {hashTable[h][1].data}
      BY <1>2, <1>6, <2>2, ReleaseMemoryAllocInv
    <3> QED
      BY <2>1, <2>2, <3>1, <1>8, FS_RemoveElement
  <2>3. CASE hashTable[h] = << >>
    <3>1. UNCHANGED allocVars
      BY <1>6, <2>3
    <3>2. AllocInv'
      BY <3>1, <1>2, AllocNextInv
    <3>3. UNCHANGED << live, m_allocateData >>
      BY <3>1 DEF allocVars
    <3> QED
      BY <2>1, <2>3, <3>2, <3>3, <1>9
  <2> QED
    BY <2>2, <2>3
<1>13. \A s \in Slots : \A i \in DOMAIN hashTable[s] :
          hashTable[s][i].data # e.data
  BY <1>2, <1>3 DEF Ownership, HoldersApart, e
<1>14. e.data \in live'
  BY <1>4, <1>5, <1>12, <1>13 DEF GoodEntry
<1>15. TableGood'
  <2> SUFFICES ASSUME NEW t \in Slots, NEW j \in DOMAIN hashTable'[t]
               PROVE  (GoodEntry(hashTable[t][j]) /\ Hash[hashTable[t][j].key] = t)'
    BY DEF TableGood
  <2>1. CASE t = h
    BY <2>1, <1>1, <1>4, <1>11, <1>14 DEF GoodEntry, Holds, h
  <2>2. CASE t # h
    <3>1. hashTable'[t] = hashTable[t]
      BY <2>2, <1>11
    <3>2. GoodEntry(hashTable[t][j]) /\ Hash[hashTable[t][j].key] = t
      BY <3>1, <1>2 DEF Ownership, TableGood
    <3>3. \A i \in DOMAIN hashTable[h] : hashTable[h][i].data # hashTable[t][j].data
      BY <2>2, <3>1, <1>2, <1>5 DEF Ownership, HoldersApart
    <3>4. hashTable[t][j].data \in live'
      BY <3>2, <3>3, <1>12 DEF GoodEntry
    <3> QED
      BY <3>1, <3>2, <3>4, <1>1 DEF GoodEntry, Holds
  <2> QED
    BY <2>1, <2>2
<1>16. PendingGood'
  <2> SUFFICES ASSUME NEW i \in DOMAIN pending' PROVE GoodEntry(pending[i])'
    BY DEF PendingGood
  <2>1. i + 1 \in DOMAIN pending /\ pending'[i] = pending[i + 1]
    BY <1>3
  <2>2. GoodEntry(pending'[i])
    BY <2>1, <1>2 DEF Ownership, PendingGood
  <2>3. pending'[i].data \in live'
    BY <2>1, <2>2, <1>2, <1>5, <1>12 DEF GoodEntry, Ownership, HoldersApart
  <2> QED
    BY <2>2, <2>3, <1>1 DEF GoodEntry, Holds
<1>17. PagesInMemory' /\ BucketGood'
  BY <1>1, <1>2, <1>12 DEF Ownership, PagesInMemory, BucketGood
<1>18. SlotsFit'
  <2>1. \A t \in Slots : Len(hashTable[t]) <= 1
    BY <1>2, <1>6 DEF Ownership, SlotsFit
  <2>2. \A t \in Slots : Len(hashTable'[t]) <= 1
    BY <2>1, <1>11
  <2> QED
    BY <2>2 DEF SlotsFit
<1>19. HoldersApart'
  <2>1. ASSUME NEW s \in Slots, NEW t \in Slots,
               NEW i \in DOMAIN hashTable'[s], NEW j \in DOMAIN hashTable'[t],
               hashTable'[s][i].data = hashTable'[t][j].data
        PROVE  s = t /\ i = j
    BY <2>1, <1>2, <1>11, <1>13 DEF Ownership, HoldersApart
  <2>2. ASSUME NEW i \in DOMAIN pending', NEW j \in DOMAIN pending',
               pending'[i].data = pending'[j].data
        PROVE  i = j
    <3>1. i + 1 = j + 1
      BY <2>2, <1>2, <1>3 DEF Ownership, HoldersApart
    <3> QED
      BY <3>1, <1>3
  <2>3. ASSUME NEW s \in Slots, NEW i \in DOMAIN hashTable'[s], NEW j \in DOMAIN pending'
        PROVE  hashTable'[s][i].data # pending'[j].data
    <3>1. j + 1 \in DOMAIN pending /\ j + 1 # 1 /\ pending'[j] = pending[j + 1]
      BY <1>3
    <3>2. e.data # pending'[j].data
      BY <3>1, <1>2, <1>3 DEF Ownership, HoldersApart, e
    <3> QED
      BY <3>1, <3>2, <1>2, <1>11 DEF Ownership, HoldersApart
  <2> QED
    BY <2>1, <2>2, <2>3, <1>1 DEF HoldersApart
<1>20. NoneLost'
  <2> SUFFICES ASSUME NEW b \in live'
               PROVE  \/ \E s \in Slots : \E i \in DOMAIN hashTable'[s] :
                           hashTable'[s][i].data = b
                      \/ \E i \in DOMAIN pending' : pending'[i].data = b
    BY <1>12 DEF NoneLost
  <2>1. b \in live /\ \A i \in DOMAIN hashTable[h] : hashTable[h][i].data # b
    BY <1>12
  <2>2. CASE \E s \in Slots : \E i \in DOMAIN hashTable[s] : hashTable[s][i].data = b
    BY <2>1, <2>2, <1>11
  <2>3. CASE \E i \in DOMAIN pending : pending[i].data = b
    <3>1. PICK i \in DOMAIN pending : pending[i].data = b
      BY <2>3
    <3>2. CASE i = 1
      BY <3>1, <3>2, <1>5, <1>11 DEF e
    <3>3. CASE i # 1
      BY <3>1, <3>3, <1>3
    <3> QED
      BY <3>2, <3>3
  <2> QED
    BY <2>1, <2>2, <2>3, <1>1, <1>2 DEF Ownership, NoneLost
<1> QED
  BY <1>11, <1>12, <1>15, <1>16, <1>17, <1>18, <1>19, <1>20 DEF Ownership

(* pushInHashTable of CacheList: one more entry at the end of the slot. *)
LEMMA PushListInv ==
  ASSUME CacheInv, AddInCache, PushList(pending[1])
  PROVE  AllocInv' /\ Ownership' /\ hashTable' \in [Slots -> Seq(Entries)]
<1>1. /\ pc = "idle" /\ pending # << >> /\ pending' = Tail(pending)
      /\ UNCHANGED << noCollision, pc, key, m_bucket, memory >>
  BY DEF AddInCache
<1>2. AllocInv /\ OwnTypeOK /\ Ownership
  BY CacheInvParts, Zenon
<1>3. /\ 1 \in DOMAIN pending
      /\ \A i \in DOMAIN pending' :
            i + 1 \in DOMAIN pending /\ pending'[i] = pending[i + 1]
      /\ \A i \in DOMAIN pending :
            i # 1 => \E j \in DOMAIN pending' : i = j + 1 /\ pending'[j] = pending[i]
      /\ DOMAIN pending' \subseteq Nat /\ 0 \notin DOMAIN pending'
  BY <1>1, <1>2, PendingTail
<1> DEFINE e == pending[1]
           h == Hash[e.key]
<1>4. e \in Entries /\ GoodEntry(e)
  BY <1>2, <1>3, EntriesTyped DEF Ownership, PendingGood
<1>5. h \in Slots
  BY <1>4, CacheAssumption DEF Entries, Slots
<1>6. /\ ~noCollision
      /\ UNCHANGED allocVars
      /\ UNCHANGED << live, m_allocateData >>
      /\ hashTable' = [hashTable EXCEPT ![h] = Append(hashTable[h], e)]
  BY DEF PushList, allocVars
<1> HIDE DEF e, h
<1>7. AllocInv'
  BY <1>2, <1>6, AllocNextInv
<1>8. /\ hashTable[h] \in Seq(Entries) /\ Len(hashTable[h]) \in Nat
      /\ DOMAIN hashTable[h] = 1 .. Len(hashTable[h])
  BY <1>2, <1>5, EntriesTyped
<1> DEFINE last == Len(hashTable[h]) + 1
<1>9. /\ Append(hashTable[h], e) \in Seq(Entries)
      /\ DOMAIN Append(hashTable[h], e) = DOMAIN hashTable[h] \cup {last}
      /\ \A i \in DOMAIN hashTable[h] : Append(hashTable[h], e)[i] = hashTable[h][i]
      /\ Append(hashTable[h], e)[last] = e
      /\ last \notin DOMAIN hashTable[h]
  <2>1. /\ Append(hashTable[h], e) \in Seq(Entries)
        /\ Len(Append(hashTable[h], e)) = Len(hashTable[h]) + 1
        /\ \A i \in 1 .. Len(hashTable[h]) : Append(hashTable[h], e)[i] = hashTable[h][i]
        /\ Append(hashTable[h], e)[Len(hashTable[h]) + 1] = e
    BY <1>4, <1>8, AppendProperties
  <2>2. DOMAIN Append(hashTable[h], e) = 1 .. (Len(hashTable[h]) + 1)
    BY <2>1, LenProperties
  <2> QED
    BY <2>1, <2>2, <1>8
<1> HIDE DEF last
<1>10. /\ hashTable' \in [Slots -> Seq(Entries)]
       /\ DOMAIN hashTable'[h] = DOMAIN hashTable[h] \cup {last}
       /\ \A i \in DOMAIN hashTable[h] : hashTable'[h][i] = hashTable[h][i]
       /\ hashTable'[h][last] = e
       /\ \A t \in Slots : t # h => hashTable'[t] = hashTable[t]
  BY <1>2, <1>5, <1>6, <1>9 DEF OwnTypeOK
<1>11. \A t \in Slots : \A j \in DOMAIN hashTable'[t] :
          \/ t = h /\ j = last /\ hashTable'[t][j] = e
          \/ j \in DOMAIN hashTable[t] /\ hashTable'[t][j] = hashTable[t][j]
  BY <1>10
<1>12. \A s \in Slots : \A i \in DOMAIN hashTable[s] :
          hashTable[s][i].data # e.data
  BY <1>2, <1>3 DEF Ownership, HoldersApart, e
<1>13. TableGood'
  <2> SUFFICES ASSUME NEW t \in Slots, NEW j \in DOMAIN hashTable'[t]
               PROVE  (GoodEntry(hashTable[t][j]) /\ Hash[hashTable[t][j].key] = t)'
    BY DEF TableGood
  <2>1. GoodEntry(hashTable'[t][j]) /\ Hash[hashTable'[t][j].key] = t
    BY <1>2, <1>4, <1>11 DEF Ownership, TableGood, h
  <2> QED
    BY <2>1, <1>1, <1>6 DEF GoodEntry, Holds
<1>14. PendingGood'
  <2> SUFFICES ASSUME NEW i \in DOMAIN pending' PROVE GoodEntry(pending[i])'
    BY DEF PendingGood
  <2>1. GoodEntry(pending'[i])
    BY <1>2, <1>3 DEF Ownership, PendingGood
  <2> QED
    BY <2>1, <1>1, <1>6 DEF GoodEntry, Holds
<1>15. PagesInMemory' /\ BucketGood'
  BY <1>1, <1>2, <1>6 DEF Ownership, PagesInMemory, BucketGood
<1>16. SlotsFit'
  <2>1. ~noCollision'
    BY <1>1, <1>6, Zenon
  <2> QED
    BY <2>1 DEF SlotsFit
<1>17. HoldersApart'
  <2>1. ASSUME NEW s \in Slots, NEW t \in Slots,
               NEW i \in DOMAIN hashTable'[s], NEW j \in DOMAIN hashTable'[t],
               hashTable'[s][i].data = hashTable'[t][j].data
        PROVE  s = t /\ i = j
    BY <2>1, <1>2, <1>11, <1>12 DEF Ownership, HoldersApart
  <2>2. ASSUME NEW i \in DOMAIN pending', NEW j \in DOMAIN pending',
               pending'[i].data = pending'[j].data
        PROVE  i = j
    <3>1. i + 1 = j + 1
      BY <2>2, <1>2, <1>3 DEF Ownership, HoldersApart
    <3> QED
      BY <3>1, <1>3
  <2>3. ASSUME NEW s \in Slots, NEW i \in DOMAIN hashTable'[s], NEW j \in DOMAIN pending'
        PROVE  hashTable'[s][i].data # pending'[j].data
    <3>1. j + 1 \in DOMAIN pending /\ j + 1 # 1 /\ pending'[j] = pending[j + 1]
      BY <1>3
    <3>2. e.data # pending'[j].data
      BY <3>1, <1>2, <1>3 DEF Ownership, HoldersApart, e
    <3> QED
      BY <3>1, <3>2, <1>2, <1>11 DEF Ownership, HoldersApart
  <2> QED
    BY <2>1, <2>2, <2>3, <1>1 DEF HoldersApart
<1>18. NoneLost'
  <2>1. IsFiniteSet(live')
    BY <1>2, <1>6 DEF Ownership, NoneLost
  <2>2. ASSUME NEW b \in live'
        PROVE  \/ \E s \in Slots : \E i \in DOMAIN hashTable'[s] :
                    hashTable'[s][i].data = b
               \/ \E i \in DOMAIN pending' : pending'[i].data = b
    <3>1. CASE \E s \in Slots : \E i \in DOMAIN hashTable[s] : hashTable[s][i].data = b
      BY <3>1, <1>10
    <3>2. CASE \E i \in DOMAIN pending : pending[i].data = b
      <4>1. PICK i \in DOMAIN pending : pending[i].data = b
        BY <3>2
      <4>2. CASE i = 1
        BY <4>1, <4>2, <1>5, <1>10 DEF e
      <4>3. CASE i # 1
        BY <4>1, <4>3, <1>3
      <4> QED
        BY <4>2, <4>3
    <3> QED
      BY <3>1, <3>2, <1>1, <1>2, <1>6 DEF Ownership, NoneLost
  <2> QED
    BY <2>1, <2>2 DEF NoneLost
<1> QED
  BY <1>7, <1>10, <1>13, <1>14, <1>15, <1>16, <1>17, <1>18 DEF Ownership

(* addInCache. *)
LEMMA AddInCacheInv ==
  ASSUME CacheInv, AddInCache
  PROVE  CacheInv'
<1>1. AllocInv' /\ Ownership' /\ hashTable' \in [Slots -> Seq(Entries)]
  BY PushNoCollisionInv, PushListInv DEF AddInCache
<1>2. /\ pc = "idle" /\ pending # << >> /\ pending' = Tail(pending)
      /\ answer' = << None, None >>
      /\ UNCHANGED << noCollision, pc, key, m_bucket, m_limitVarCached,
                      negative, positive, nbReduceCall >>
  BY DEF AddInCache
<1>3. OwnTypeOK /\ noCollision \in BOOLEAN
  BY CacheInvParts, Zenon
<1>4. pending' \in Seq(Entries)
  BY <1>2, <1>3, PendingTail
<1>5. OwnTypeOK'
  BY <1>1, <1>2, <1>3, <1>4 DEF OwnTypeOK
<1>6. HitIsRight' /\ LimitRespected'
  BY <1>2 DEF CacheInv, LimitRespected, HitIsRight
<1>7. noCollision' \in BOOLEAN
  BY <1>2, <1>3, Zenon
<1> QED
  BY <1>1, <1>2, <1>5, <1>6, <1>7, CacheInvAfter

(* Every step of the cache keeps the inductive invariant. *)
LEMMA CacheNextInv == CacheInv /\ [CacheNext]_vars => CacheInv'
<1> SUFFICES ASSUME CacheInv, [CacheNext]_vars PROVE CacheInv'
  OBVIOUS
<1>1. ASSUME NEW k \in Keys, SearchInCache(k) PROVE CacheInv'
  BY <1>1, SearchInCacheInv
<1>2. CASE UNCHANGED vars
  <2>1. UNCHANGED allocVars /\ UNCHANGED cacheVars
    BY <1>2 DEF vars
  <2>2. /\ UNCHANGED << live, m_allocateData >>
        /\ UNCHANGED << noCollision, pc, key, m_bucket, hashTable, pending, memory,
                        m_limitVarCached, negative, positive, nbReduceCall, answer >>
    BY <2>1 DEF allocVars, cacheVars
  <2>3. AllocInv /\ OwnTypeOK /\ Ownership /\ noCollision \in BOOLEAN
    BY CacheInvParts, Zenon
  <2>4. AllocInv'
    BY <2>1, <2>3, AllocNextInv
  <2>5. OwnTypeOK'
    BY <2>2, <2>3 DEF OwnTypeOK
  <2>6. PagesInMemory' /\ SlotsFit' /\ HoldersApart' /\ NoneLost'
    BY <2>2, <2>3 DEF Ownership, PagesInMemory, SlotsFit, HoldersApart, NoneLost
  <2>7. TableGood' /\ PendingGood' /\ BucketGood'
    BY <2>2, <2>3 DEF Ownership, TableGood, PendingGood, BucketGood, GoodEntry, Holds
  <2>8. HitIsRight' /\ LimitRespected' /\ (pc' # "idle" => key' \in Keys)
    BY <2>2 DEF CacheInv, LimitRespected, HitIsRight
  <2>9. noCollision' \in BOOLEAN
    BY <2>2, <2>3, Zenon
  <2> QED
    BY <2>4, <2>5, <2>6, <2>7, <2>8, <2>9, CacheInvAfter DEF Ownership
<1> QED
  BY <1>1, <1>2, ReduceCacheInv, RemoveEntryInv, RemoveEntryDoneInv,
     CollectBucketInv, HitInv, MissInv, AddInCacheInv, DropTmpEntryInv DEF CacheNext

------------------------------------------------------------------------------
(* CacheInv holds in every state of the cache. *)
THEOREM CacheInvariant == CacheSpec => []CacheInv
  BY CacheInitInv, CacheNextInv, PTL DEF CacheSpec

(***************************************************************************)
(* Type correctness: searchInCache, addInCache and the cleaning never      *)
(* leave the hash table, the statistics or the limit outside their types,  *)
(* and no counter of the allocator below them wraps.                       *)
(***************************************************************************)
THEOREM CacheTypeCorrect == CacheSpec => []CacheTypeOK
<1>1. CacheInv => CacheTypeOK
  BY DEF CacheInv
<1> QED
  BY <1>1, CacheInvariant, PTL

(* Distinct places hold distinct blocks, and there are finitely many. *)
LEMMA HoldersCounted ==
  ASSUME CacheInv
  PROVE  OneHolderPerBlock
<1>1. OwnTypeOK /\ Ownership
  BY CacheInvParts, Zenon
<1> DEFINE R(s) == {<< s, i, hashTable[s][i].data >> : i \in DOMAIN hashTable[s]}
           T == UNION {R(s) : s \in Slots}
           P == {<< 0, i, pending[i].data >> : i \in DOMAIN pending}
           B == IF pc = "lookup" THEN {<< 0, 0, m_bucket >>} ELSE {}
<1>2. Holders = T \cup P \cup B
  BY Zenon DEF Holders
<1>3. \A x : x \in T <=> \E s \in Slots : \E i \in DOMAIN hashTable[s] :
                            x = << s, i, hashTable[s][i].data >>
  <2>1. \A x : x \in T <=> \E s \in Slots : x \in R(s)
    <3> HIDE DEF R
    <3> QED
      BY Zenon
  <2> QED
    BY <2>1, Zenon
<1>4. \A x : x \in P <=> \E i \in DOMAIN pending : x = << 0, i, pending[i].data >>
  BY Zenon
<1>5. \A x : x \in B <=> pc = "lookup" /\ x = << 0, 0, m_bucket >>
  OBVIOUS
<1> HIDE DEF T, P, B
<1>6. ASSUME NEW h \in Holders PROVE h[3] \in live
  <2>1. CASE h \in T
    BY <2>1, <1>1, <1>3 DEF Ownership, TableGood, GoodEntry
  <2>2. CASE h \in P
    BY <2>2, <1>1, <1>4 DEF Ownership, PendingGood, GoodEntry
  <2>3. CASE h \in B
    BY <2>3, <1>1, <1>5 DEF Ownership, BucketGood, GoodEntry, Entry
  <2> QED
    BY <2>1, <2>2, <2>3, <1>2
<1>7. ASSUME NEW b \in live PROVE \E h \in Holders : h[3] = b
  <2>1. CASE \E s \in Slots : \E i \in DOMAIN hashTable[s] : hashTable[s][i].data = b
    <3>1. PICK s \in Slots : \E i \in DOMAIN hashTable[s] : hashTable[s][i].data = b
      BY <2>1
    <3>2. PICK i \in DOMAIN hashTable[s] : hashTable[s][i].data = b
      BY <3>1
    <3>3. << s, i, b >> \in Holders
      BY <3>2, <1>2, <1>3, Zenon
    <3> QED
      BY <3>3
  <2>2. CASE \E i \in DOMAIN pending : pending[i].data = b
    <3>1. PICK i \in DOMAIN pending : pending[i].data = b
      BY <2>2
    <3>2. << 0, i, b >> \in Holders
      BY <3>1, <1>2, <1>4, Zenon
    <3> QED
      BY <3>2
  <2>3. CASE pc = "lookup" /\ m_bucket = b
    <3>1. << 0, 0, b >> \in Holders
      BY <2>3, <1>2, <1>5, Zenon
    <3> QED
      BY <3>1
  <2> QED
    BY <2>1, <2>2, <2>3, <1>1 DEF Ownership, NoneLost
<1>8. ASSUME NEW h \in Holders, NEW g \in Holders, h[3] = g[3] PROVE h = g
  <2>1. \A x, y \in T : x[3] = y[3] => x = y
    BY <1>1, <1>3 DEF Ownership, HoldersApart
  <2>2. \A x, y \in P : x[3] = y[3] => x = y
    BY <1>1, <1>4 DEF Ownership, HoldersApart
  <2>3. \A x \in T : \A y \in P : x[3] # y[3]
    BY <1>1, <1>3, <1>4 DEF Ownership, HoldersApart
  <2>4. \A x \in T : \A y \in B : x[3] # y[3]
    BY <1>1, <1>3, <1>5 DEF Ownership, HoldersApart
  <2>5. \A x \in P : \A y \in B : x[3] # y[3]
    BY <1>1, <1>4, <1>5 DEF Ownership, HoldersApart
  <2>6. \A x, y \in B : x = y
    BY <1>5
  <2> QED
    BY <1>2, <1>8, <2>1, <2>2, <2>3, <2>4, <2>5, <2>6
<1> DEFINE f == [h \in Holders |-> h[3]]
<1>9. f \in Injection(Holders, live) /\ f \in Surjection(Holders, live)
  BY <1>6, <1>7, <1>8 DEF Injection, Surjection, IsInjective
<1>10. IsFiniteSet(live)
  BY <1>1 DEF Ownership, NoneLost
<1>11. Cardinality(Holders) = Cardinality(live)
  <2> HIDE DEF f
  <2> QED
    BY <1>9, <1>10, FS_Injection
<1> QED
  BY <1>6, <1>7, <1>11 DEF OneHolderPerBlock

(***************************************************************************)
(* No block is lost and none is released twice, whatever is searched,      *)
(* added, dropped, replaced or cleaned, for every number of callers and    *)
(* every size of the table.                                                *)
(***************************************************************************)
THEOREM CacheOneHolder == CacheSpec => []OneHolderPerBlock
<1>1. CacheInv => OneHolderPerBlock
  BY HoldersCounted
<1> QED
  BY <1>1, CacheInvariant, PTL

(***************************************************************************)
(* storeFormula never writes over the bytes of an entry that the table or  *)
(* a caller still holds.                                                   *)
(***************************************************************************)
THEOREM CacheBytesIntact == CacheSpec => []BytesIntact
<1>1. ASSUME CacheInv PROVE BytesIntact
  <2>1. Ownership
    BY <1>1, CacheInvParts, Zenon
  <2>2. pc = "lookup" => Holds(m_bucket, key)
    BY <2>1 DEF Ownership, BucketGood, GoodEntry, Entry
  <2> QED
    BY <2>1, <2>2 DEF BytesIntact, Ownership, TableGood, PendingGood, GoodEntry
<1> QED
  BY <1>1, CacheInvariant, PTL

(***************************************************************************)
(* searchInCache returns the count stored for the very formula it was      *)
(* asked for, in spite of equal hashes, equal headers and memory reused.   *)
(***************************************************************************)
THEOREM CacheHitIsRight == CacheSpec => []HitIsRight
<1>1. CacheInv => HitIsRight
  BY DEF CacheInv
<1> QED
  BY <1>1, CacheInvariant, PTL

(***************************************************************************)
(* reduceCache and setLimitVarCache keep the limit between                 *)
(* MIN_NBVAR_NOTCACHED and the number of variables, however often they     *)
(* are called.                                                             *)
(***************************************************************************)
THEOREM CacheLimitRespected == CacheSpec => []LimitRespected
<1>1. CacheInv => LimitRespected
  BY DEF CacheInv
<1> QED
  BY <1>1, CacheInvariant, PTL

(***************************************************************************)
(* The cache uses the allocator as it is meant to be used: every step of   *)
(* it is a getArray of a size the allocator can serve, a releaseMemory of  *)
(* a block in use, a reinitComsumedMemory, or leaves the allocator alone.  *)
(* So what is proved of the allocator alone holds below the cache.         *)
(***************************************************************************)
THEOREM CacheImplementsAllocator == CacheSpec => AllocSpec
<1>1. CacheInit => AllocInit
  BY DEF CacheInit
<1>2. ASSUME CacheInv, [CacheNext]_vars PROVE [AllocNext]_allocVars
  <2>1. ASSUME NEW b, ReleaseMemory(b) PROVE AllocNext
    BY <2>1, ReleaseMemoryLive DEF AllocNext
  <2>2. ASSUME NEW k \in Keys, SearchInCache(k) PROVE UNCHANGED allocVars
    BY <2>2 DEF SearchInCache
  <2>3. CASE ReduceCache \/ Miss
    BY <2>3 DEF ReduceCache, Miss
  <2>4. CASE RemoveEntry
    BY <2>1, <2>4 DEF RemoveEntry
  <2>5. CASE RemoveEntryDone
    BY <2>5 DEF RemoveEntryDone, AllocNext
  <2>6. CASE CollectBucket
    <3>1. GetArray(SzData[key]) /\ key \in Keys
      BY <1>2, <2>6 DEF CollectBucket, CacheInv
    <3>2. SzData[key] \in Request
      BY <3>1, CacheAssumption
    <3> QED
      BY <3>1, <3>2 DEF AllocNext
  <2>7. CASE Hit
    BY <2>1, <2>7 DEF Hit
  <2>8. CASE AddInCache
    BY <2>1, <2>8 DEF AddInCache, PushNoCollision, PushList
  <2>9. CASE DropTmpEntry
    BY <2>1, <2>9 DEF DropTmpEntry
  <2>10. CASE UNCHANGED vars
    BY <2>10 DEF vars
  <2> QED
    BY <1>2, <2>2, <2>3, <2>4, <2>5, <2>6, <2>7, <2>8, <2>9, <2>10 DEF CacheNext
<1> QED
  BY <1>1, <1>2, CacheInvariant, PTL DEF CacheSpec, AllocSpec
=============================================================================
