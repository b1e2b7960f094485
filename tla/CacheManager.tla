---------------------------- MODULE CacheManager ----------------------------
(***************************************************************************)
(* The component cache over its allocator: src/src/caching/CacheManager.hpp, *)
(* its two hash tables (CacheNoCollision.hpp, CacheList.hpp) and the       *)
(* cleaning by expected hits (cleaning/CacheCleaningExpectation.hpp).      *)
(*                                                                         *)
(* A key is a residual formula: the bytes storeFormula writes for it, with *)
(* a header (its variables, its size) and a hash.  The value stored under  *)
(* a key is the key itself, so a hit is right when it returns the key that *)
(* was asked for.  "memory" says, for every address, which byte of which   *)
(* key was written there last, so memcmp reads what the memory really      *)
(* holds.  The callers keep the entries of the components they are still   *)
(* counting: "pending", innermost first.                                   *)
(***************************************************************************)
EXTENDS BucketAllocator, SequencesExt

CONSTANTS
  Keys,              \* the residual formulas
  NbVar,             \* their numbers of variables, header.nbVar()
  SzData,            \* their sizes in bytes, header.szData()
  Hash,              \* their slots, computeHash() % SIZE_HASH
  NbSlots,           \* SIZE_HASH
  NoCollision,       \* the tables: TRUE is CacheNoCollision, FALSE CacheList
  NbInitVar,         \* the variables of the formula
  MaxNbVarCached,    \* MAX_NBVAR_CACHED
  MinNbVarNotCached, \* MIN_NBVAR_NOTCACHED
  MaxStat,           \* bound: look-ups counted for one number of variables
  MaxReduce          \* bound: calls of reduceCache

ASSUME CacheAssumption ==
  /\ NbVar \in [Keys -> 1 .. NbInitVar]
  /\ SzData \in [Keys -> Request]
  /\ Hash \in [Keys -> 1 .. NbSlots]
  /\ NoCollision \subseteq BOOLEAN
  /\ NbSlots \in Nat
  /\ NbInitVar \in Nat
  /\ MaxNbVarCached \in Nat
  /\ MinNbVarNotCached \in 0 .. MaxNbVarCached
  /\ MaxStat \in Nat
  /\ MaxReduce \in Nat

VARIABLES
  noCollision,      \* the table in use; never changes
  pc,               \* where searchInCache is; "idle" outside of it
  key,              \* the component searchInCache was called for
  m_bucket,         \* the bucket it just collected
  hashTable,        \* the entries of every slot
  pending,          \* the TmpEntry objects of the callers, innermost first
  memory,           \* the byte each address holds
  m_limitVarCached,
  negative,         \* m_statVar[i].negative
  positive,         \* m_statVar[i].positive
  nbReduceCall,     \* m_nbReduceCall; m_threshold is 0.05 times it
  answer            \* the component asked for last and the value returned

cacheVars == << noCollision, pc, key, m_bucket, hashTable, pending, memory,
                m_limitVarCached, negative, positive, nbReduceCall, answer >>
vars == << allocVars, cacheVars >>

None == "none"
NoBlock == Block(0, 0)
Slots == 1 .. NbSlots
Entry(b, k) == [data |-> b, key |-> k, fc |-> k]

(* What the bytes of the block b are once the key k is written in it. *)
Written(k, b) ==
  [a \in DOMAIN memory |->
     IF a \in b.addr .. (b.addr + b.size - 1) THEN << k, a - b.addr >>
                                              ELSE memory[a]]

Holds(b, k) ==
  \A a \in b.addr .. (b.addr + b.size - 1) : memory[a] = << k, a - b.addr >>

------------------------------------------------------------------------------
CacheInit ==
  /\ AllocInit
  /\ noCollision \in NoCollision
  /\ pc = "idle"
  /\ key = None
  /\ m_bucket = NoBlock
  /\ hashTable = [s \in Slots |-> << >>]
  /\ pending = << >>
  /\ memory = [a \in UNION {b .. b + SizeFirstPage + SizeAdditionalPage
                              : b \in Bases} |-> << None, 0 >>]
  /\ m_limitVarCached = IF NbInitVar < MaxNbVarCached THEN NbInitVar
                                                      ELSE MaxNbVarCached
  /\ negative = [i \in 0 .. NbInitVar |-> 0]
  /\ positive = [i \in 0 .. NbInitVar |-> 0]
  /\ nbReduceCall = 0
  /\ answer = << None, None >>

IsActivated(nbVar) == nbVar <= m_limitVarCached

(* A component below the one being counted, which has fewer variables. *)
SearchInCache(k) ==
  /\ pc = "idle"
  /\ IsActivated(NbVar[k])
  /\ pending # << >> => NbVar[k] < NbVar[pending[1].key]
  /\ pc' = IF m_consumedMemory THEN "reduce" ELSE "collect"
  /\ key' = k
  /\ UNCHANGED << noCollision, allocVars, m_bucket, hashTable, pending,
                  memory, m_limitVarCached, negative, positive, nbReduceCall,
                  answer >>

------------------------------------------------------------------------------
(* reduceCache. *)

(* The ratio of hits to misses at i is above m_threshold = nbReduceCall/20. *)
Worthwhile(i) ==
  negative[i] # 0 /\ 20 * positive[i] > nbReduceCall * negative[i]

(* The sizes the loop visits, from the limit down, until one is worthwhile. *)
Visited ==
  {i \in (MinNbVarNotCached + 1) .. m_limitVarCached :
     \A j \in (i + 1) .. m_limitVarCached : ~Worthwhile(j)}

(* Mutant of LoweredLimit: the limit may fall to the last size visited. *)
LoweredLimitTooFar ==
  m_limitVarCached - Cardinality({i \in Visited : ~Worthwhile(i)}) - 1

(* The limit when the loop ends. *)
LoweredLimit ==
  m_limitVarCached - Cardinality({i \in Visited : ~Worthwhile(i)})

(* setLimitVarCache(limit * 1.1). *)
SetLimitVarCache(limit) ==
  LET val == (limit * 11) \div 10 IN
  m_limitVarCached' = IF val <= NbInitVar THEN val ELSE NbInitVar

ReduceCache ==
  /\ pc = "reduce"
  /\ nbReduceCall < MaxReduce
  /\ nbReduceCall' = nbReduceCall + 1
  /\ negative' = [i \in DOMAIN negative |->
                    IF i \in Visited THEN negative[i] \div 2 ELSE negative[i]]
  /\ positive' = [i \in DOMAIN positive |->
                    IF i \in Visited /\ negative[i] # 0 THEN positive[i] \div 2
                                                        ELSE positive[i]]
  /\ SetLimitVarCache(LoweredLimit)
  /\ pc' = "remove"
  /\ UNCHANGED << noCollision, allocVars, key, m_bucket, hashTable, pending,
                  memory, answer >>

(* The test removeEntry is given. *)
TooLarge(e) == NbVar[e.key] >= m_limitVarCached

(* Mutant of TableWithout: the entry is released but not reset. *)
TableUnchanged(s, i) == hashTable

(* The slot s without its i-th entry. *)
TableWithout(s, i) == [hashTable EXCEPT ![s] = RemoveAt(@, i)]

(* removeEntry releases the first entry left that passes the test. *)
RemoveEntry ==
  /\ pc = "remove"
  /\ \E s \in Slots : \E i \in DOMAIN hashTable[s] :
       /\ TooLarge(hashTable[s][i])
       /\ \A t \in 1 .. (s - 1) : \A j \in DOMAIN hashTable[t] :
             ~TooLarge(hashTable[t][j])
       /\ \A j \in 1 .. (i - 1) : ~TooLarge(hashTable[s][j])
       /\ ReleaseMemory(hashTable[s][i].data)
       /\ hashTable' = TableWithout(s, i)
  /\ UNCHANGED << noCollision, pc, key, m_bucket, pending, memory,
                  m_limitVarCached, negative, positive, nbReduceCall,
                  answer >>

RemoveEntryDone ==
  /\ pc = "remove"
  /\ \A s \in Slots : \A i \in DOMAIN hashTable[s] :
        ~TooLarge(hashTable[s][i])
  /\ ReinitComsumedMemory
  /\ pc' = "collect"
  /\ UNCHANGED << noCollision, key, m_bucket, hashTable, pending, memory,
                  m_limitVarCached, negative, positive, nbReduceCall,
                  answer >>

------------------------------------------------------------------------------
(* collectBucket: storeFormula asks for a block and writes the key there. *)
CollectBucket ==
  /\ pc = "collect"
  /\ GetArray(SzData[key])
  /\ \E b \in live' \ live :
       /\ m_bucket' = b
       /\ memory' = Written(key, b)
  /\ pc' = "lookup"
  /\ UNCHANGED << noCollision, key, hashTable, pending, m_limitVarCached,
                  negative, positive, nbReduceCall, answer >>

SameHeader(k, l) == NbVar[k] = NbVar[l] /\ SzData[k] = SzData[l]

(* Mutant of SameEntry: the bytes are not compared. *)
SameHeaderOnly(e) == SameHeader(key, e.key)

(* sameHeader, then memcmp of what the two blocks hold. *)
SameEntry(e) ==
  /\ SameHeader(key, e.key)
  /\ \A o \in 0 .. (SzData[key] - 1) :
        memory[e.data.addr + o] = memory[m_bucket.addr + o]

(* The place in its slot of the first entry that is the same, if any. *)
Hits ==
  {i \in DOMAIN hashTable[Hash[key]] :
     /\ SameEntry(hashTable[Hash[key]][i])
     /\ \A j \in 1 .. (i - 1) : ~SameEntry(hashTable[Hash[key]][j])}

(* bucketAlreadyExist and updateCountCachedBucket, with a hit: the bucket
   just filled is given back. *)
Hit ==
  /\ pc = "lookup"
  /\ positive[NbVar[key]] < MaxStat
  /\ positive' = [positive EXCEPT ![NbVar[key]] = @ + 1]
  /\ \E i \in Hits : answer' = << key, hashTable[Hash[key]][i].fc >>
  /\ ReleaseMemory(m_bucket)
  /\ pc' = "idle"
  /\ key' = None
  /\ m_bucket' = NoBlock
  /\ UNCHANGED << noCollision, hashTable, pending, memory, m_limitVarCached,
                  negative, nbReduceCall >>

(* ... and without: the caller keeps the bucket in a TmpEntry. *)
Miss ==
  /\ pc = "lookup"
  /\ Hits = {}
  /\ negative[NbVar[key]] < MaxStat
  /\ negative' = [negative EXCEPT ![NbVar[key]] = @ + 1]
  /\ pending' = << Entry(m_bucket, key) >> \o pending
  /\ answer' = << None, None >>
  /\ pc' = "idle"
  /\ key' = None
  /\ m_bucket' = NoBlock
  /\ UNCHANGED << noCollision, allocVars, hashTable, memory, m_limitVarCached,
                  positive, nbReduceCall >>

------------------------------------------------------------------------------
(* pushInHashTable of CacheNoCollision: the entry in the slot gives way. *)
PushNoCollision(e) ==
  LET slot == hashTable[Hash[e.key]] IN
  /\ noCollision
  /\ IF slot # << >> THEN ReleaseMemory(slot[1].data) ELSE UNCHANGED allocVars
  /\ hashTable' = [hashTable EXCEPT ![Hash[e.key]] = << e >>]

(* pushInHashTable of CacheList. *)
PushList(e) ==
  /\ ~noCollision
  /\ hashTable' = [hashTable EXCEPT ![Hash[e.key]] = Append(@, e)]
  /\ UNCHANGED allocVars

(* The innermost component is counted: addInCache. *)
AddInCache ==
  /\ pc = "idle"
  /\ pending # << >>
  /\ PushNoCollision(pending[1]) \/ PushList(pending[1])
  /\ pending' = Tail(pending)
  /\ answer' = << None, None >>
  /\ UNCHANGED << noCollision, pc, key, m_bucket, memory, m_limitVarCached,
                  negative, positive, nbReduceCall >>

(* Its count is not to be kept: releaseMemory(CachedBucket). *)
DropTmpEntry ==
  /\ pc = "idle"
  /\ pending # << >>
  /\ ReleaseMemory(pending[1].data)
  /\ pending' = Tail(pending)
  /\ answer' = << None, None >>
  /\ UNCHANGED << noCollision, pc, key, m_bucket, hashTable, memory,
                  m_limitVarCached, negative, positive, nbReduceCall >>

CacheNext ==
  \/ \E k \in Keys : SearchInCache(k)
  \/ ReduceCache
  \/ RemoveEntry
  \/ RemoveEntryDone
  \/ CollectBucket
  \/ Hit
  \/ Miss
  \/ AddInCache
  \/ DropTmpEntry

CacheSpec == CacheInit /\ [][CacheNext]_vars

------------------------------------------------------------------------------
Entries == [data : Blocks, key : Keys, fc : Keys]

CacheTypeOK ==
  /\ AllocTypeOK
  /\ pc \in {"idle", "reduce", "remove", "collect", "lookup"}
  /\ key \in Keys \cup {None}
  /\ m_bucket \in Blocks
  /\ hashTable \in [Slots -> Seq(Entries)]
  /\ pending \in Seq(Entries)
  /\ m_limitVarCached \in Nat
  /\ negative \in [0 .. NbInitVar -> 0 .. MaxStat]
  /\ positive \in [0 .. NbInitVar -> 0 .. MaxStat]
  /\ nbReduceCall \in 0 .. MaxReduce

(* Every place that holds a block, with its block. *)
Holders ==
  (UNION {{<< s, i, hashTable[s][i].data >> : i \in DOMAIN hashTable[s]}
            : s \in Slots})
    \cup {<< 0, i, pending[i].data >> : i \in DOMAIN pending}
    \cup (IF pc = "lookup" THEN {<< 0, 0, m_bucket >>} ELSE {})

(***************************************************************************)
(* Every block the allocator handed out has exactly one holder: none is    *)
(* lost when an entry is replaced, removed, dropped or found a second      *)
(* time, and none is released while the table or a caller still uses it.   *)
(***************************************************************************)
OneHolderPerBlock ==
  /\ live = {h[3] : h \in Holders}
  /\ Cardinality(live) = Cardinality(Holders)

(***************************************************************************)
(* The bytes of an entry stay those of its key as long as the table or a   *)
(* caller holds it, whatever is stored and removed meanwhile.              *)
(***************************************************************************)
BytesIntact ==
  /\ \A s \in Slots : \A i \in DOMAIN hashTable[s] :
        LET e == hashTable[s][i] IN Holds(e.data, e.key) /\ Hash[e.key] = s
  /\ \A i \in DOMAIN pending : Holds(pending[i].data, pending[i].key)
  /\ pc = "lookup" => Holds(m_bucket, key)

(* searchInCache only ever returns the value stored for what was asked. *)
HitIsRight == answer[1] = answer[2]

(***************************************************************************)
(* Cleaning never stops the caching of components of at most               *)
(* MIN_NBVAR_NOTCACHED variables, and never allows more than the formula   *)
(* has.                                                                    *)
(***************************************************************************)
LimitRespected ==
  /\ m_limitVarCached <= NbInitVar
  /\ m_limitVarCached < MinNbVarNotCached => m_limitVarCached = NbInitVar

------------------------------------------------------------------------------
(* What the properties above rest on. *)

(* operator new places pages of the two sizes at the addresses it may use, so
   every byte of a block is a byte of the memory. *)
PagesInMemory ==
  /\ \A p \in m_allocateData :
        p.addr \in Bases /\ p.size \in {SizeFirstPage, SizeAdditionalPage}
  /\ DOMAIN memory = UNION {b .. b + SizeFirstPage + SizeAdditionalPage
                              : b \in Bases}

(* An entry keeps a block that is its own and has the size of its key, filled
   with its key, and the value of its key. *)
GoodEntry(e) ==
  /\ e.data \in live
  /\ e.data.size = SzData[e.key]
  /\ e.fc = e.key
  /\ Holds(e.data, e.key)

TableGood ==
  \A s \in Slots : \A i \in DOMAIN hashTable[s] :
     GoodEntry(hashTable[s][i]) /\ Hash[hashTable[s][i].key] = s

PendingGood == \A i \in DOMAIN pending : GoodEntry(pending[i])

BucketGood == pc = "lookup" => GoodEntry(Entry(m_bucket, key))

(* A slot of CacheNoCollision never holds two entries. *)
SlotsFit == noCollision => \A s \in Slots : Len(hashTable[s]) <= 1

(* No block has two holders. *)
HoldersApart ==
  /\ \A s, t \in Slots : \A i \in DOMAIN hashTable[s], j \in DOMAIN hashTable[t] :
        hashTable[s][i].data = hashTable[t][j].data => s = t /\ i = j
  /\ \A i, j \in DOMAIN pending : pending[i].data = pending[j].data => i = j
  /\ \A s \in Slots : \A i \in DOMAIN hashTable[s], j \in DOMAIN pending :
        hashTable[s][i].data # pending[j].data
  /\ pc = "lookup" =>
        /\ \A s \in Slots : \A i \in DOMAIN hashTable[s] :
              hashTable[s][i].data # m_bucket
        /\ \A i \in DOMAIN pending : pending[i].data # m_bucket

(* Every block has a holder. *)
NoneLost ==
  /\ IsFiniteSet(live)
  /\ \A b \in live :
        \/ \E s \in Slots : \E i \in DOMAIN hashTable[s] : hashTable[s][i].data = b
        \/ \E i \in DOMAIN pending : pending[i].data = b
        \/ pc = "lookup" /\ m_bucket = b

(* The inductive invariant of CacheSpec. *)
CacheInv ==
  /\ AllocInv
  /\ CacheTypeOK
  /\ noCollision \in BOOLEAN
  /\ pc # "idle" => key \in Keys
  /\ PagesInMemory
  /\ TableGood
  /\ PendingGood
  /\ BucketGood
  /\ SlotsFit
  /\ HoldersApart
  /\ NoneLost
  /\ HitIsRight
  /\ LimitRespected
==============================================================================
