--------------------------- MODULE BucketAllocator ---------------------------
(***************************************************************************)
(* The memory of the component cache, src/src/caching/bucket/              *)
(* BucketAllocator.{hpp,cpp}.  One allocator serves every bucket manager:  *)
(* it cuts blocks off the current page, keeps the released ones in lists   *)
(* indexed by their size, and asks operator new for one more page when     *)
(* neither gives a block.                                                  *)
(*                                                                         *)
(* Addresses are integers, so the pointer comparison of releaseMemory is   *)
(* an integer comparison and pages may be neighbours in memory.  A free    *)
(* list is the set of its blocks: the code pops the last one pushed, the   *)
(* model any one of them.  "live" is not a variable of the code: it is the *)
(* set of blocks handed out and not given back yet.                        *)
(***************************************************************************)
EXTENDS Integers, FiniteSets

CONSTANTS
  SizeFirstPage,       \* m_sizeFirstPage, an option
  SizeAdditionalPage,  \* m_sizeAdditionalPage, an option
  MaxRequest,          \* bound: the largest block a bucket manager asks for
  MaxPages,            \* bound: the pages operator new can still provide
  Bases                \* where operator new may place a page

(***************************************************************************)
(* getArray does not look whether the block fits a fresh page, so its      *)
(* callers must never ask for more than an additional page.                *)
(***************************************************************************)
ASSUME PageAssumption ==
  /\ SizeFirstPage \in Nat \ {0}
  /\ SizeAdditionalPage \in Nat \ {0}
  /\ MaxRequest \in 1 .. SizeAdditionalPage
  /\ MaxPages \in Nat
  /\ Bases \subseteq Nat

VARIABLES
  m_allocateData,   \* the pages obtained from operator new
  m_data,           \* the address of the current page
  m_sizeData,       \* its size
  m_posInData,      \* the first byte of it that was never handed out
  m_freeSpace,      \* the released blocks, all sizes together
  sizeFreeSpace,    \* m_freeSpace.size(): one more than the largest index
  m_allMemory,
  m_freeMemory,
  m_usedMemory,
  m_consumedMemory, \* a page was added since the cache last reduced itself
  live              \* the blocks in the callers' hands

allocVars == << m_allocateData, m_data, m_sizeData, m_posInData, m_freeSpace,
                sizeFreeSpace, m_allMemory, m_freeMemory, m_usedMemory,
                m_consumedMemory, live >>

Block(a, s) == [addr |-> a, size |-> s]
Blocks == [addr : Nat, size : Nat]
Request == 1 .. MaxRequest

(* The byte ranges of two blocks have no byte in common. *)
Apart(b, c) == b.addr + b.size <= c.addr \/ c.addr + c.size <= b.addr
Within(b, c) == c.addr <= b.addr /\ b.addr + b.size <= c.addr + c.size

(* operator new[]: a region that no earlier page touches. *)
NewPage(p, size) ==
  /\ p.addr \in Bases
  /\ p.size = size
  /\ \A q \in m_allocateData : Apart(p, q)

------------------------------------------------------------------------------
(* init, the first page. *)
AllocInit ==
  /\ \E base \in Bases :
        /\ m_data = base
        /\ m_allocateData = {Block(base, SizeFirstPage)}
  /\ m_sizeData = SizeFirstPage
  /\ m_allMemory = SizeFirstPage
  /\ m_posInData = 0
  /\ m_freeSpace = {}
  /\ sizeFreeSpace = 0
  /\ m_freeMemory = 0
  /\ m_usedMemory = 0
  /\ m_consumedMemory = FALSE
  /\ live = {}

OfSize(size) == {b \in m_freeSpace : b.size = size}

(* The test that sends getArray to the free lists. *)
UseFreeSpace(size) ==
  /\ sizeFreeSpace > size
  /\ OfSize(size) # {} \/ size < sizeFreeSpace \div 2

(* Mutant of TrimmedSize: the loop drops nothing. *)
UntrimmedSize(free) == sizeFreeSpace

(* The trailing loop of getArray drops the empty lists at the end. *)
TrimmedSize(free) ==
  IF free = {} THEN 0
  ELSE 1 + CHOOSE m \in {b.size : b \in free} : \A b \in free : b.size <= m

(* Mutants of SplitRest: the tail starts too early, or stays too long. *)
SplitRestEarly(b, size) == Block(b.addr, b.size - size)
SplitRestLong(b, size) == Block(b.addr + size, b.size)

(* What stays free of the block b when its first bytes are handed out. *)
SplitRest(b, size) == Block(b.addr + size, b.size - size)

(* A block of the size asked for, or else the front of the largest block. *)
GetFromFreeSpace(size) ==
  /\ UseFreeSpace(size)
  /\ \/ \E b \in OfSize(size) :
          /\ live' = live \cup {b}
          /\ m_freeSpace' = m_freeSpace \ {b}
     \/ /\ OfSize(size) = {}
        /\ \E b \in OfSize(sizeFreeSpace - 1) :
             /\ live' = live \cup {Block(b.addr, size)}
             /\ m_freeSpace' = (m_freeSpace \ {b}) \cup {SplitRest(b, size)}
  /\ sizeFreeSpace' = TrimmedSize(m_freeSpace')
  /\ m_freeMemory' = m_freeMemory - size
  /\ m_usedMemory' = m_usedMemory + size
  /\ UNCHANGED << m_allocateData, m_data, m_sizeData, m_posInData,
                  m_allMemory, m_consumedMemory >>

(* The next bytes of the current page. *)
GetFromPage(size) ==
  /\ ~UseFreeSpace(size)
  /\ m_posInData + size <= m_sizeData
  /\ live' = live \cup {Block(m_data + m_posInData, size)}
  /\ m_posInData' = m_posInData + size
  /\ m_usedMemory' = m_usedMemory + size
  /\ UNCHANGED << m_allocateData, m_data, m_sizeData, m_freeSpace,
                  sizeFreeSpace, m_allMemory, m_freeMemory, m_consumedMemory >>

(* Mutant of PageRest: one byte of the page is lost. *)
PageRestShort ==
  Block(m_data + m_posInData,
        IF m_sizeData > m_posInData THEN m_sizeData - m_posInData - 1 ELSE 0)

(* What was never handed out of the current page. *)
PageRest == Block(m_data + m_posInData, m_sizeData - m_posInData)

(* A new page; what is left of the current one becomes a free block. *)
GetFromNewPage(size) ==
  /\ ~UseFreeSpace(size)
  /\ m_posInData + size > m_sizeData
  /\ Cardinality(m_allocateData) < MaxPages
  /\ m_freeSpace' = m_freeSpace \cup {PageRest}
  /\ sizeFreeSpace' = IF sizeFreeSpace <= PageRest.size THEN PageRest.size + 1
                                                        ELSE sizeFreeSpace
  /\ m_freeMemory' = m_freeMemory + PageRest.size
  /\ \E base \in Bases :
       /\ NewPage(Block(base, SizeAdditionalPage), SizeAdditionalPage)
       /\ m_data' = base
       /\ m_allocateData' = m_allocateData
                              \cup {Block(base, SizeAdditionalPage)}
       /\ live' = live \cup {Block(base, size)}
  /\ m_sizeData' = SizeAdditionalPage
  /\ m_posInData' = size
  /\ m_allMemory' = m_allMemory + SizeAdditionalPage
  /\ m_usedMemory' = m_usedMemory + size
  /\ m_consumedMemory' = TRUE

GetArray(size) ==
  GetFromFreeSpace(size) \/ GetFromPage(size) \/ GetFromNewPage(size)

(* Mutant of IsLastOfPage: the first block of a page is given back as well. *)
IsLastOrFirstOfPage(b) == m_data + m_posInData - b.size = b.addr

(***************************************************************************)
(* The block is the last one cut off the current page, and not the only    *)
(* one.  The difference is unsigned in the code, so "> 0" means "not 0",   *)
(* and the address wraps the way the sum of integers does.                 *)
(***************************************************************************)
IsLastOfPage(b) ==
  /\ m_posInData - b.size # 0
  /\ m_data + m_posInData - b.size = b.addr

ReleaseMemory(b) ==
  /\ b \in live
  /\ live' = live \ {b}
  /\ m_usedMemory' = m_usedMemory - b.size
  /\ \/ /\ IsLastOfPage(b)
        /\ m_posInData' = m_posInData - b.size
        /\ UNCHANGED << m_freeSpace, sizeFreeSpace, m_freeMemory >>
     \/ /\ ~IsLastOfPage(b)
        /\ m_freeSpace' = m_freeSpace \cup {b}
        /\ sizeFreeSpace' = IF b.size >= sizeFreeSpace THEN b.size + 1
                                                       ELSE sizeFreeSpace
        /\ m_freeMemory' = m_freeMemory + b.size
        /\ UNCHANGED m_posInData
  /\ UNCHANGED << m_allocateData, m_data, m_sizeData, m_allMemory,
                  m_consumedMemory >>

(* reinitComsumedMemory, called once the cache has reduced itself. *)
ReinitComsumedMemory ==
  /\ m_consumedMemory
  /\ m_consumedMemory' = FALSE
  /\ UNCHANGED << m_allocateData, m_data, m_sizeData, m_posInData, m_freeSpace,
                  sizeFreeSpace, m_allMemory, m_freeMemory, m_usedMemory,
                  live >>

AllocNext ==
  \/ \E size \in Request : GetArray(size)
  \/ \E b \in live : ReleaseMemory(b)
  \/ ReinitComsumedMemory

AllocSpec == AllocInit /\ [][AllocNext]_allocVars

------------------------------------------------------------------------------
AllocTypeOK ==
  /\ m_allocateData \subseteq Blocks
  /\ m_data \in Nat
  /\ m_sizeData \in Nat
  /\ m_posInData \in Nat
  /\ m_freeSpace \subseteq Blocks
  /\ sizeFreeSpace \in Nat
  /\ m_allMemory \in Nat
  /\ m_freeMemory \in Int
  /\ m_usedMemory \in Int
  /\ m_consumedMemory \in BOOLEAN
  /\ live \subseteq Blocks

(***************************************************************************)
(* No byte is in two blocks: what one caller writes never shows in the     *)
(* bucket of another, nor in a block that waits in a free list, and no     *)
(* block waits in a free list while a caller still holds it.               *)
(***************************************************************************)
NoOverlap ==
  /\ live \cap m_freeSpace = {}
  /\ \A b, c \in live \cup m_freeSpace :
        b # c /\ b.size > 0 /\ c.size > 0 => Apart(b, c)

(***************************************************************************)
(* Every block lies in a page, and below m_posInData when that page is the *)
(* current one, so the next block cut off it is nobody's.                  *)
(***************************************************************************)
InsidePages ==
  \A b \in live \cup m_freeSpace :
     /\ \E p \in m_allocateData : Within(b, p)
     /\ b.size > 0 => Apart(b, Block(m_data + m_posInData,
                                     m_sizeData - m_posInData))

(***************************************************************************)
(* The last free list is never empty, and no block is filed beyond it:     *)
(* assert(m_freeSpace[bigSize].size()) in getArray.                        *)
(***************************************************************************)
LastListUsed ==
  /\ \A b \in m_freeSpace : b.size < sizeFreeSpace
  /\ sizeFreeSpace > 0 => OfSize(sizeFreeSpace - 1) # {}

(***************************************************************************)
(* The three counters account for every byte of every page, so             *)
(* remainingMemory and usedMemory report the truth.                        *)
(***************************************************************************)
Conservation ==
  m_usedMemory + m_freeMemory + (m_sizeData - m_posInData) = m_allMemory

------------------------------------------------------------------------------
(* What the properties above rest on. *)

(* Pages are disjoint, and the current one is among them. *)
PagesApart ==
  /\ \A p, q \in m_allocateData : p # q => Apart(p, q)
  /\ Block(m_data, m_sizeData) \in m_allocateData
  /\ m_posInData <= m_sizeData

(***************************************************************************)
(* The "not the only one" of releaseMemory: m_posInData never comes back   *)
(* to 0 once a block was handed out, so a block that ends where the        *)
(* current page starts, in the page before it, is never taken for one.     *)
(***************************************************************************)
HandedOut ==
  /\ \A b \in live : b.size > 0
  /\ m_posInData = 0 => live \cup m_freeSpace = {}

(* The inductive invariant of AllocSpec. *)
AllocInv ==
  /\ AllocTypeOK
  /\ NoOverlap
  /\ InsidePages
  /\ LastListUsed
  /\ Conservation
  /\ PagesApart
  /\ HandedOut
==============================================================================
