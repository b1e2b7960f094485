----------------------- MODULE BucketAllocatorProofs -----------------------
(***************************************************************************)
(* The allocator of the cache is correct for all page sizes, all requests  *)
(* and wherever operator new places the pages.                             *)
(***************************************************************************)
EXTENDS BucketAllocator, TLAPS, WellFoundedInduction

(***************************************************************************)
(* A set of naturals below a bound has a largest element: what the         *)
(* trailing loop of getArray looks for exists.                             *)
(***************************************************************************)
LEMMA LargestExists ==
  ASSUME NEW S, S \subseteq Nat, S # {}, NEW n \in Nat, \A s \in S : s < n
  PROVE  \E m \in S : \A s \in S : s <= m
<1> DEFINE T == {t \in Nat : n - t \in S}
           R == OpToRel(<, Nat)
<1>1. T \subseteq Nat /\ T # {}
  <2>1. PICK s \in S : TRUE
    OBVIOUS
  <2>2. n - s \in Nat /\ n - (n - s) = s
    BY <2>1
  <2> QED
    BY <2>1, <2>2
<1>2. PICK x \in T : \A y \in T : ~(<< y, x >> \in R)
  <2> HIDE DEF T
  <2> QED
    BY <1>1, NatLessThanWellFounded, WFMin
<1>3. ASSUME NEW s \in S PROVE s <= n - x
  <2>1. s \in Nat /\ s < n /\ n - s \in Nat /\ n - (n - s) = s
    OBVIOUS
  <2>2. n - s \in T
    BY <2>1
  <2>3. ~(n - s < x)
    BY <1>2, <2>1, <2>2 DEF OpToRel
  <2> QED
    BY <2>1, <2>3
<1> QED
  BY <1>2, <1>3

(* TrimmedSize is one more than the largest size in the free lists. *)
LEMMA TrimmedSizeFact ==
  ASSUME NEW free, free \subseteq Blocks,
         NEW n \in Nat, \A b \in free : b.size < n
  PROVE  /\ TrimmedSize(free) \in Nat
         /\ \A b \in free : b.size < TrimmedSize(free)
         /\ TrimmedSize(free) > 0 =>
              \E b \in free : b.size = TrimmedSize(free) - 1
<1>1. CASE free = {}
  BY <1>1 DEF TrimmedSize
<1>2. CASE free # {}
  <2> DEFINE S == {b.size : b \in free}
             P(m) == \A b \in free : b.size <= m
  <2>1. S \subseteq Nat /\ S # {} /\ \A s \in S : s < n
    BY <1>2 DEF Blocks
  <2>2. PICK m \in S : \A s \in S : s <= m
    <3> HIDE DEF S
    <3> QED
      BY <2>1, LargestExists
  <2>3. m \in S /\ P(m)
    BY <2>2
  <2>4. (CHOOSE k \in S : P(k)) \in S /\ P(CHOOSE k \in S : P(k))
    <3> HIDE DEF S, P
    <3> QED
      BY <2>3
  <2>5. TrimmedSize(free) = 1 + (CHOOSE k \in S : P(k))
    BY <1>2 DEF TrimmedSize
  <2> DEFINE c == CHOOSE k \in S : P(k)
  <2> HIDE DEF c
  <2>6. c \in Nat /\ TrimmedSize(free) = 1 + c /\ (\E b \in free : b.size = c)
        /\ \A b \in free : b.size <= c
    BY <2>1, <2>4, <2>5 DEF c
  <2> QED
    BY <2>6 DEF Blocks
<1> QED
  BY <1>1, <1>2

(* Requests are positive numbers. *)
LEMMA RequestType == Request \subseteq Nat /\ \A size \in Request : size > 0
  BY PageAssumption DEF Request

(* init: one page, nothing handed out, nothing free. *)
LEMMA AllocInitInv == AllocInit => AllocInv
<1> SUFFICES ASSUME AllocInit PROVE AllocInv
  OBVIOUS
<1>1. PICK base \in Bases : /\ m_data = base
                            /\ m_allocateData = {Block(base, SizeFirstPage)}
  BY DEF AllocInit
<1>2. base \in Nat /\ SizeFirstPage \in Nat
  BY PageAssumption
<1>3. AllocTypeOK
  <2>1. m_allocateData \subseteq Blocks
    BY <1>1, <1>2 DEF Block, Blocks
  <2>2. /\ m_sizeData = SizeFirstPage /\ m_allMemory = SizeFirstPage
        /\ m_posInData = 0 /\ sizeFreeSpace = 0
        /\ m_freeMemory = 0 /\ m_usedMemory = 0
        /\ m_freeSpace = {} /\ live = {}
    BY DEF AllocInit
  <2>3. m_consumedMemory \in BOOLEAN
    BY Zenon DEF AllocInit
  <2> QED
    BY <1>1, <1>2, <2>1, <2>2, <2>3 DEF AllocTypeOK
<1>4. NoOverlap /\ InsidePages /\ LastListUsed /\ HandedOut
  BY DEF AllocInit, NoOverlap, InsidePages, LastListUsed, HandedOut
<1>5. Conservation /\ PagesApart
  BY <1>1, <1>2 DEF AllocInit, Conservation, PagesApart
<1> QED
  BY <1>3, <1>4, <1>5 DEF AllocInv

(* getArray, a block of the current page. *)
LEMMA GetFromPageInv ==
  ASSUME AllocInv, NEW size \in Request, GetFromPage(size)
  PROVE  AllocInv'
<1> USE RequestType DEF AllocInv
<1> DEFINE n == Block(m_data + m_posInData, size)
<1>1. /\ m_data \in Nat /\ m_posInData \in Nat /\ m_sizeData \in Nat
      /\ size \in Nat /\ size > 0
      /\ n \in Blocks /\ n.addr = m_data + m_posInData /\ n.size = size
  BY DEF AllocTypeOK, Block, Blocks
<1>2. /\ live' = live \cup {n}
      /\ m_posInData' = m_posInData + size
      /\ m_posInData + size <= m_sizeData
      /\ m_usedMemory' = m_usedMemory + size
      /\ UNCHANGED << m_allocateData, m_data, m_sizeData, m_freeSpace,
                      sizeFreeSpace, m_allMemory, m_freeMemory, m_consumedMemory >>
  BY DEF GetFromPage
<1> HIDE DEF n
<1>3. AllocTypeOK'
  BY <1>1, <1>2 DEF AllocTypeOK
<1>4. \A b \in live \cup m_freeSpace : b.size > 0 => Apart(b, n) /\ Apart(n, b)
  BY <1>1, <1>2 DEF InsidePages, Apart, AllocTypeOK, Block, Blocks
<1>5. n \notin m_freeSpace
  BY <1>1, <1>4 DEF Apart
<1>6. NoOverlap'
  BY <1>1, <1>2, <1>4, <1>5 DEF NoOverlap
<1>7. InsidePages'
  <2> SUFFICES ASSUME NEW b \in live \cup m_freeSpace \cup {n}
               PROVE  /\ \E p \in m_allocateData : Within(b, p)
                      /\ b.size > 0 =>
                           Apart(b, Block(m_data + (m_posInData + size),
                                          m_sizeData - (m_posInData + size)))
    BY <1>2 DEF InsidePages
  <2>1. CASE b = n
    BY <2>1, <1>1, <1>2 DEF PagesApart, Within, Apart, Block
  <2>2. CASE b # n
    BY <2>2, <1>1, <1>2 DEF InsidePages, Apart, Block, AllocTypeOK, Blocks
  <2> QED
    BY <2>1, <2>2
<1>8. LastListUsed'
  BY <1>2 DEF LastListUsed, OfSize
<1>9. Conservation' /\ PagesApart' /\ HandedOut'
  BY <1>1, <1>2 DEF Conservation, PagesApart, HandedOut, AllocTypeOK
<1> QED
  BY <1>3, <1>6, <1>7, <1>8, <1>9

(* getArray, the first block of a new page. *)
LEMMA GetFromNewPageInv ==
  ASSUME AllocInv, NEW size \in Request, GetFromNewPage(size)
  PROVE  AllocInv'
<1> USE RequestType DEF AllocInv
<1>1. PICK base \in Bases :
        /\ NewPage(Block(base, SizeAdditionalPage), SizeAdditionalPage)
        /\ m_data' = base
        /\ m_allocateData' = m_allocateData \cup {Block(base, SizeAdditionalPage)}
        /\ live' = live \cup {Block(base, size)}
  BY DEF GetFromNewPage
<1> DEFINE page == Block(base, SizeAdditionalPage)
           n == Block(base, size)
           r == PageRest
<1>2. /\ m_data \in Nat /\ m_posInData \in Nat /\ m_sizeData \in Nat
      /\ size \in Nat /\ size > 0
      /\ base \in Nat /\ SizeAdditionalPage \in Nat /\ size <= SizeAdditionalPage
      /\ m_posInData <= m_sizeData
  BY PageAssumption DEF AllocTypeOK, PagesApart, Request
<1>3. /\ page \in Blocks /\ page.addr = base /\ page.size = SizeAdditionalPage
      /\ n \in Blocks /\ n.addr = base /\ n.size = size
      /\ r \in Blocks /\ r.addr = m_data + m_posInData
      /\ r.size = m_sizeData - m_posInData
  BY <1>2 DEF Block, Blocks, PageRest
<1>4. /\ m_freeSpace' = m_freeSpace \cup {r}
      /\ sizeFreeSpace' = IF sizeFreeSpace <= r.size THEN r.size + 1
                                                     ELSE sizeFreeSpace
      /\ m_freeMemory' = m_freeMemory + r.size
      /\ m_sizeData' = SizeAdditionalPage
      /\ m_posInData' = size
      /\ m_allMemory' = m_allMemory + SizeAdditionalPage
      /\ m_usedMemory' = m_usedMemory + size
      /\ m_consumedMemory' = TRUE
  BY DEF GetFromNewPage
<1>5. \A q \in m_allocateData : Apart(page, q)
  BY <1>1 DEF NewPage
<1> HIDE DEF page, n, r
<1>6. AllocTypeOK'
  BY <1>1, <1>2, <1>3, <1>4 DEF AllocTypeOK, page, n
<1>7. \E p \in m_allocateData : Within(r, p)
  BY <1>2, <1>3 DEF PagesApart, Within, Block
<1>8. \A b \in live \cup m_freeSpace : b.size > 0 /\ r.size > 0 => Apart(b, r) /\ Apart(r, b)
  BY DEF InsidePages, Apart, PageRest, r
<1>9. ASSUME NEW b \in live \cup m_freeSpace \cup {r}, b.size > 0
      PROVE  /\ Apart(b, n) /\ Apart(n, b)
             /\ Apart(b, Block(base + size, SizeAdditionalPage - size))
  <2>1. PICK p \in m_allocateData : Within(b, p)
    BY <1>7 DEF InsidePages
  <2>2. b \in Blocks /\ p \in Blocks
    BY <1>3 DEF AllocTypeOK
  <2>3. Apart(page, p)
    BY <1>5
  <2> QED
    BY <1>2, <1>3, <1>9, <2>1, <2>2, <2>3 DEF Within, Apart, Block, Blocks
<1>10. NoOverlap'
  <2>1. n \notin m_freeSpace \cup {r} /\ r \notin live
    BY <1>2, <1>3, <1>8, <1>9 DEF Apart, HandedOut, AllocTypeOK, Blocks
  <2> QED
    BY <1>1, <1>4, <1>8, <1>9, <2>1 DEF NoOverlap, n
<1>11. InsidePages'
  <2> SUFFICES ASSUME NEW b \in live \cup m_freeSpace \cup {r, n}
               PROVE  /\ \E p \in m_allocateData \cup {page} : Within(b, p)
                      /\ b.size > 0 =>
                           Apart(b, Block(base + size, SizeAdditionalPage - size))
    BY <1>1, <1>4 DEF InsidePages, n, page
  <2>1. CASE b = n
    BY <2>1, <1>2, <1>3 DEF Within, Apart, Block
  <2>2. CASE b # n
    BY <2>2, <1>7, <1>9 DEF InsidePages
  <2> QED
    BY <2>1, <2>2
<1>12. LastListUsed'
  BY <1>2, <1>3, <1>4 DEF LastListUsed, OfSize, AllocTypeOK, Blocks
<1>13. Conservation'
  BY <1>2, <1>3, <1>4 DEF Conservation, AllocTypeOK
<1>14. PagesApart'
  BY <1>1, <1>2, <1>3, <1>4, <1>5 DEF PagesApart, Apart, page
<1>15. HandedOut'
  BY <1>1, <1>2, <1>3, <1>4 DEF HandedOut, n
<1> QED
  BY <1>6, <1>10, <1>11, <1>12, <1>13, <1>14, <1>15

(* releaseMemory. *)
LEMMA ReleaseMemoryInv ==
  ASSUME AllocInv, NEW b \in live, ReleaseMemory(b)
  PROVE  AllocInv'
<1> USE DEF AllocInv
<1>1. /\ m_data \in Nat /\ m_posInData \in Nat /\ m_sizeData \in Nat
      /\ m_usedMemory \in Int /\ m_freeMemory \in Int /\ m_allMemory \in Nat
      /\ b \in Blocks /\ b.size \in Nat /\ b.addr \in Nat /\ b.size > 0
  BY DEF AllocTypeOK, Blocks, HandedOut
<1>2. /\ live' = live \ {b}
      /\ m_usedMemory' = m_usedMemory - b.size
      /\ UNCHANGED << m_allocateData, m_data, m_sizeData, m_allMemory,
                      m_consumedMemory >>
  BY DEF ReleaseMemory
<1>3. CASE /\ IsLastOfPage(b)
           /\ m_posInData' = m_posInData - b.size
           /\ UNCHANGED << m_freeSpace, sizeFreeSpace, m_freeMemory >>
  <2>1. m_data + m_posInData - b.size = b.addr /\ m_posInData - b.size # 0
    BY <1>3 DEF IsLastOfPage
  <2>2. m_posInData - b.size \in Nat /\ m_posInData - b.size > 0
    <3>1. PICK p \in m_allocateData : Within(b, p)
      BY DEF InsidePages
    <3>2. p \in Blocks /\ m_posInData # 0
      BY DEF AllocTypeOK, HandedOut
    <3>3. p = Block(m_data, m_sizeData) \/ Apart(p, Block(m_data, m_sizeData))
      BY DEF PagesApart
    <3> QED
      BY <1>1, <2>1, <3>1, <3>2, <3>3 DEF Within, Apart, Block, Blocks, PagesApart
  <2>3. AllocTypeOK'
    BY <1>1, <1>2, <1>3, <2>2 DEF AllocTypeOK
  <2>4. NoOverlap'
    BY <1>2, <1>3 DEF NoOverlap
  <2>5. InsidePages'
    <3> SUFFICES ASSUME NEW c \in (live \ {b}) \cup m_freeSpace
                 PROVE  /\ \E p \in m_allocateData : Within(c, p)
                        /\ c.size > 0 =>
                             Apart(c, Block(m_data + (m_posInData - b.size),
                                            m_sizeData - (m_posInData - b.size)))
      BY <1>2, <1>3 DEF InsidePages
    <3>1. c # b /\ c \in Blocks
      BY DEF NoOverlap, AllocTypeOK
    <3>2. c.size > 0 => /\ Apart(c, b)
                        /\ Apart(c, Block(m_data + m_posInData,
                                          m_sizeData - m_posInData))
      BY <1>1, <3>1 DEF NoOverlap, InsidePages
    <3>3. \E p \in m_allocateData : Within(c, p)
      BY DEF InsidePages
    <3> QED
      BY <1>1, <2>1, <2>2, <3>1, <3>2, <3>3 DEF Apart, Block, Blocks, PagesApart
  <2>6. LastListUsed'
    BY <1>3 DEF LastListUsed, OfSize
  <2>7. Conservation' /\ PagesApart' /\ HandedOut'
    BY <1>1, <1>2, <1>3, <2>2 DEF Conservation, PagesApart, HandedOut
  <2> QED
    BY <2>3, <2>4, <2>5, <2>6, <2>7
<1>4. CASE /\ m_freeSpace' = m_freeSpace \cup {b}
           /\ sizeFreeSpace' = IF b.size >= sizeFreeSpace THEN b.size + 1
                                                          ELSE sizeFreeSpace
           /\ m_freeMemory' = m_freeMemory + b.size
           /\ UNCHANGED m_posInData
  <2>1. AllocTypeOK'
    BY <1>1, <1>2, <1>4 DEF AllocTypeOK
  <2>2. NoOverlap' /\ InsidePages'
    BY <1>2, <1>4 DEF NoOverlap, InsidePages
  <2>3. LastListUsed'
    BY <1>1, <1>4 DEF LastListUsed, OfSize, AllocTypeOK, Blocks
  <2>4. Conservation' /\ PagesApart' /\ HandedOut'
    BY <1>1, <1>2, <1>4 DEF Conservation, PagesApart, HandedOut
  <2> QED
    BY <2>1, <2>2, <2>3, <2>4
<1> QED
  BY <1>3, <1>4 DEF ReleaseMemory

(* getArray, a block of the free lists. *)
LEMMA GetFromFreeSpaceInv ==
  ASSUME AllocInv, NEW size \in Request, GetFromFreeSpace(size)
  PROVE  AllocInv'
<1> USE RequestType DEF AllocInv
<1>1. /\ size \in Nat /\ size > 0
      /\ m_data \in Nat /\ m_posInData \in Nat /\ m_sizeData \in Nat
      /\ sizeFreeSpace \in Nat /\ m_allMemory \in Nat
      /\ m_freeMemory \in Int /\ m_usedMemory \in Int
  BY DEF AllocTypeOK
<1>2. /\ sizeFreeSpace' = TrimmedSize(m_freeSpace')
      /\ m_freeMemory' = m_freeMemory - size
      /\ m_usedMemory' = m_usedMemory + size
      /\ UNCHANGED << m_allocateData, m_data, m_sizeData, m_posInData,
                      m_allMemory, m_consumedMemory >>
  BY DEF GetFromFreeSpace
<1>3. Conservation' /\ PagesApart'
  BY <1>1, <1>2 DEF Conservation, PagesApart
<1>4. m_freeSpace # {} /\ m_posInData # 0
  <2>1. \E b \in m_freeSpace : TRUE
    BY <1>1 DEF GetFromFreeSpace, OfSize
  <2> QED
    BY <2>1 DEF HandedOut
<1>5. ASSUME m_freeSpace' \subseteq Blocks,
             \A b \in m_freeSpace' : b.size < sizeFreeSpace
      PROVE  LastListUsed' /\ sizeFreeSpace' \in Nat
  BY <1>1, <1>2, <1>5, TrimmedSizeFact DEF LastListUsed, OfSize
<1>6. CASE \E b \in OfSize(size) : /\ live' = live \cup {b}
                                   /\ m_freeSpace' = m_freeSpace \ {b}
  <2>1. PICK b \in m_freeSpace : /\ b.size = size
                                 /\ live' = live \cup {b}
                                 /\ m_freeSpace' = m_freeSpace \ {b}
    BY <1>6 DEF OfSize
  <2>2. LastListUsed' /\ sizeFreeSpace' \in Nat
    BY <1>5, <2>1 DEF LastListUsed, AllocTypeOK
  <2>3. AllocTypeOK'
    BY <1>1, <1>2, <2>1, <2>2 DEF AllocTypeOK
  <2>4. NoOverlap' /\ InsidePages' /\ HandedOut'
    BY <1>1, <1>2, <1>4, <2>1 DEF NoOverlap, InsidePages, HandedOut
  <2> QED
    BY <1>3, <2>2, <2>3, <2>4
<1>7. CASE /\ OfSize(size) = {}
           /\ \E b \in OfSize(sizeFreeSpace - 1) :
                /\ live' = live \cup {Block(b.addr, size)}
                /\ m_freeSpace' = (m_freeSpace \ {b}) \cup {SplitRest(b, size)}
  <2>1. PICK b \in m_freeSpace :
               /\ b.size = sizeFreeSpace - 1
               /\ live' = live \cup {Block(b.addr, size)}
               /\ m_freeSpace' = (m_freeSpace \ {b}) \cup {SplitRest(b, size)}
    BY <1>7 DEF OfSize
  <2> DEFINE n == Block(b.addr, size)
             r == SplitRest(b, size)
  <2>2. b \in Blocks /\ b.addr \in Nat /\ b.size \in Nat /\ b.size > size
    BY <1>1, <1>7, <2>1 DEF GetFromFreeSpace, UseFreeSpace, OfSize, AllocTypeOK, Blocks
  <2>3. /\ n \in Blocks /\ n.addr = b.addr /\ n.size = size
        /\ r \in Blocks /\ r.addr = b.addr + size /\ r.size = b.size - size
    BY <1>1, <2>2 DEF Block, Blocks, SplitRest
  <2> HIDE DEF n, r
  <2>4. /\ Within(n, b) /\ Within(r, b) /\ Apart(n, r) /\ Apart(r, n)
        /\ n # r /\ n # b /\ r # b
    BY <1>1, <2>2, <2>3 DEF Within, Apart
  <2>5. ASSUME NEW c \in live \cup m_freeSpace, c # b, c.size > 0
        PROVE  Apart(c, n) /\ Apart(n, c) /\ Apart(c, r) /\ Apart(r, c)
    <3>1. c \in Blocks
      BY DEF AllocTypeOK
    <3>2. Apart(c, b)
      BY <1>1, <2>2, <2>5 DEF NoOverlap
    <3> QED
      BY <1>1, <2>2, <2>3, <3>1, <3>2 DEF Apart, Blocks
  <2>6. n \notin m_freeSpace /\ r \notin live
    BY <1>1, <2>1, <2>2, <2>3, <2>4, <2>5 DEF Apart, NoOverlap
  <2>7. NoOverlap'
    <3>1. live' = live \cup {n} /\ m_freeSpace' = (m_freeSpace \ {b}) \cup {r}
      BY <2>1 DEF n, r
    <3>2. live' \cap m_freeSpace' = {}
      BY <3>1, <2>4, <2>6 DEF NoOverlap
    <3>3. ASSUME NEW c \in live' \cup m_freeSpace', NEW d \in live' \cup m_freeSpace',
                 c # d, c.size > 0, d.size > 0
          PROVE  Apart(c, d)
      BY <3>1, <3>3, <2>4, <2>5, <2>1 DEF NoOverlap
    <3> QED
      BY <3>2, <3>3 DEF NoOverlap
  <2>8. InsidePages'
    <3> SUFFICES ASSUME NEW c \in live \cup (m_freeSpace \ {b}) \cup {n, r}
                 PROVE  /\ \E p \in m_allocateData : Within(c, p)
                        /\ c.size > 0 => Apart(c, Block(m_data + m_posInData,
                                                        m_sizeData - m_posInData))
      BY <1>2, <2>1 DEF InsidePages, n, r
    <3>1. CASE c \in {n, r}
      <4>1. PICK p \in m_allocateData : Within(b, p)
        BY DEF InsidePages
      <4>2. Apart(b, Block(m_data + m_posInData, m_sizeData - m_posInData))
        BY <1>1, <2>2 DEF InsidePages
      <4>3. p \in Blocks /\ Within(c, b)
        BY <2>4, <3>1 DEF AllocTypeOK
      <4>4. c.addr \in Nat /\ c.size \in Nat
        BY <2>3, <3>1 DEF Blocks
      <4> QED
        BY <1>1, <2>2, <4>1, <4>2, <4>3, <4>4 DEF Within, Apart, Blocks, Block
    <3>2. CASE c \notin {n, r}
      BY <3>2 DEF InsidePages
    <3> QED
      BY <3>1, <3>2
  <2>9. LastListUsed' /\ sizeFreeSpace' \in Nat
    <3>1. m_freeSpace' \subseteq Blocks
      BY <2>1, <2>3 DEF AllocTypeOK, r
    <3>2. \A c \in m_freeSpace' : c.size < sizeFreeSpace
      BY <1>1, <2>1, <2>2, <2>3 DEF LastListUsed, r
    <3> QED
      BY <1>5, <3>1, <3>2
  <2>10. AllocTypeOK'
    BY <1>1, <1>2, <2>1, <2>3, <2>9 DEF AllocTypeOK, n, r
  <2>11. HandedOut'
    BY <1>1, <1>2, <1>4, <2>1, <2>3 DEF HandedOut, n
  <2> QED
    BY <1>3, <2>7, <2>8, <2>9, <2>10, <2>11
<1> QED
  BY <1>6, <1>7 DEF GetFromFreeSpace

(* Every step of the allocator keeps the inductive invariant. *)
LEMMA AllocNextInv == AllocInv /\ [AllocNext]_allocVars => AllocInv'
<1> SUFFICES ASSUME AllocInv, [AllocNext]_allocVars PROVE AllocInv'
  OBVIOUS
<1>1. ASSUME NEW size \in Request, GetArray(size) PROVE AllocInv'
  BY <1>1, GetFromFreeSpaceInv, GetFromPageInv, GetFromNewPageInv DEF GetArray
<1>2. ASSUME NEW b \in live, ReleaseMemory(b) PROVE AllocInv'
  BY <1>2, ReleaseMemoryInv
<1>3. CASE ReinitComsumedMemory
  <2>1. UNCHANGED << m_allocateData, m_data, m_sizeData, m_posInData, m_freeSpace,
                     sizeFreeSpace, m_allMemory, m_freeMemory, m_usedMemory, live >>
    BY <1>3 DEF ReinitComsumedMemory
  <2>2. m_consumedMemory' \in BOOLEAN
    BY <1>3, Zenon DEF ReinitComsumedMemory
  <2>3. AllocTypeOK'
    BY <2>1, <2>2 DEF AllocInv, AllocTypeOK
  <2> QED
    BY <2>1, <2>3 DEF AllocInv, NoOverlap, InsidePages, LastListUsed, OfSize,
                      Conservation, PagesApart, HandedOut
<1>4. CASE UNCHANGED allocVars
  BY <1>4 DEF allocVars, AllocInv, AllocTypeOK, NoOverlap, InsidePages,
              LastListUsed, OfSize, Conservation, PagesApart, HandedOut
<1> QED
  BY <1>1, <1>2, <1>3, <1>4 DEF AllocNext

(***************************************************************************)
(* AllocInv holds in every state of the allocator.                         *)
(***************************************************************************)
THEOREM AllocInvariant == AllocSpec => []AllocInv
  BY AllocInitInv, AllocNextInv, PTL DEF AllocSpec

(***************************************************************************)
(* Type correctness of the allocator: no counter of the pages leaves the   *)
(* naturals, so the unsigned subtractions of releaseMemory never wrap.     *)
(***************************************************************************)
THEOREM AllocTypeCorrect == AllocSpec => []AllocTypeOK
<1>1. AllocInv => AllocTypeOK
  BY DEF AllocInv
<1> QED
  BY <1>1, AllocInvariant, PTL

(***************************************************************************)
(* getArray never hands out a byte that somebody holds or that waits in a  *)
(* free list.                                                              *)
(***************************************************************************)
THEOREM AllocNoOverlap == AllocSpec => []NoOverlap
<1>1. AllocInv => NoOverlap
  BY DEF AllocInv
<1> QED
  BY <1>1, AllocInvariant, PTL

(***************************************************************************)
(* Every block getArray returns lies inside one page of operator new.      *)
(***************************************************************************)
THEOREM AllocInsidePages == AllocSpec => []InsidePages
<1>1. AllocInv => InsidePages
  BY DEF AllocInv
<1> QED
  BY <1>1, AllocInvariant, PTL

(***************************************************************************)
(* The assertion of getArray, assert(m_freeSpace[bigSize].size()), holds.  *)
(***************************************************************************)
THEOREM AllocLastListUsed == AllocSpec => []LastListUsed
<1>1. AllocInv => LastListUsed
  BY DEF AllocInv
<1> QED
  BY <1>1, AllocInvariant, PTL

(***************************************************************************)
(* Used, free and never used bytes add up to the memory obtained.          *)
(***************************************************************************)
THEOREM AllocConservation == AllocSpec => []Conservation
<1>1. AllocInv => Conservation
  BY DEF AllocInv
<1> QED
  BY <1>1, AllocInvariant, PTL
=============================================================================
