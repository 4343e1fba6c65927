-------------------------- MODULE OS3_memoryProofs --------------------------
(***************************************************************************)
(* Proofs about OS3_memory for every number of pages and frames, every     *)
(* period and every sequence of instructions.                              *)
(***************************************************************************)
EXTENDS OS3_memory, NaturalsInduction, WellFoundedInduction, FiniteSetTheorems, TLAPS

USE MemoryAssumption DEF MemoryAssumption, Pages, Frames

-----------------------------------------------------------------------------
\* The first index of a nonempty set is in it, and is its least.
LEMMA FirstIsLeast ==
  ASSUME NEW S \in SUBSET Nat, S # {}
  PROVE  First(S) \in S /\ \A y \in S : First(S) <= y
<1>1. PICK x \in S : \A y \in S : ~ (<<y, x>> \in OpToRel(<, Nat))
  BY NatLessThanWellFounded, WFMin, Zenon
<1>2. \A a, b \in Nat : a < b => <<a, b>> \in OpToRel(<, Nat)
  BY SMT DEF OpToRel
<1>3. \A y \in S : ~ (y < x)
  BY <1>1, <1>2, Zenon
<1>4. \A y \in S : x <= y
  BY <1>3, SMT
<1> QED  BY <1>4, Zenon DEF First

\* Where the queue goes on: at the next slot, or at slot 0 after the last.
LEMMA AdvanceWraps ==
  ASSUME NEW k \in Frames
  PROVE  Advance(k) = IF k + 1 = AP THEN 0 ELSE k + 1
BY SMT DEF Advance

\* The instruction to execute uses a page.
LEMMA PageIsPage ==
  ASSUME TypeOK, pos < total_instruction
  PROVE  page \in Pages
BY SMT DEF TypeOK, page

-----------------------------------------------------------------------------
(* The inductive invariant.  FIFO's queue and pagecontrol list the same    *)
(* pages at the same indices, for both are filled from 0 on and a page is  *)
(* replaced where the head stands; frames that are free have no age.       *)

FIFOShape ==
  alg = "FIFO" =>
    /\ is_free = queue_len..AP - 1
    /\ \A k \in 0..queue_len - 1 : page_id[k] = queue[k]
    /\ IF queue_len < AP THEN head = 0 /\ tail = queue_len ELSE tail = head
    /\ \A p \in Pages : loadedAt[p] < pos

FreeUnaged == alg = "LRU" => \A f \in is_free : no_use_time[f] = 0

MemoryInvariant ==
  /\ TypeOK /\ FramesMatchPages
  /\ FIFOShape /\ QueueInLoadOrder
  /\ FreeUnaged /\ AgesAreExact
  /\ UsesAreExact

\* FIFO replaces the page at the head of its queue, which is in memory in the
\* frame of the same index.
LEMMA HeadInMemory ==
  ASSUME MemoryInvariant, alg = "FIFO", is_free = {}
  PROVE  /\ queue_len = AP
         /\ queue[head] \in is_in_memory
         /\ page_id[head] = queue[head]
         /\ frame_id[queue[head]] = head
<1>1. queue_len = AP
  <2> SUFFICES ASSUME queue_len < AP PROVE FALSE  BY SMT DEF MemoryInvariant, TypeOK
  <2>1. queue_len \in queue_len..AP - 1  BY SMT DEF MemoryInvariant, TypeOK
  <2> QED  BY <2>1, SMT DEF MemoryInvariant, FIFOShape
<1>2. head \in 0..queue_len - 1  BY <1>1, SMT DEF MemoryInvariant, TypeOK
<1>3. page_id[head] = queue[head]  BY <1>2 DEF MemoryInvariant, FIFOShape
<1> QED  BY <1>1, <1>2, <1>3, SMT DEF MemoryInvariant, FramesMatchPages, TypeOK

\* The frames that LRU, NUR and OPT choose are frames in use.
LEMMA PageInMemory ==
  ASSUME MemoryInvariant, NEW f \in Frames, is_free = {}
  PROVE  page_id[f] \in is_in_memory /\ frame_id[page_id[f]] = f
BY SMT DEF MemoryInvariant, FramesMatchPages

-----------------------------------------------------------------------------
\* A fault keeps the tables in step, whether a frame is free ...
LEMMA FillTables ==
  ASSUME MemoryInvariant, pos < total_instruction, Fill
  PROVE  FramesMatchPages' /\ FreeFrame \in is_free
<1>1. is_free \in SUBSET Nat /\ is_free # {}
  BY SMT DEF Fill, MemoryInvariant, TypeOK
<1>2. PICK f : f = FreeFrame  OBVIOUS
<1>3. f \in is_free
  BY <1>1, <1>2, FirstIsLeast DEF FreeFrame
<1>4. page \in Pages /\ page \notin is_in_memory
  BY PageIsPage DEF MemoryInvariant, Fill, Fault
<1>5. /\ is_free' = is_free \ {f}
      /\ page_id' = [page_id EXCEPT ![f] = page]
      /\ is_in_memory' = is_in_memory \cup {page}
      /\ frame_id' = [frame_id EXCEPT ![page] = f]
  BY <1>2 DEF Fill
<1>6. /\ is_in_memory \subseteq Pages /\ frame_id \in [Pages -> Frames \cup {-1}]
      /\ page_id \in [Frames -> Pages \cup {-1}] /\ is_free \subseteq Frames
  BY DEF MemoryInvariant, TypeOK
<1>7. FramesMatchPages  BY DEF MemoryInvariant
<1>8. \A g \in Frames \ is_free' : page_id'[g] \in is_in_memory' /\ frame_id'[page_id'[g]] = g
  BY <1>3, <1>4, <1>5, <1>6, <1>7, SMT DEF FramesMatchPages
<1>9. \A p \in is_in_memory' : frame_id'[p] \in Frames \ is_free' /\ page_id'[frame_id'[p]] = p
  BY <1>3, <1>4, <1>5, <1>6, <1>7, SMT DEF FramesMatchPages
<1> QED  BY <1>2, <1>3, <1>8, <1>9 DEF FramesMatchPages

\* ... or the page v in frame f is replaced.
LEMMA ExchangeTables ==
  ASSUME MemoryInvariant, pos < total_instruction, NEW f \in Frames, NEW v,
         is_free = {}, v = page_id[f], page \notin is_in_memory,
         is_free' = {}, page_id' = [page_id EXCEPT ![f] = page],
         is_in_memory' = (is_in_memory \ {v}) \cup {page},
         \/ frame_id' = [frame_id EXCEPT ![page] = f]
         \/ frame_id' = [frame_id EXCEPT ![page] = f, ![v] = -1]
  PROVE  FramesMatchPages'
<1>1. page \in Pages  BY PageIsPage DEF MemoryInvariant
<1>2. v \in is_in_memory /\ frame_id[v] = f  BY PageInMemory
<1>3. /\ is_in_memory \subseteq Pages /\ frame_id \in [Pages -> Frames \cup {-1}]
      /\ page_id \in [Frames -> Pages \cup {-1}]
  BY DEF MemoryInvariant, TypeOK
<1>4. \A g \in Frames \ {f} : page_id[g] \in is_in_memory \ {v} /\ frame_id[page_id[g]] = g
  BY <1>2, PageInMemory, SMT
<1>5. \A p \in is_in_memory \ {v} : frame_id[p] \in Frames \ {f} /\ page_id[frame_id[p]] = p
  BY <1>2, SMT DEF MemoryInvariant, FramesMatchPages
<1>6. page_id'[f] = page /\ \A g \in Frames \ {f} : page_id'[g] = page_id[g]
  BY <1>3
<1>7. frame_id'[page] = f /\ \A p \in is_in_memory \ {v} : frame_id'[p] = frame_id[p]
  BY <1>1, <1>2, <1>3
<1> QED  BY <1>4, <1>5, <1>6, <1>7, SMT DEF FramesMatchPages

LEMMA ReplaceTables ==
  ASSUME MemoryInvariant, pos < total_instruction, NEW f \in Frames, Replace(f)
  PROVE  FramesMatchPages'
BY ExchangeTables DEF Replace, Fault

LEMMA FIFOReplaceTables ==
  ASSUME MemoryInvariant, FIFOReplace
  PROVE  FramesMatchPages'
<1>1. PICK v : v = queue[head]  OBVIOUS
<1>2. /\ v \in is_in_memory /\ frame_id[v] = head /\ page_id[head] = v /\ is_free = {}
      /\ head \in Frames
  BY <1>1, HeadInMemory DEF FIFOReplace, Executes, MemoryInvariant, TypeOK
<1>3. /\ frame_id' = [frame_id EXCEPT ![page] = head, ![v] = -1]
      /\ is_in_memory' = (is_in_memory \cup {page}) \ {v}
      /\ page_id' = [page_id EXCEPT ![head] = page]
      /\ is_free' = {} /\ page \notin is_in_memory /\ pos < total_instruction
  BY <1>1, <1>2 DEF FIFOReplace, Executes, Fault
<1>4. is_in_memory' = (is_in_memory \ {v}) \cup {page}
  BY <1>2, <1>3
<1> QED  BY <1>2, <1>3, <1>4, ExchangeTables

-----------------------------------------------------------------------------
\* Some frame has the greatest of bounded numbers.
LEMMA GreatestExists ==
  ASSUME NEW n \in Nat, NEW a \in [Frames -> 0..n]
  PROVE  \E f \in Frames : \A g \in Frames : a[g] <= a[f]
<1> DEFINE S == {n - a[f] : f \in Frames}
<1>1. S \in SUBSET Nat  BY SMT
<1>2. n - a[0] \in S  BY SMT
<1>3. First(S) \in S /\ \A y \in S : First(S) <= y
  BY <1>1, <1>2, FirstIsLeast
<1>4. PICK f \in Frames : First(S) = n - a[f]  BY <1>3
<1>5. \A g \in Frames : n - a[f] <= n - a[g]  BY <1>3, <1>4
<1>6. \A g \in Frames : a[g] <= a[f]  BY <1>5, SMT
<1> QED  BY <1>6

\* No age is greater than the number of instructions executed.
LEMMA AgedRange ==
  ASSUME MemoryInvariant, alg = "LRU", pos < total_instruction
  PROVE  Aged \in [Frames -> 0..pos]
<1> SUFFICES ASSUME NEW f \in Frames
             PROVE  (IF f \in is_free THEN no_use_time[f] ELSE no_use_time[f] + 1) \in 0..pos
  BY DEF Aged
<1>1. pos \in Nat /\ no_use_time[f] \in Nat  BY SMT DEF MemoryInvariant, TypeOK
<1>2. CASE f \in is_free
  BY <1>1, <1>2, SMT DEF MemoryInvariant, FreeUnaged
<1>3. CASE f \notin is_free
  <2>1. pos - 1 - no_use_time[f] >= 0  BY <1>3 DEF MemoryInvariant, AgesAreExact
  <2> QED  BY <1>1, <1>3, <2>1, SMT
<1> QED  BY <1>2, <1>3

\* LRU finds a frame, and none in use is older.
LEMMA LongestFound ==
  ASSUME MemoryInvariant, alg = "LRU", pos < total_instruction, is_free = {}
  PROVE  /\ First(LongestUnused) \in Frames
         /\ \A g \in Frames : Aged[g] <= Aged[First(LongestUnused)]
<1>1. pos \in Nat  BY SMT DEF MemoryInvariant, TypeOK
<1>2. PICK f \in Frames : \A g \in Frames : Aged[g] <= Aged[f]
  BY <1>1, AgedRange, GreatestExists
<1>3. LongestUnused \in SUBSET Frames /\ f \in LongestUnused
  BY <1>2 DEF LongestUnused
<1>4. LongestUnused \in SUBSET Nat /\ LongestUnused # {}
  BY <1>3, SMT
<1>5. First(LongestUnused) \in LongestUnused  BY <1>4, FirstIsLeast
<1> QED  BY <1>5 DEF LongestUnused

\* NUR finds a frame; if one was not used, it finds such a frame.
LEMMA NotUsedFound ==
  /\ NotUsedFrame \in Frames
  /\ Frames \ Used # {} => NotUsedFrame \notin Used
<1>1. CASE Frames \ Used = {}
  <2>1. NotUsedFrame = 0  BY <1>1 DEF NotUsedFrame
  <2> QED  BY <1>1, <2>1, SMT
<1>2. CASE Frames \ Used # {}
  <2>1. NotUsedFrame = First(Frames \ Used)  BY <1>2 DEF NotUsedFrame
  <2>2. Frames \ Used \in SUBSET Nat  BY SMT
  <2>3. First(Frames \ Used) \in Frames \ Used  BY <1>2, <2>2, FirstIsLeast
  <2> QED  BY <2>1, <2>3
<1> QED  BY <1>1, <1>2

\* What compute_distance() computes: one more than the number of instructions
\* before the next use, or INFINITE, which is farther than any use.
LEMMA DistanceIsNextUse ==
  ASSUME TypeOK, NEW p
  PROVE  /\ Distance(p) \in 0..INFINITE
         /\ Uses(p) = {} => Distance(p) = INFINITE
         /\ Uses(p) # {} =>
              \E u \in Uses(p) : /\ Distance(p) = u - pos + 1
                                 /\ \A j \in Uses(p) : u <= j
<1>1. pos \in 0..total_instruction  BY DEF TypeOK
<1>2. CASE Uses(p) = {}
  <2>1. Distance(p) = INFINITE  BY <1>2 DEF Distance
  <2> QED  BY <1>2, <2>1, SMT
<1>3. CASE Uses(p) # {}
  <2>1. Uses(p) \in SUBSET (pos..total_instruction - 1)  BY DEF Uses
  <2>2. Uses(p) \in SUBSET Nat  BY <1>1, <2>1, SMT
  <2>3. First(Uses(p)) \in Uses(p) /\ \A j \in Uses(p) : First(Uses(p)) <= j
    BY <1>3, <2>2, FirstIsLeast
  <2>4. Distance(p) = First(Uses(p)) - pos + 1  BY <1>3 DEF Distance
  <2>5. PICK u : u = First(Uses(p))  OBVIOUS
  <2>6. u \in pos..total_instruction - 1  BY <2>1, <2>3, <2>5
  <2>7. Distance(p) \in 0..INFINITE  BY <1>1, <2>4, <2>5, <2>6, SMT
  <2> QED  BY <1>3, <2>3, <2>4, <2>7
<1> QED  BY <1>2, <1>3

\* OPT finds a frame, and no page in memory is farther.
LEMMA FarthestFound ==
  ASSUME TypeOK
  PROVE  /\ First(FarthestFrames) \in Frames
         /\ \A g \in Frames : Distance(page_id[g]) <= Distance(page_id[First(FarthestFrames)])
<1> DEFINE d == [f \in Frames |-> Distance(page_id[f])]
<1>1. d \in [Frames -> 0..INFINITE]  BY DistanceIsNextUse
<1>2. PICK f \in Frames : \A g \in Frames : d[g] <= d[f]
  <2> HIDE DEF d
  <2> QED  BY <1>1, GreatestExists
<1>3. f \in FarthestFrames  BY <1>2 DEF FarthestFrames
<1>4. FarthestFrames \in SUBSET Frames  BY DEF FarthestFrames
<1>5. FarthestFrames \in SUBSET Nat /\ FarthestFrames # {}  BY <1>3, <1>4, SMT
<1>6. First(FarthestFrames) \in FarthestFrames  BY <1>5, FirstIsLeast
<1> QED  BY <1>6 DEF FarthestFrames

-----------------------------------------------------------------------------
\* Filling a frame and replacing a page keep the types of the tables ...
LEMMA TablesType ==
  ASSUME MemoryInvariant, pos < total_instruction,
         \/ Hit
         \/ Fill
         \/ \E f \in Frames : Replace(f)
         \/ FIFOReplace
  PROVE  /\ is_in_memory' \subseteq Pages /\ frame_id' \in [Pages -> Frames \cup {-1}]
         /\ page_id' \in [Frames -> Pages \cup {-1}] /\ is_free' \subseteq Frames
         /\ diseffect' \in 0..pos + 1
         /\ loadedAt' \in [Pages -> -1..total_instruction - 1]
<1>1. /\ page \in Pages
      /\ is_in_memory \subseteq Pages /\ frame_id \in [Pages -> Frames \cup {-1}]
      /\ page_id \in [Frames -> Pages \cup {-1}] /\ is_free \subseteq Frames
      /\ diseffect \in 0..pos /\ pos \in 0..total_instruction
      /\ loadedAt \in [Pages -> -1..total_instruction - 1]
  BY PageIsPage DEF MemoryInvariant, TypeOK
<1>2. CASE Hit
  BY <1>1, <1>2, SMT DEF Hit, tables
<1>3. ASSUME Fault
      PROVE  diseffect' \in 0..pos + 1 /\ loadedAt' \in [Pages -> -1..total_instruction - 1]
  <2>1. diseffect' = diseffect + 1 /\ loadedAt' = [loadedAt EXCEPT ![page] = pos]
    BY <1>3 DEF Fault
  <2>2. pos \in -1..total_instruction - 1  BY <1>1, SMT
  <2>3. loadedAt' \in [Pages -> -1..total_instruction - 1]
    BY <1>1, <2>1, <2>2, Zenon
  <2> QED  BY <1>1, <2>1, <2>3, SMT
<1>4. CASE Fill
  <2>1. FreeFrame \in is_free  BY <1>4, FillTables
  <2>2. PICK f : f = FreeFrame  OBVIOUS
  <2>3. /\ is_free' = is_free \ {f} /\ page_id' = [page_id EXCEPT ![f] = page]
        /\ is_in_memory' = is_in_memory \cup {page}
        /\ frame_id' = [frame_id EXCEPT ![page] = f]
        /\ Fault
    BY <1>4, <2>2 DEF Fill
  <2>4. f \in Frames  BY <1>1, <2>1, <2>2
  <2>5. page_id' \in [Frames -> Pages \cup {-1}] /\ frame_id' \in [Pages -> Frames \cup {-1}]
    BY <1>1, <2>3, <2>4, Zenon
  <2>6. is_in_memory' \subseteq Pages /\ is_free' \subseteq Frames
    BY <1>1, <2>3, Zenon
  <2> QED  BY <1>3, <2>3, <2>5, <2>6
<1>5. ASSUME NEW f \in Frames, Replace(f)
      PROVE  /\ is_in_memory' \subseteq Pages /\ frame_id' \in [Pages -> Frames \cup {-1}]
             /\ page_id' \in [Frames -> Pages \cup {-1}] /\ is_free' \subseteq Frames
             /\ Fault
  <2>1. /\ is_free' = is_free /\ page_id' = [page_id EXCEPT ![f] = page]
        /\ is_in_memory' = (is_in_memory \ {page_id[f]}) \cup {page}
        /\ frame_id' = [frame_id EXCEPT ![page] = f]
        /\ Fault
    BY <1>5 DEF Replace
  <2>2. frame_id' \in [Pages -> Frames \cup {-1}] /\ page_id' \in [Frames -> Pages \cup {-1}]
    BY <1>1, <2>1, Zenon
  <2> QED  BY <1>1, <2>1, <2>2, Zenon
<1>6. CASE FIFOReplace
  <2>1. frame_id[queue[head]] \in Frames
    <3>1. frame_id[queue[head]] = head
      BY <1>6, HeadInMemory DEF FIFOReplace, Executes
    <3> QED  BY <3>1 DEF MemoryInvariant, TypeOK
  <2>2. PICK v, f : v = queue[head] /\ f = frame_id[queue[head]]  OBVIOUS
  <2>3. /\ frame_id' = [frame_id EXCEPT ![page] = f, ![v] = -1]
        /\ is_in_memory' = (is_in_memory \cup {page}) \ {v}
        /\ page_id' = [page_id EXCEPT ![f] = page]
        /\ is_free' = is_free /\ Fault
    BY <1>6, <2>2 DEF FIFOReplace
  <2>4. f \in Frames  BY <2>1, <2>2
  <2>5. frame_id' \in [Pages -> Frames \cup {-1}]
    BY <1>1, <2>3, <2>4, Zenon
  <2>6. page_id' \in [Frames -> Pages \cup {-1}]
    BY <1>1, <2>3, <2>4, SMT
  <2> QED  BY <1>1, <1>3, <2>3, <2>5, <2>6
<1> QED  BY <1>2, <1>3, <1>4, <1>5, <1>6, Zenon DEF Fill

\* ... and every action keeps those of the other variables.
LEMMA TypeStep ==
  ASSUME MemoryInvariant, [Next]_vars
  PROVE  TypeOK'
<1> USE DEF MemoryInvariant
<1>t. TypeOK  OBVIOUS
<1>1. ASSUME NEW a \in Algorithms, Executes(a)
      PROVE  /\ main_t' \in [0..total_instruction - 1 -> Pages]
             /\ alg' \in Algorithms \cup {"done"} /\ pos' \in 0..total_instruction
             /\ pos' = pos + 1 /\ pos < total_instruction /\ alg = a
             /\ rate' \in [Algorithms -> -1..total_instruction]
  BY <1>t, <1>1, SMT DEF TypeOK, Executes
<1>2. ASSUME Enqueue, page \in Pages
      PROVE  queue' \in [Frames -> Pages] /\ tail' \in Frames
  <2>1. tail' = IF tail + 1 = AP THEN 0 ELSE tail + 1
    BY <1>t, <1>2, AdvanceWraps DEF Enqueue, TypeOK
  <2>2. queue \in [Frames -> Pages] /\ tail \in Frames  BY <1>t DEF TypeOK
  <2>3. queue' = [queue EXCEPT ![tail] = page]  BY <1>2 DEF Enqueue
  <2>4. queue' \in [Frames -> Pages]  BY <1>2, <2>2, <2>3, Zenon
  <2> QED  BY <2>1, <2>2, <2>4, SMT
<1>3. CASE FIFO
  <2>1. Executes("FIFO") /\ "FIFO" \in Algorithms /\ FIFOSame
    BY <1>3 DEF FIFO, FIFOHit, FIFOFill, FIFOReplace, Algorithms
  <2>2. page \in Pages  BY <1>1, <2>1, PageIsPage
  <2>3. Hit \/ Fill \/ FIFOReplace
    BY <1>3 DEF FIFO, FIFOHit, FIFOFill
  <2>4. /\ queue' \in [Frames -> Pages] /\ queue_len' \in 0..AP
        /\ head' \in Frames /\ tail' \in Frames
    <3>1. CASE FIFOHit
      BY <1>t, <3>1, Zenon DEF FIFOHit, queueVars, TypeOK
    <3>2. CASE FIFOFill
      <4>1. is_free = queue_len..AP - 1 /\ is_free # {}
        BY <3>2 DEF FIFOFill, Fill, FIFOShape, Executes
      <4>2. queue_len' \in 0..AP
        BY <1>t, <3>2, <4>1, SMT DEF FIFOFill, TypeOK
      <4> QED  BY <1>t, <1>2, <2>2, <3>2, <4>2 DEF FIFOFill, TypeOK
    <3>3. CASE FIFOReplace
      <4>1. head' = IF head + 1 = AP THEN 0 ELSE head + 1
        BY <1>t, <3>3, AdvanceWraps DEF FIFOReplace, TypeOK
      <4>2. head' \in Frames  BY <1>t, <4>1, SMT DEF TypeOK
      <4> QED  BY <1>t, <1>2, <2>2, <3>3, <4>2 DEF FIFOReplace, TypeOK
    <3> QED  BY <1>3, <3>1, <3>2, <3>3 DEF FIFO
  <2>5. /\ no_use_time' \in [Frames -> 0..total_instruction] /\ has_used' \subseteq Frames
        /\ period' \in 0..CLEAR_PERIOD - 1
    BY <1>t, <2>1 DEF FIFOSame, TypeOK
  <2> QED  BY <1>1, <2>1, <2>3, <2>4, <2>5, TablesType, Zenon DEF TypeOK
<1>4. CASE LRU
  <2>1. Executes("LRU") /\ "LRU" \in Algorithms /\ LRUSame
    BY <1>4 DEF LRU, LRUHit, LRUFill, LRUReplace, Algorithms
  <2>2. Aged \in [Frames -> 0..pos] /\ pos \in 0..total_instruction
    BY <1>t, <1>1, <2>1, AgedRange DEF TypeOK
  <2>3. no_use_time' \in [Frames -> 0..pos]
    <3>1. ASSUME NEW f, no_use_time' = [Aged EXCEPT ![f] = 0]
          PROVE  no_use_time' \in [Frames -> 0..pos]
      <4>1. 0 \in 0..pos  BY <2>2, SMT
      <4> QED  BY <2>2, <3>1, <4>1, Zenon
    <3> QED  BY <1>4, <2>2, <3>1, Zenon DEF LRU, LRUHit, LRUFill, LRUReplace
  <2>4. no_use_time' \in [Frames -> 0..total_instruction]
    BY <2>2, <2>3, SMT
  <2>5. Hit \/ Fill \/ \E f \in Frames : Replace(f)
    <3>1. CASE LRUReplace
      <4>1. is_free = {}  BY <3>1 DEF LRUReplace, Replace
      <4>2. First(LongestUnused) \in Frames  BY <1>1, <2>1, <4>1, LongestFound
      <4> QED  BY <3>1, <4>2 DEF LRUReplace
    <3> QED  BY <1>4, <3>1 DEF LRU, LRUHit, LRUFill
  <2>6. /\ queue' \in [Frames -> Pages] /\ queue_len' \in 0..AP
        /\ head' \in Frames /\ tail' \in Frames
        /\ has_used' \subseteq Frames /\ period' \in 0..CLEAR_PERIOD - 1
    BY <1>t, <2>1 DEF LRUSame, queueVars, TypeOK
  <2> QED  BY <1>1, <2>1, <2>4, <2>5, <2>6, TablesType, Zenon DEF TypeOK
<1>5. CASE NUR
  <2>1. NURTurn /\ Executes("NUR") /\ "NUR" \in Algorithms /\ NURSame
    BY <1>5 DEF NUR, NURHit, NURFill, NURReplace, NURTurn, Algorithms
  <2>2. Hit \/ Fill \/ \E f \in Frames : Replace(f)
    BY <1>5, NotUsedFound DEF NUR, NURHit, NURFill, NURReplace
  <2>3. \E f \in Frames : has_used' = Used \cup {f}
    <3>1. CASE NURHit
      <4>1. frame_id[page] \in Frames
        BY <3>1, SMT DEF NURHit, Hit, FramesMatchPages
      <4> QED  BY <3>1, <4>1 DEF NURHit
    <3>2. CASE NURFill
      <4>1. FreeFrame \in Frames
        BY <1>t, <1>1, <2>1, <3>2, FillTables DEF NURFill, TypeOK
      <4> QED  BY <3>2, <4>1 DEF NURFill
    <3>3. CASE NURReplace
      BY <3>3, NotUsedFound DEF NURReplace
    <3> QED  BY <1>5, <3>1, <3>2, <3>3 DEF NUR
  <2>4. has_used' \subseteq Frames
    BY <1>t, <2>3 DEF Used, TypeOK
  <2>5. period' \in 0..CLEAR_PERIOD - 1
    BY <1>t, <2>1, SMT DEF NURTurn, PeriodOver, TypeOK
  <2>6. /\ queue' \in [Frames -> Pages] /\ queue_len' \in 0..AP
        /\ head' \in Frames /\ tail' \in Frames
        /\ no_use_time' \in [Frames -> 0..total_instruction]
    BY <1>t, <2>1 DEF NURSame, queueVars, TypeOK
  <2> QED  BY <1>1, <2>1, <2>2, <2>4, <2>5, <2>6, TablesType, Zenon DEF TypeOK
<1>6. CASE OPT
  <2>1. Executes("OPT") /\ "OPT" \in Algorithms /\ OPTSame
    BY <1>6 DEF OPT, OPTHit, OPTFill, OPTReplace, Algorithms
  <2>2. Hit \/ Fill \/ \E f \in Frames : Replace(f)
    BY <1>t, <1>6, FarthestFound DEF OPT, OPTHit, OPTFill, OPTReplace
  <2>3. /\ queue' \in [Frames -> Pages] /\ queue_len' \in 0..AP
        /\ head' \in Frames /\ tail' \in Frames
        /\ no_use_time' \in [Frames -> 0..total_instruction]
        /\ has_used' \subseteq Frames /\ period' \in 0..CLEAR_PERIOD - 1
    BY <1>t, <2>1 DEF OPTSame, queueVars, TypeOK
  <2> QED  BY <1>1, <2>1, <2>2, <2>3, TablesType, Zenon DEF TypeOK
<1>7. ASSUME Print_rate PROVE rate' \in [Algorithms -> -1..total_instruction]
  <2>1. rate' = [rate EXCEPT ![alg] = diseffect]  BY <1>7 DEF Print_rate
  <2>2. diseffect \in -1..total_instruction  BY <1>t, SMT DEF TypeOK
  <2>3. rate \in [Algorithms -> -1..total_instruction]  BY <1>t DEF TypeOK
  <2> QED  BY <2>1, <2>2, <2>3, Zenon
<1>8. CASE NextAlgorithm
  <2>1. alg' \in Algorithms  BY <1>8, SMT DEF NextAlgorithm, Algorithms
  <2>2. /\ main_t' = main_t /\ pos' = 0 /\ period' = 0 /\ UNCHANGED queueVars
        /\ rate' \in [Algorithms -> -1..total_instruction] /\ clear_memory
    BY <1>7, <1>8 DEF NextAlgorithm, Print_rate
  <2>3. /\ diseffect' \in 0..pos' /\ pos' \in 0..total_instruction
        /\ period' \in 0..CLEAR_PERIOD - 1
    BY <2>2, SMT DEF clear_memory
  <2>4. /\ is_in_memory' \subseteq Pages /\ frame_id' \in [Pages -> Frames \cup {-1}]
        /\ page_id' \in [Frames -> Pages \cup {-1}] /\ is_free' \subseteq Frames
        /\ has_used' \subseteq Frames
    BY <2>2, SMT DEF clear_memory
  <2>5. /\ no_use_time' \in [Frames -> 0..total_instruction]
        /\ loadedAt' \in [Pages -> -1..total_instruction - 1]
    BY <2>2, SMT DEF clear_memory
  <2> QED  BY <1>t, <2>1, <2>2, <2>3, <2>4, <2>5, Zenon DEF queueVars, TypeOK
<1>9. CASE Return
  BY <1>t, <1>7, <1>9 DEF Return, Print_rate, tables, queueVars, TypeOK
<1>10. CASE UNCHANGED vars
  BY <1>t, <1>10 DEF vars, tables, queueVars, TypeOK
<1> QED  BY <1>3, <1>4, <1>5, <1>6, <1>8, <1>9, <1>10 DEF Next

-----------------------------------------------------------------------------
\* What the actions have in common, for the lemmas that follow.
LEMMA Turns ==
  ASSUME MemoryInvariant, Next
  PROVE  \/ FIFO /\ Executes("FIFO")
         \/ LRU /\ Executes("LRU")
         \/ NUR /\ Executes("NUR")
         \/ OPT /\ Executes("OPT")
         \/ NextAlgorithm /\ alg' \in {"LRU", "NUR", "OPT"} /\ clear_memory
         \/ Return /\ alg' = "done"
<1>1. NextAlgorithm => alg' \in {"LRU", "NUR", "OPT"} /\ clear_memory
  BY SMT DEF NextAlgorithm, Algorithms
<1> QED
  BY <1>1, Zenon DEF Next, FIFO, FIFOHit, FIFOFill, FIFOReplace,
        LRU, LRUHit, LRUFill, LRUReplace, NUR, NURHit, NURFill, NURReplace, NURTurn,
        OPT, OPTHit, OPTFill, OPTReplace, Return

LEMMA TablesStep ==
  ASSUME MemoryInvariant, [Next]_vars
  PROVE  FramesMatchPages'
<1>1. ASSUME is_in_memory' = is_in_memory, frame_id' = frame_id,
             page_id' = page_id, is_free' = is_free
      PROVE  FramesMatchPages'
  BY <1>1 DEF MemoryInvariant, FramesMatchPages
<1>2. ASSUME Hit PROVE FramesMatchPages'
  BY <1>1, <1>2 DEF Hit, tables
<1>3. CASE FIFO /\ Executes("FIFO")
  BY <1>2, <1>3, FillTables, FIFOReplaceTables
  DEF FIFO, FIFOHit, FIFOFill, Executes
<1>4. CASE LRU /\ Executes("LRU")
  <2>1. ASSUME LRUReplace PROVE First(LongestUnused) \in Frames
    BY <1>4, <2>1, LongestFound DEF LRUReplace, Replace, Executes
  <2> QED
    BY <1>2, <1>4, <2>1, FillTables, ReplaceTables
    DEF LRU, LRUHit, LRUFill, LRUReplace, Executes
<1>5. CASE NUR /\ Executes("NUR")
  BY <1>2, <1>5, FillTables, ReplaceTables, NotUsedFound
  DEF NUR, NURHit, NURFill, NURReplace, Executes
<1>6. CASE OPT /\ Executes("OPT")
  BY <1>2, <1>6, FillTables, ReplaceTables, FarthestFound
  DEF OPT, OPTHit, OPTFill, OPTReplace, Executes, MemoryInvariant
<1>7. CASE clear_memory
  BY <1>7, SMT DEF clear_memory, FramesMatchPages
<1>8. CASE Return
  BY <1>1, <1>8 DEF Return, tables
<1>9. CASE UNCHANGED vars
  BY <1>1, <1>9 DEF vars, tables
<1> QED  BY <1>3, <1>4, <1>5, <1>6, <1>7, <1>8, <1>9, Turns

-----------------------------------------------------------------------------
\* LRU: after a turn that puts the page in frame f, or finds it there, the age
\* of f is 0 and the others have grown by the one instruction, which used none
\* of their pages.
LEMMA LRUAges ==
  ASSUME MemoryInvariant, alg = "LRU", pos < total_instruction,
         NEW f \in Frames,
         pos' = pos + 1, main_t' = main_t,
         page_id' = [page_id EXCEPT ![f] = page],
         is_free' = is_free \ {f},
         no_use_time' = [Aged EXCEPT ![f] = 0],
         \A g \in Frames \ is_free : g # f => page_id[g] # page
  PROVE  AgesAreExact' /\ FreeUnaged'
<1>1. /\ pos \in Nat /\ page_id \in [Frames -> Pages \cup {-1}]
      /\ is_free \subseteq Frames
      /\ no_use_time \in [Frames -> 0..total_instruction]
  <2>1. /\ pos \in 0..total_instruction /\ page_id \in [Frames -> Pages \cup {-1}]
        /\ is_free \subseteq Frames
        /\ no_use_time \in [Frames -> 0..total_instruction]
    BY DEF MemoryInvariant, TypeOK
  <2>2. pos \in Nat  BY <2>1, SMT
  <2> QED  BY <2>1, <2>2
<1>2. Aged \in [Frames -> 0..pos]  BY AgedRange
<1>3. no_use_time'[f] = 0 /\ page_id'[f] = page
  BY <1>1, <1>2
<1>4. \A g \in Frames \ {f} : /\ page_id'[g] = page_id[g]
                              /\ no_use_time'[g] = Aged[g]
  BY <1>1, <1>2
<1>5. \A g \in Frames : Aged[g] = IF g \in is_free THEN no_use_time[g] ELSE no_use_time[g] + 1
  BY DEF Aged
<1>6. ASSUME NEW g \in Frames \ is_free'
      PROVE  /\ pos' - 1 - no_use_time'[g] >= 0
             /\ main_t[pos' - 1 - no_use_time'[g]] = page_id'[g]
             /\ \A j \in (pos' - 1 - no_use_time'[g]) + 1..pos' - 1 : main_t[j] # page_id'[g]
  <2>1. CASE g = f
    <3>1. pos' - 1 - no_use_time'[g] = pos /\ pos' - 1 = pos
      BY <1>1, <1>3, <2>1, SMT
    <3> QED  BY <1>1, <1>3, <2>1, <3>1, SMT DEF page
  <2>2. CASE g # f
    <3>1. g \in Frames \ is_free /\ g # f  BY <1>6, <2>2
    <3>2. /\ no_use_time'[g] = no_use_time[g] + 1 /\ no_use_time[g] \in Nat
          /\ page_id'[g] = page_id[g] /\ page_id[g] # page
      BY <1>1, <1>4, <1>5, <3>1, SMT
    <3>3. /\ pos - 1 - no_use_time[g] >= 0
          /\ main_t[pos - 1 - no_use_time[g]] = page_id[g]
          /\ \A j \in (pos - 1 - no_use_time[g]) + 1..pos - 1 : main_t[j] # page_id[g]
      BY <3>1 DEF MemoryInvariant, AgesAreExact
    <3>4. pos' - 1 - no_use_time'[g] = pos - 1 - no_use_time[g] /\ pos' - 1 = pos
      BY <1>1, <3>2, SMT
    <3>5. ASSUME NEW j \in (pos - 1 - no_use_time[g]) + 1..pos
          PROVE  main_t[j] # page_id[g]
      BY <1>1, <3>2, <3>3, <3>5, SMT DEF page
    <3> QED  BY <3>2, <3>3, <3>4, <3>5
  <2> QED  BY <2>1, <2>2
<1>7. AgesAreExact'
  BY <1>6 DEF AgesAreExact
<1>8. \A g \in is_free' : no_use_time'[g] = 0
  BY <1>1, <1>4, <1>5, SMT DEF MemoryInvariant, FreeUnaged
<1> QED  BY <1>7, <1>8 DEF FreeUnaged

\* A page that is in memory is in one frame, and one that is not, in none.
LEMMA OnlyFrame ==
  ASSUME MemoryInvariant, NEW f \in Frames,
         page \notin is_in_memory \/ frame_id[page] = f
  PROVE  \A g \in Frames \ is_free : g # f => page_id[g] # page
BY DEF MemoryInvariant, FramesMatchPages

LEMMA LRUStep ==
  ASSUME MemoryInvariant, [Next]_vars
  PROVE  AgesAreExact' /\ FreeUnaged'
<1>1. CASE alg' # "LRU"
  BY <1>1 DEF AgesAreExact, FreeUnaged
<1>2. CASE LRU /\ Executes("LRU")
  <2>1. /\ alg = "LRU" /\ pos < total_instruction /\ pos' = pos + 1 /\ main_t' = main_t
        /\ page_id \in [Frames -> Pages \cup {-1}] /\ is_free \subseteq Frames
        /\ Aged \in [Frames -> 0..pos]
    BY <1>2, AgedRange DEF Executes, MemoryInvariant, TypeOK
  <2>2. CASE LRUHit
    <3>1. PICK f : f = frame_id[page]  OBVIOUS
    <3>2. f \in Frames \ is_free /\ page_id[f] = page
      BY <2>2, <3>1 DEF LRUHit, Hit, MemoryInvariant, FramesMatchPages
    <3>3. page_id' = [page_id EXCEPT ![f] = page] /\ is_free' = is_free \ {f}
      BY <2>1, <2>2, <3>2 DEF LRUHit, Hit, tables
    <3>4. no_use_time' = [Aged EXCEPT ![f] = 0]
      BY <2>2, <3>1 DEF LRUHit
    <3> QED  BY <2>1, <3>1, <3>2, <3>3, <3>4, OnlyFrame, LRUAges
  <2>3. CASE LRUFill
    <3>1. PICK f : f = FreeFrame  OBVIOUS
    <3>2. f \in is_free /\ f \in Frames
      BY <2>1, <2>3, <3>1, FillTables DEF LRUFill
    <3>3. page_id' = [page_id EXCEPT ![f] = page] /\ is_free' = is_free \ {f}
      BY <2>3, <3>1 DEF LRUFill, Fill
    <3>4. Aged[f] = 0
      BY <2>1, <3>2 DEF Aged, MemoryInvariant, FreeUnaged
    <3>5. no_use_time' = [Aged EXCEPT ![f] = 0]
      BY <2>1, <2>3, <3>4 DEF LRUFill
    <3>6. page \notin is_in_memory  BY <2>3 DEF LRUFill, Fill, Fault
    <3> QED  BY <2>1, <3>2, <3>3, <3>5, <3>6, OnlyFrame, LRUAges
  <2>4. CASE LRUReplace
    <3>1. PICK f : f = First(LongestUnused)  OBVIOUS
    <3>2. is_free = {} /\ f \in Frames
      BY <2>1, <2>4, <3>1, LongestFound DEF LRUReplace, Replace
    <3>3. page_id' = [page_id EXCEPT ![f] = page] /\ is_free' = is_free \ {f}
      BY <2>4, <3>1, <3>2 DEF LRUReplace, Replace
    <3>4. no_use_time' = [Aged EXCEPT ![f] = 0] /\ page \notin is_in_memory
      BY <2>4, <3>1 DEF LRUReplace, Replace, Fault
    <3> QED  BY <2>1, <3>2, <3>3, <3>4, OnlyFrame, LRUAges
  <2> QED  BY <1>2, <2>2, <2>3, <2>4 DEF LRU
<1>3. CASE NextAlgorithm /\ clear_memory
  BY <1>3, SMT DEF clear_memory, AgesAreExact, FreeUnaged
<1>4. CASE UNCHANGED vars
  BY <1>4, Zenon DEF vars, tables, MemoryInvariant, AgesAreExact, FreeUnaged
<1> QED  BY <1>1, <1>2, <1>3, <1>4, Turns, SMT DEF Executes

-----------------------------------------------------------------------------
\* NUR: after a turn that puts the page in frame f, or finds it there, f is
\* used in the period that the turn belongs to, and no other frame is touched.
LEMMA NURUses ==
  ASSUME MemoryInvariant, alg = "NUR", pos < total_instruction,
         NEW f \in Frames,
         pos' = pos + 1, main_t' = main_t,
         page_id' = [page_id EXCEPT ![f] = page],
         is_free' = is_free \ {f},
         period' = IF PeriodOver THEN 0 ELSE period + 1,
         has_used' = Used \cup {f},
         \A g \in Frames \ is_free : g # f => page_id[g] # page
  PROVE  UsesAreExact'
<1>1. /\ pos \in Nat /\ page_id \in [Frames -> Pages \cup {-1}]
      /\ is_free \subseteq Frames /\ period \in Nat /\ has_used \subseteq Frames
  <2>1. /\ pos \in 0..total_instruction /\ period \in 0..CLEAR_PERIOD - 1
        /\ page_id \in [Frames -> Pages \cup {-1}]
        /\ is_free \subseteq Frames /\ has_used \subseteq Frames
    BY DEF MemoryInvariant, TypeOK
  <2>2. pos \in Nat /\ period \in Nat  BY <2>1, SMT
  <2> QED  BY <2>1, <2>2
<1> SUFFICES ASSUME NEW g \in Frames
             PROVE  g \in has_used' <=>
                      /\ g \notin is_free'
                      /\ \E j \in 0..pos' - 1 : j >= pos' - period' - 1 /\ main_t[j] = page_id'[g]
  BY Zenon DEF UsesAreExact
<1>2. CASE g = f
  <2>1. page_id'[g] = page /\ g \in has_used' /\ g \notin is_free'
    BY <1>1, <1>2
  <2>2. pos \in 0..pos' - 1 /\ pos >= pos' - period' - 1
    BY <1>1, SMT
  <2>3. main_t[pos] = page_id'[g]  BY <2>1 DEF page
  <2> QED  BY <2>1, <2>2, <2>3
<1>3. CASE g # f /\ g \in is_free
  <2>1. g \notin has_used  BY <1>3 DEF MemoryInvariant, UsesAreExact
  <2> QED  BY <1>3, <2>1 DEF Used
<1>4. CASE g # f /\ g \notin is_free
  <2>1. page_id'[g] = page_id[g] /\ page_id[g] # page /\ g \notin is_free'
    BY <1>1, <1>4
  <2>2. g \in has_used' <=> g \in Used  BY <1>4
  <2>3. CASE PeriodOver
    <3>1. \A j \in 0..pos' - 1 : j >= pos' - period' - 1 => j = pos
      BY <1>1, <2>3, SMT
    <3>2. g \notin Used  BY <2>3 DEF Used
    <3> QED  BY <2>1, <2>2, <3>1, <3>2 DEF page
  <2>4. CASE ~PeriodOver
    <3>1. g \in Used <=> g \in has_used  BY <2>4 DEF Used
    <3>2. g \in has_used <=> \E j \in 0..pos - 1 : j >= pos - period - 1 /\ main_t[j] = page_id[g]
      BY <1>4 DEF MemoryInvariant, UsesAreExact
    <3>3. pos' - period' - 1 = pos - period - 1 /\ pos' - 1 = pos
      BY <1>1, <2>4, SMT
    <3>4. (\E j \in 0..pos : j >= pos - period - 1 /\ main_t[j] = page_id[g])
            <=> (\E j \in 0..pos - 1 : j >= pos - period - 1 /\ main_t[j] = page_id[g])
      <4>1. \A j \in 0..pos : main_t[j] = page_id[g] => j # pos
        BY <2>1 DEF page
      <4>2. 0..pos - 1 \subseteq 0..pos /\ \A j \in 0..pos : j # pos => j \in 0..pos - 1
        BY <1>1, SMT
      <4> QED  BY <4>1, <4>2, Zenon
    <3> QED  BY <2>1, <2>2, <3>1, <3>2, <3>3, <3>4, Zenon
  <2> QED  BY <2>3, <2>4
<1> QED  BY <1>2, <1>3, <1>4

LEMMA NURStep ==
  ASSUME MemoryInvariant, [Next]_vars
  PROVE  UsesAreExact'
<1>1. CASE alg' # "NUR"
  BY <1>1 DEF UsesAreExact
<1>2. CASE NUR /\ Executes("NUR")
  <2>1. /\ alg = "NUR" /\ pos < total_instruction /\ pos' = pos + 1 /\ main_t' = main_t
        /\ page_id \in [Frames -> Pages \cup {-1}] /\ is_free \subseteq Frames
        /\ period' = IF PeriodOver THEN 0 ELSE period + 1
    BY <1>2 DEF NUR, NURHit, NURFill, NURReplace, NURTurn, Executes, MemoryInvariant, TypeOK
  <2>2. CASE NURHit
    <3>1. PICK f : f = frame_id[page]  OBVIOUS
    <3>2. f \in Frames \ is_free /\ page_id[f] = page
      BY <2>2, <3>1 DEF NURHit, Hit, MemoryInvariant, FramesMatchPages
    <3>3. page_id' = [page_id EXCEPT ![f] = page] /\ is_free' = is_free \ {f}
      BY <2>1, <2>2, <3>2 DEF NURHit, Hit, tables
    <3>4. has_used' = Used \cup {f}
      BY <2>2, <3>1 DEF NURHit
    <3> QED  BY <2>1, <3>1, <3>2, <3>3, <3>4, OnlyFrame, NURUses
  <2>3. CASE NURFill
    <3>1. PICK f : f = FreeFrame  OBVIOUS
    <3>2. f \in Frames
      BY <2>1, <2>3, <3>1, FillTables DEF NURFill
    <3>3. page_id' = [page_id EXCEPT ![f] = page] /\ is_free' = is_free \ {f}
      BY <2>3, <3>1 DEF NURFill, Fill
    <3>4. has_used' = Used \cup {f} /\ page \notin is_in_memory
      BY <2>3, <3>1 DEF NURFill, Fill, Fault
    <3> QED  BY <2>1, <3>2, <3>3, <3>4, OnlyFrame, NURUses
  <2>4. CASE NURReplace
    <3>1. PICK f : f = NotUsedFrame  OBVIOUS
    <3>2. is_free = {} /\ f \in Frames
      BY <2>4, <3>1, NotUsedFound DEF NURReplace, Replace
    <3>3. page_id' = [page_id EXCEPT ![f] = page] /\ is_free' = is_free \ {f}
      BY <2>4, <3>1, <3>2 DEF NURReplace, Replace
    <3>4. has_used' = Used \cup {f} /\ page \notin is_in_memory
      BY <2>4, <3>1 DEF NURReplace, Replace, Fault
    <3> QED  BY <2>1, <3>2, <3>3, <3>4, OnlyFrame, NURUses
  <2> QED  BY <1>2, <2>2, <2>3, <2>4 DEF NUR
<1>3. CASE NextAlgorithm /\ clear_memory
  BY <1>3, Zenon DEF clear_memory, UsesAreExact
<1>4. CASE UNCHANGED vars
  BY <1>4, Zenon DEF vars, tables, MemoryInvariant, UsesAreExact
<1> QED  BY <1>1, <1>2, <1>3, <1>4, Turns, SMT DEF Executes

-----------------------------------------------------------------------------
\* FIFO: while frames are free, the queue grows as they are taken; then the
\* new page takes the slot of the oldest and the head moves on.
LEMMA FIFOFillShape ==
  ASSUME MemoryInvariant, FIFOFill
  PROVE  FIFOShape' /\ QueueInLoadOrder'
<1>1. PICK n : n = queue_len  OBVIOUS
<1>2. /\ alg = "FIFO" /\ pos < total_instruction /\ pos' = pos + 1 /\ Fill
      /\ queue_len' = n + 1 /\ head' = head
  BY <1>1 DEF FIFOFill, Executes
<1>3. /\ n \in Nat /\ n < AP /\ is_free = n..AP - 1 /\ head = 0 /\ tail = n
      /\ pos \in Nat
  <2>1. n \in 0..AP /\ pos \in Nat  BY <1>1, SMT DEF MemoryInvariant, TypeOK
  <2>2. is_free = n..AP - 1 /\ is_free # {}
    BY <1>1, <1>2 DEF MemoryInvariant, FIFOShape, Fill
  <2>3. n < AP  BY <2>1, <2>2, SMT
  <2>4. head = 0 /\ tail = n
    BY <1>1, <1>2, <2>3 DEF MemoryInvariant, FIFOShape
  <2> QED  BY <2>1, <2>2, <2>3, <2>4, SMT
<1>4. FreeFrame = n
  <2>1. FreeFrame \in n..AP - 1 /\ \A y \in n..AP - 1 : FreeFrame <= y
    <3>1. n..AP - 1 \in SUBSET Nat /\ n \in n..AP - 1  BY <1>3, SMT
    <3> QED  BY <1>3, <3>1, FirstIsLeast DEF FreeFrame
  <2>2. n \in n..AP - 1  BY <1>3, SMT
  <2> QED  BY <1>3, <2>1, <2>2, SMT
<1>5. /\ page_id' = [page_id EXCEPT ![n] = page] /\ is_free' = is_free \ {n}
      /\ queue' = [queue EXCEPT ![n] = page] /\ tail' = Advance(n)
      /\ loadedAt' = [loadedAt EXCEPT ![page] = pos]
      /\ page \notin is_in_memory
  BY <1>3, <1>4 DEF FIFOFill, Fill, Fault, Enqueue
<1>6. /\ page \in Pages /\ page_id \in [Frames -> Pages \cup {-1}]
      /\ queue \in [Frames -> Pages] /\ loadedAt \in [Pages -> -1..total_instruction - 1]
  BY <1>2, PageIsPage DEF MemoryInvariant, TypeOK
<1>7. tail' = IF n + 1 = AP THEN 0 ELSE n + 1
  <2>1. n \in Frames  BY <1>3, SMT
  <2> QED  BY <1>5, <2>1, AdvanceWraps
<1>8. \A k \in 0..n - 1 : queue[k] = page_id[k] /\ queue[k] \in is_in_memory
  <2>1. \A k \in 0..n - 1 : k \in Frames \ is_free  BY <1>3, SMT
  <2> QED
    BY <1>1, <1>2, <2>1 DEF MemoryInvariant, FIFOShape, FramesMatchPages
<1>9. \A p \in Pages : loadedAt[p] < pos
  BY <1>2 DEF MemoryInvariant, FIFOShape
<1>10. \A k \in 0..n - 1 : queue'[k] = queue[k] /\ page_id'[k] = page_id[k]
  BY <1>3, <1>5, <1>6, SMT
<1>11. queue'[n] = page /\ page_id'[n] = page
  BY <1>3, <1>5, <1>6, SMT
<1>12. /\ loadedAt'[page] = pos
       /\ \A p \in Pages : p # page => loadedAt'[p] = loadedAt[p]
  BY <1>5, <1>6
<1>13. FIFOShape'
  <2>1. is_free' = queue_len'..AP - 1  BY <1>2, <1>3, <1>5, SMT
  <2>2. \A k \in 0..queue_len' - 1 : page_id'[k] = queue'[k]
    BY <1>2, <1>3, <1>8, <1>10, <1>11, SMT
  <2>3. IF queue_len' < AP THEN head' = 0 /\ tail' = queue_len' ELSE tail' = head'
    BY <1>2, <1>3, <1>7, SMT
  <2>4. \A p \in Pages : loadedAt'[p] < pos'
    <3>1. \A p \in Pages : loadedAt[p] \in Int  BY <1>6, SMT
    <3> QED  BY <1>2, <1>3, <1>9, <1>12, <3>1, SMT
  <2> QED  BY <2>1, <2>2, <2>3, <2>4, Zenon DEF FIFOShape
<1>14. ASSUME NEW k \in 0..queue_len' - 1, NEW l \in 0..queue_len' - 1, Before(k, l)'
       PROVE  loadedAt'[queue'[k]] < loadedAt'[queue'[l]]
  <2>1. k < l  BY <1>2, <1>3, <1>14, SMT DEF Before
  <2>2. k \in 0..n - 1 /\ queue[k] \in Pages /\ queue[k] # page
    <3>1. k \in 0..n - 1  BY <1>2, <1>3, <2>1, SMT
    <3>2. queue[k] \in is_in_memory  BY <1>8, <3>1
    <3>3. is_in_memory \subseteq Pages  BY DEF MemoryInvariant, TypeOK
    <3> QED  BY <1>5, <3>1, <3>2, <3>3, Zenon
  <2>3. loadedAt'[queue'[k]] = loadedAt[queue[k]]
    BY <1>10, <1>12, <2>2
  <2>4. CASE l = n
    BY <1>9, <1>11, <1>12, <2>2, <2>3, <2>4
  <2>5. CASE l # n
    <3>1. l \in 0..n - 1  BY <1>2, <1>3, <2>5, SMT
    <3>2. queue[l] \in Pages /\ queue[l] # page
      BY <1>5, <1>8, <3>1 DEF MemoryInvariant, TypeOK
    <3>3. loadedAt'[queue'[l]] = loadedAt[queue[l]]
      BY <1>10, <1>12, <3>1, <3>2
    <3>4. Before(k, l)  BY <1>3, <2>1, <2>2, <3>1, SMT DEF Before
    <3>5. loadedAt[queue[k]] < loadedAt[queue[l]]
      BY <1>1, <1>2, <2>2, <3>1, <3>4 DEF MemoryInvariant, QueueInLoadOrder
    <3> QED  BY <2>3, <3>3, <3>5
  <2> QED  BY <2>4, <2>5
<1>15. QueueInLoadOrder'  BY <1>14, Zenon DEF QueueInLoadOrder
<1> QED  BY <1>13, <1>15

LEMMA FIFOReplaceShape ==
  ASSUME MemoryInvariant, FIFOReplace
  PROVE  FIFOShape' /\ QueueInLoadOrder'
<1>1. PICK h : h = head  OBVIOUS
<1>2. /\ alg = "FIFO" /\ pos < total_instruction /\ pos' = pos + 1
      /\ is_free = {} /\ is_free' = {} /\ queue_len' = queue_len
      /\ page \notin is_in_memory
  BY DEF FIFOReplace, Executes, Fault
<1>3. queue_len = AP /\ frame_id[queue[h]] = h
  BY <1>1, <1>2, HeadInMemory
<1>4. tail = h /\ h \in Frames /\ pos \in Nat
  BY <1>1, <1>2, <1>3, SMT DEF MemoryInvariant, FIFOShape, TypeOK
<1>5. /\ page_id' = [page_id EXCEPT ![h] = page]
      /\ queue' = [queue EXCEPT ![h] = page]
      /\ head' = Advance(h) /\ tail' = Advance(h)
      /\ loadedAt' = [loadedAt EXCEPT ![page] = pos]
  BY <1>1, <1>3, <1>4 DEF FIFOReplace, Fault, Enqueue
<1>6. /\ page \in Pages /\ page_id \in [Frames -> Pages \cup {-1}]
      /\ queue \in [Frames -> Pages] /\ loadedAt \in [Pages -> -1..total_instruction - 1]
  BY <1>2, PageIsPage DEF MemoryInvariant, TypeOK
<1>7. head' = IF h + 1 = AP THEN 0 ELSE h + 1
  BY <1>4, <1>5, AdvanceWraps
<1>8. \A k \in Frames : queue[k] = page_id[k] /\ queue[k] \in is_in_memory
  <2>1. \A k \in Frames : k \in 0..queue_len - 1 /\ k \in Frames \ is_free
    BY <1>2, <1>3, SMT
  <2> QED  BY <1>2, <2>1 DEF MemoryInvariant, FIFOShape, FramesMatchPages
<1>9. \A p \in Pages : loadedAt[p] < pos
  BY <1>2 DEF MemoryInvariant, FIFOShape
<1>10. \A k \in Frames : k # h => queue'[k] = queue[k] /\ page_id'[k] = page_id[k]
  BY <1>5, <1>6
<1>11. queue'[h] = page /\ page_id'[h] = page
  BY <1>4, <1>5, <1>6
<1>12. /\ loadedAt'[page] = pos
       /\ \A p \in Pages : p # page => loadedAt'[p] = loadedAt[p]
  BY <1>5, <1>6
<1>13. FIFOShape'
  <2>1. is_free' = queue_len'..AP - 1  BY <1>2, <1>3, SMT
  <2>2. \A k \in 0..queue_len' - 1 : page_id'[k] = queue'[k]
    <3>1. \A k \in Frames : page_id'[k] = queue'[k]  BY <1>8, <1>10, <1>11
    <3> QED  BY <1>2, <1>3, <3>1, SMT
  <2>3. IF queue_len' < AP THEN head' = 0 /\ tail' = queue_len' ELSE tail' = head'
    BY <1>2, <1>3, <1>5, SMT
  <2>4. \A p \in Pages : loadedAt'[p] < pos'
    <3>1. \A p \in Pages : loadedAt[p] \in Int  BY <1>6, SMT
    <3> QED  BY <1>2, <1>4, <1>9, <1>12, <3>1, SMT
  <2> QED  BY <2>1, <2>2, <2>3, <2>4, Zenon DEF FIFOShape
<1>14. ASSUME NEW k \in 0..queue_len' - 1, NEW l \in 0..queue_len' - 1, Before(k, l)'
       PROVE  loadedAt'[queue'[k]] < loadedAt'[queue'[l]]
  <2>1. k \in Frames /\ l \in Frames  BY <1>2, <1>3, SMT
  <2>2. IF k >= head' THEN l < head' \/ k < l ELSE l < head' /\ k < l
    BY <1>14 DEF Before
  <2>3. k # h  BY <1>4, <1>7, <2>1, <2>2, SMT
  <2>4. queue[k] \in Pages /\ queue[k] # page
    BY <1>2, <1>8, <2>1 DEF MemoryInvariant, TypeOK
  <2>5. loadedAt'[queue'[k]] = loadedAt[queue[k]]
    BY <1>10, <1>12, <2>1, <2>3, <2>4
  <2>6. CASE l = h
    BY <1>9, <1>11, <1>12, <2>4, <2>5, <2>6
  <2>7. CASE l # h
    <3>1. queue[l] \in Pages /\ queue[l] # page
      BY <1>2, <1>8, <2>1 DEF MemoryInvariant, TypeOK
    <3>2. loadedAt'[queue'[l]] = loadedAt[queue[l]]
      BY <1>10, <1>12, <2>1, <2>7, <3>1
    <3>3. Before(k, l)
      BY <1>1, <1>4, <1>7, <2>1, <2>2, <2>3, <2>7, SMT DEF Before
    <3>4. k \in 0..queue_len - 1 /\ l \in 0..queue_len - 1  BY <1>3, <2>1
    <3>5. loadedAt[queue[k]] < loadedAt[queue[l]]
      BY <1>2, <3>3, <3>4 DEF MemoryInvariant, QueueInLoadOrder
    <3> QED  BY <2>5, <3>2, <3>5
  <2> QED  BY <2>6, <2>7
<1>15. QueueInLoadOrder'  BY <1>14, Zenon DEF QueueInLoadOrder
<1> QED  BY <1>13, <1>15

LEMMA FIFOStep ==
  ASSUME MemoryInvariant, [Next]_vars
  PROVE  FIFOShape' /\ QueueInLoadOrder'
<1>1. CASE alg' # "FIFO"
  BY <1>1 DEF FIFOShape, QueueInLoadOrder
<1>2. CASE FIFOHit
  <2>1. /\ UNCHANGED <<alg, loadedAt, page_id, is_free, queue, queue_len, head, tail>>
        /\ alg = "FIFO" /\ pos' = pos + 1
    BY <1>2 DEF FIFOHit, Executes, Hit, tables, queueVars
  <2>2. \A p \in Pages : loadedAt[p] < pos /\ loadedAt[p] \in Int /\ pos \in Int
    <3>1. \A p \in Pages : loadedAt[p] < pos
      BY <2>1 DEF MemoryInvariant, FIFOShape
    <3>2. pos \in 0..total_instruction /\ loadedAt \in [Pages -> -1..total_instruction - 1]
      BY DEF MemoryInvariant, TypeOK
    <3> QED  BY <3>1, <3>2, SMT
  <2>3. \A p \in Pages : loadedAt'[p] < pos'
    BY <2>1, <2>2, SMT
  <2> QED
    BY <2>1, <2>3, Zenon DEF MemoryInvariant, FIFOShape, QueueInLoadOrder, Before
<1>3. CASE UNCHANGED vars
  BY <1>3, Zenon DEF vars, tables, queueVars, MemoryInvariant, FIFOShape, QueueInLoadOrder, Before
<1> QED
  BY <1>1, <1>2, <1>3, FIFOFillShape, FIFOReplaceShape, Turns, SMT DEF FIFO, Executes

-----------------------------------------------------------------------------
(* The invariant.                                                          *)

LEMMA InitOK == Init => MemoryInvariant
<1> SUFFICES ASSUME Init PROVE MemoryInvariant  OBVIOUS
<1>1. TypeOK
  <2>1. /\ main_t \in [0..total_instruction - 1 -> Pages]
        /\ alg \in Algorithms \cup {"done"}
    BY DEF Init, Algorithms
  <2>2. /\ pos \in 0..total_instruction /\ diseffect \in 0..pos
        /\ queue_len \in 0..AP /\ head \in Frames /\ tail \in Frames
        /\ period \in 0..CLEAR_PERIOD - 1
    BY SMT DEF Init
  <2>3. /\ is_in_memory \subseteq Pages /\ frame_id \in [Pages -> Frames \cup {-1}]
        /\ page_id \in [Frames -> Pages \cup {-1}] /\ is_free \subseteq Frames
        /\ has_used \subseteq Frames
    BY SMT DEF Init
  <2>4. /\ no_use_time \in [Frames -> 0..total_instruction]
        /\ queue \in [Frames -> Pages]
        /\ rate \in [Algorithms -> -1..total_instruction]
        /\ loadedAt \in [Pages -> -1..total_instruction - 1]
    BY SMT DEF Init
  <2> QED  BY <2>1, <2>2, <2>3, <2>4 DEF TypeOK
<1>2. FramesMatchPages  BY SMT DEF Init, FramesMatchPages
<1>3. FIFOShape
  <2>1. \A p \in Pages : loadedAt[p] < pos  BY SMT DEF Init
  <2>2. is_free = queue_len..AP - 1 /\ queue_len < AP /\ head = 0 /\ tail = queue_len
    BY SMT DEF Init
  <2>3. \A k \in 0..queue_len - 1 : page_id[k] = queue[k]  BY SMT DEF Init
  <2> QED  BY <2>1, <2>2, <2>3 DEF FIFOShape
<1>4. QueueInLoadOrder  BY SMT DEF Init, QueueInLoadOrder
<1>5. FreeUnaged /\ AgesAreExact /\ UsesAreExact
  BY SMT DEF Init, FreeUnaged, AgesAreExact, UsesAreExact
<1> QED  BY <1>1, <1>2, <1>3, <1>4, <1>5 DEF MemoryInvariant

LEMMA InvariantStep == MemoryInvariant /\ [Next]_vars => MemoryInvariant'
BY TypeStep, TablesStep, FIFOStep, LRUStep, NURStep DEF MemoryInvariant

\* run() keeps the invariant of its tables, queue, ages and flags.
THEOREM InvariantCorrect == Spec => []MemoryInvariant
BY InitOK, InvariantStep, PTL DEF Spec

\* The variables of run() keep their types: every index stays in its table.
THEOREM TypeCorrect == Spec => []TypeOK
<1>1. MemoryInvariant => TypeOK  BY DEF MemoryInvariant
<1> QED  BY <1>1, InvariantCorrect, PTL

\* The tables of pages and of frames describe one mapping, whatever algorithm
\* changes them (struct Page and struct Frame).
THEOREM TablesCorrect == Spec => []FramesMatchPages
<1>1. MemoryInvariant => FramesMatchPages  BY DEF MemoryInvariant
<1> QED  BY <1>1, InvariantCorrect, PTL

\* FIFO's circular queue is in the order in which the pages were loaded.
THEOREM QueueCorrect == Spec => []QueueInLoadOrder
<1>1. MemoryInvariant => QueueInLoadOrder  BY DEF MemoryInvariant
<1> QED  BY <1>1, InvariantCorrect, PTL

\* LRU's no_use_time is the number of instructions since the last use.
THEOREM AgesCorrect == Spec => []AgesAreExact
<1>1. MemoryInvariant => AgesAreExact  BY DEF MemoryInvariant
<1> QED  BY <1>1, InvariantCorrect, PTL

\* NUR's has_used tells the pages used in the current period.
THEOREM UsesCorrect == Spec => []UsesAreExact
<1>1. MemoryInvariant => UsesAreExact  BY DEF MemoryInvariant
<1> QED  BY <1>1, InvariantCorrect, PTL

-----------------------------------------------------------------------------
(* Refinement: DemandPaging with resident as the pages in memory.          *)

\* As many pages are in memory as frames are in use.
LEMMA HowMany ==
  ASSUME MemoryInvariant
  PROVE  /\ is_free = {} => Cardinality(is_in_memory) = AP
         /\ is_free # {} => Cardinality(is_in_memory) < AP
<1> DEFINE U == Frames \ is_free
           b == [f \in U |-> page_id[f]]
<1>1. IsFiniteSet(Frames) /\ Cardinality(Frames) = AP
  <2>1. 0 \in Int /\ AP - 1 \in Int /\ ~(0 > AP - 1) /\ AP - 1 - 0 + 1 = AP  BY SMT
  <2> QED  BY <2>1, FS_Interval, Zenon
<1>2. b \in Bijection(U, is_in_memory)
  <2>1. b \in [U -> is_in_memory]  BY DEF MemoryInvariant, FramesMatchPages
  <2>2. \A f, g \in U : b[f] = b[g] => f = g  BY DEF MemoryInvariant, FramesMatchPages
  <2>3. \A p \in is_in_memory : \E f \in U : b[f] = p
    BY DEF MemoryInvariant, FramesMatchPages
  <2> HIDE DEF b, U
  <2>4. DOMAIN b = U  BY <2>1
  <2>5. b \in Injection(U, is_in_memory)
    BY <2>1, <2>2, <2>4 DEF Injection, IsInjective
  <2>6. b \in Surjection(U, is_in_memory)  BY <2>1, <2>3 DEF Surjection
  <2> QED  BY <2>5, <2>6 DEF Bijection
<1>3. U \in SUBSET Frames  OBVIOUS
<1>4. /\ IsFiniteSet(U) /\ Cardinality(U) <= AP
      /\ AP = Cardinality(U) => Frames = U
  BY <1>1, <1>3, FS_Subset
<1>5. Cardinality(is_in_memory) = Cardinality(U)
  <2> HIDE DEF b, U
  <2>1. ExistsBijection(U, is_in_memory)  BY <1>2 DEF ExistsBijection
  <2> QED  BY <1>4, <2>1, FS_Bijection
<1>6. Cardinality(U) \in Nat  BY <1>4, FS_CardinalityType
<1>7. is_free \subseteq Frames  BY DEF MemoryInvariant, TypeOK
<1>8. CASE is_free = {}
  <2>1. U = Frames  BY <1>8
  <2> QED  BY <1>1, <1>5, <1>8, <2>1
<1>9. CASE is_free # {}
  <2>1. Frames # U  BY <1>7, <1>9
  <2> QED  BY <1>4, <1>5, <1>6, <1>9, <2>1, SMT
<1> QED  BY <1>8, <1>9

\* FIFO's head is the page that came first.
LEMMA FIFOVictim ==
  ASSUME MemoryInvariant, alg = "FIFO", is_free = {}
  PROVE  queue[head] \in Paging!Victims
<1>1. PICK v : v = queue[head]  OBVIOUS
<1>2. queue_len = AP /\ v \in is_in_memory /\ page_id[head] = v /\ head \in Frames
  BY <1>1, HeadInMemory DEF MemoryInvariant, TypeOK
<1>3. ASSUME NEW q \in is_in_memory \ {v} PROVE loadedAt[v] < loadedAt[q]
  <2>1. PICK g \in Frames : page_id[g] = q
    BY <1>3 DEF MemoryInvariant, FramesMatchPages
  <2>2. g # head  BY <1>2, <1>3, <2>1
  <2>3. g \in 0..queue_len - 1 /\ head \in 0..queue_len - 1  BY <1>2, <2>1
  <2>4. queue[g] = q  BY <2>1, <2>3 DEF MemoryInvariant, FIFOShape
  <2>5. Before(head, g)  BY <1>2, <2>1, <2>2, SMT DEF Before
  <2> QED  BY <1>1, <2>3, <2>4, <2>5 DEF MemoryInvariant, QueueInLoadOrder
<1>4. v \in Paging!FirstIn  BY <1>2, <1>3 DEF Paging!FirstIn
<1>5. Paging!Victims = Paging!FirstIn  BY DEF Paging!Victims
<1> QED  BY <1>1, <1>4, <1>5

\* The page in the frame of the greatest age is the one used least recently.
LEMMA LRUVictim ==
  ASSUME MemoryInvariant, alg = "LRU", is_free = {}, pos < total_instruction
  PROVE  page_id[First(LongestUnused)] \in Paging!Victims
<1>1. PICK f : f = First(LongestUnused)  OBVIOUS
<1>2. f \in Frames /\ \A g \in Frames : Aged[g] <= Aged[f]
  BY <1>1, LongestFound
<1>3. \A g \in Frames : Aged[g] = no_use_time[g] + 1 /\ no_use_time[g] \in Nat
  BY SMT DEF Aged, MemoryInvariant, TypeOK
<1>4. PICK v : v = page_id[f]  OBVIOUS
<1>5. v \in is_in_memory  BY <1>2, <1>4, PageInMemory
<1>6. pos \in Nat  BY SMT DEF MemoryInvariant, TypeOK
<1>7. ASSUME NEW q \in is_in_memory \ {v} PROVE Paging!UsedSince(v, q)
  <2>1. PICK g \in Frames : page_id[g] = q
    BY <1>7 DEF MemoryInvariant, FramesMatchPages
  <2>2. PICK l : l = pos - 1 - no_use_time[f]  OBVIOUS
  <2>3. PICK k : k = pos - 1 - no_use_time[g]  OBVIOUS
  <2>4. /\ l >= 0 /\ main_t[l] = v /\ \A j \in l + 1..pos - 1 : main_t[j] # v
        /\ k >= 0 /\ main_t[k] = q
    BY <1>2, <1>4, <2>1, <2>2, <2>3 DEF MemoryInvariant, AgesAreExact
  <2>5. k >= l /\ k \in 0..pos - 1 /\ l \in Int
    BY <1>2, <1>3, <1>6, <2>1, <2>2, <2>3, <2>4, SMT
  <2>6. k # l  BY <1>7, <2>4
  <2>7. \A j \in k..pos - 1 : j \in l + 1..pos - 1  BY <1>6, <2>5, <2>6, SMT
  <2> QED  BY <2>4, <2>5, <2>7 DEF Paging!UsedSince
<1>8. v \in Paging!LeastRecent  BY <1>5, <1>7 DEF Paging!LeastRecent
<1>9. Paging!Victims = Paging!LeastRecent  BY DEF Paging!Victims
<1> QED  BY <1>1, <1>4, <1>8, <1>9

\* The flags that NUR looks at tell the pages used in the period.
LEMMA UsedIsUsed ==
  ASSUME MemoryInvariant, alg = "NUR", is_free = {}
  PROVE  \A g \in Frames : g \in Used <=> Paging!UsedInPeriod(page_id[g])
<1> SUFFICES ASSUME NEW g \in Frames PROVE g \in Used <=> Paging!UsedInPeriod(page_id[g])
  OBVIOUS
<1>1. pos \in Nat /\ period \in Nat
  <2>1. pos \in 0..total_instruction /\ period \in 0..CLEAR_PERIOD - 1
    BY DEF MemoryInvariant, TypeOK
  <2> QED  BY <2>1, SMT
<1>2. Paging!PeriodStart = IF PeriodOver THEN pos ELSE pos - period - 1
  BY <1>1, SMT DEF Paging!PeriodStart, PeriodBegan, PeriodOver
<1>3. CASE PeriodOver
  <2>1. \A j \in 0..pos - 1 : ~(j >= pos)  BY <1>1, SMT
  <2> QED  BY <1>2, <1>3, <2>1 DEF Used, Paging!UsedInPeriod
<1>4. CASE ~PeriodOver
  BY <1>2, <1>4 DEF Used, Paging!UsedInPeriod, MemoryInvariant, UsesAreExact
<1> QED  BY <1>3, <1>4

LEMMA NURVictim ==
  ASSUME MemoryInvariant, alg = "NUR", is_free = {}
  PROVE  page_id[NotUsedFrame] \in Paging!Victims
<1>1. PICK f : f = NotUsedFrame  OBVIOUS
<1>2. f \in Frames /\ (Frames \ Used # {} => f \notin Used)
  BY <1>1, NotUsedFound
<1>3. page_id[f] \in is_in_memory  BY <1>2, PageInMemory
<1>4. Paging!Victims = IF Paging!NotRecent = {} THEN is_in_memory ELSE Paging!NotRecent
  BY DEF Paging!Victims
<1>5. ASSUME Paging!NotRecent # {} PROVE page_id[f] \in Paging!NotRecent
  <2>1. PICK q \in is_in_memory : ~Paging!UsedInPeriod(q)
    BY <1>5 DEF Paging!NotRecent
  <2>2. PICK g \in Frames : page_id[g] = q
    BY DEF MemoryInvariant, FramesMatchPages
  <2>3. g \notin Used  BY <2>1, <2>2, UsedIsUsed
  <2>4. ~Paging!UsedInPeriod(page_id[f])  BY <1>2, <2>3, UsedIsUsed
  <2> QED  BY <1>3, <2>4 DEF Paging!NotRecent
<1> QED  BY <1>1, <1>3, <1>4, <1>5

\* The page of the greatest distance is one that no other is needed after.
LEMMA OPTVictim ==
  ASSUME MemoryInvariant, alg = "OPT", is_free = {}, pos < total_instruction
  PROVE  page_id[First(FarthestFrames)] \in Paging!Victims
<1>t. TypeOK  BY DEF MemoryInvariant
<1>1. PICK f : f = First(FarthestFrames)  OBVIOUS
<1>2. f \in Frames /\ \A g \in Frames : Distance(page_id[g]) <= Distance(page_id[f])
  BY <1>t, <1>1, FarthestFound
<1>3. PICK v : v = page_id[f]  OBVIOUS
<1>4. v \in is_in_memory  BY <1>2, <1>3, PageInMemory
<1>5. pos \in Nat  BY <1>t, SMT DEF TypeOK
<1>6. ASSUME NEW q \in is_in_memory \ {v} PROVE Paging!NeededBefore(q, v)
  <2> SUFFICES ASSUME NEW j \in pos..total_instruction - 1, main_t[j] = v
               PROVE  \E k \in pos..j : main_t[k] = q
    BY DEF Paging!NeededBefore
  <2>1. PICK g \in Frames : page_id[g] = q
    BY <1>6 DEF MemoryInvariant, FramesMatchPages
  <2>2. Distance(q) <= Distance(v)  BY <1>2, <1>3, <2>1
  <2>3. j \in Uses(v)  BY DEF Uses
  <2>4. PICK u \in Uses(v) : Distance(v) = u - pos + 1 /\ u <= j
    BY <1>t, <2>3, DistanceIsNextUse
  <2>5. u \in pos..total_instruction - 1  BY DEF Uses
  <2>6. Uses(q) # {}
    <3>1. Distance(v) < INFINITE  BY <1>5, <2>4, <2>5, SMT
    <3>2. ~(INFINITE <= Distance(v))  BY <1>5, <2>4, <2>5, <3>1, SMT
    <3> QED  BY <1>t, <2>2, <3>2, DistanceIsNextUse
  <2>7. PICK w \in Uses(q) : Distance(q) = w - pos + 1
    BY <1>t, <2>6, DistanceIsNextUse
  <2>8. w \in pos..total_instruction - 1 /\ main_t[w] = q  BY DEF Uses
  <2>9. w \in pos..j  BY <1>5, <2>2, <2>4, <2>5, <2>7, <2>8, SMT
  <2> QED  BY <2>8, <2>9
<1>7. v \in Paging!Farthest  BY <1>4, <1>6 DEF Paging!Farthest
<1>8. Paging!Victims = Paging!Farthest  BY DEF Paging!Victims
<1> QED  BY <1>1, <1>3, <1>7, <1>8

\* Every turn of an algorithm is a step of DemandPaging.
LEMMA TurnRefines ==
  ASSUME MemoryInvariant, alg \in Algorithms, Executes(alg),
         alg # "NUR" => period' = period,
         alg = "NUR" => period' = IF PeriodOver THEN 0 ELSE period + 1,
         \/ Hit
         \/ Fill
         \/ /\ Fault /\ is_free = {}
            /\ \E v \in Paging!Victims : is_in_memory' = (is_in_memory \ {v}) \cup {page}
  PROVE  Paging!Execute
<1>1. /\ alg # "done" /\ pos < total_instruction /\ pos' = pos + 1
      /\ UNCHANGED <<main_t, alg, rate>>
  BY SMT DEF Executes, Algorithms
<1>2. PeriodBegan' = IF alg = "NUR" THEN Paging!PeriodStart ELSE PeriodBegan
  <2>1. pos \in Nat /\ period \in Nat
    <3>1. pos \in 0..total_instruction /\ period \in 0..CLEAR_PERIOD - 1
      BY DEF MemoryInvariant, TypeOK
    <3> QED  BY <3>1, SMT
  <2>2. CASE alg = "NUR"
    <3>1. PeriodBegan' = pos' - period' - 1
      <4>1. alg' = "NUR"  BY <1>1, <2>2
      <4> QED  BY <4>1 DEF PeriodBegan
    <3>2. Paging!PeriodStart = IF PeriodOver THEN pos ELSE pos - period - 1
      BY <2>1, <2>2, SMT DEF Paging!PeriodStart, PeriodBegan, PeriodOver
    <3> QED  BY <1>1, <2>1, <2>2, <3>1, <3>2, SMT
  <2>3. CASE alg # "NUR"
    BY <1>1, <2>3 DEF PeriodBegan
  <2> QED  BY <2>2, <2>3
<1>3. Paging!page = page  BY DEF Paging!page, page
<1>4. Paging!Cardinality(is_in_memory) = Cardinality(is_in_memory)
  BY DEF Paging!Cardinality, Cardinality
<1>8. CASE Hit
  <2>1. page \in is_in_memory /\ UNCHANGED <<is_in_memory, loadedAt, diseffect>>
    BY <1>8 DEF Hit, tables
  <2> QED  BY <1>1, <1>2, <1>3, <2>1, Zenon DEF Paging!Execute
<1>5. ASSUME Fault
      PROVE  /\ page \notin is_in_memory
             /\ loadedAt' = [loadedAt EXCEPT ![page] = pos]
             /\ diseffect' = diseffect + 1
  BY <1>5 DEF Fault
<1>6. CASE Fill
  <2>1. Fault /\ Cardinality(is_in_memory) < AP /\ is_in_memory' = is_in_memory \cup {page}
    BY <1>6, HowMany DEF Fill
  <2>2. Paging!Fault  BY <1>3, <1>4, <1>5, <2>1, Zenon DEF Paging!Fault
  <2> QED  BY <1>1, <1>2, <2>2, Zenon DEF Paging!Execute
<1>7. CASE /\ Fault /\ is_free = {}
           /\ \E v \in Paging!Victims : is_in_memory' = (is_in_memory \ {v}) \cup {page}
  <2>1. Cardinality(is_in_memory) = AP  BY <1>7, HowMany
  <2>2. Paging!Fault  BY <1>3, <1>4, <1>5, <1>7, <2>1, Zenon DEF Paging!Fault
  <2> QED  BY <1>1, <1>2, <2>2, Zenon DEF Paging!Execute
<1> QED  BY <1>6, <1>7, <1>8

LEMMA StepRefines ==
  ASSUME MemoryInvariant, [Next]_vars
  PROVE  [Paging!Next]_(Paging!vars)
<1>1. CASE FIFO /\ Executes("FIFO")
  <2>1. alg = "FIFO" /\ alg \in Algorithms /\ Executes(alg) /\ period' = period
    BY <1>1 DEF Executes, Algorithms, FIFO, FIFOHit, FIFOFill, FIFOReplace, FIFOSame
  <2>2. CASE FIFOReplace
    <3>1. PICK v : v = queue[head]  OBVIOUS
    <3>2. Fault /\ is_free = {} /\ is_in_memory' = (is_in_memory \cup {page}) \ {v}
      BY <2>2, <3>1 DEF FIFOReplace
    <3>3. v \in Paging!Victims /\ v \in is_in_memory
      BY <2>1, <3>1, <3>2, FIFOVictim, HeadInMemory
    <3>4. v # page  BY <3>2, <3>3 DEF Fault
    <3>5. is_in_memory' = (is_in_memory \ {v}) \cup {page}  BY <3>2, <3>4
    <3>6. Paging!Execute  BY <2>1, <3>2, <3>3, <3>5, TurnRefines
    <3> QED  BY <3>6 DEF Paging!Next
  <2>3. CASE Hit \/ Fill
    <3>1. Paging!Execute  BY <2>1, <2>3, TurnRefines
    <3> QED  BY <3>1 DEF Paging!Next
  <2> QED  BY <1>1, <2>2, <2>3 DEF FIFO, FIFOHit, FIFOFill
<1>2. CASE LRU /\ Executes("LRU")
  <2>1. alg = "LRU" /\ alg \in Algorithms /\ Executes(alg) /\ period' = period
    BY <1>2 DEF Executes, Algorithms, LRU, LRUHit, LRUFill, LRUReplace, LRUSame
  <2>2. CASE LRUReplace
    <3>1. PICK v : v = page_id[First(LongestUnused)]  OBVIOUS
    <3>2. Fault /\ is_free = {} /\ is_in_memory' = (is_in_memory \ {v}) \cup {page}
      BY <2>2, <3>1 DEF LRUReplace, Replace
    <3>3. v \in Paging!Victims
      BY <2>1, <3>1, <3>2, LRUVictim DEF Executes
    <3>4. Paging!Execute  BY <2>1, <3>2, <3>3, TurnRefines
    <3> QED  BY <3>4 DEF Paging!Next
  <2>3. CASE Hit \/ Fill
    <3>1. Paging!Execute  BY <2>1, <2>3, TurnRefines
    <3> QED  BY <3>1 DEF Paging!Next
  <2> QED  BY <1>2, <2>2, <2>3 DEF LRU, LRUHit, LRUFill
<1>3. CASE NUR /\ Executes("NUR")
  <2>1. /\ alg = "NUR" /\ alg \in Algorithms /\ Executes(alg)
        /\ period' = IF PeriodOver THEN 0 ELSE period + 1
    BY <1>3 DEF Executes, Algorithms, NUR, NURHit, NURFill, NURReplace, NURTurn
  <2>2. CASE NURReplace
    <3>1. PICK v : v = page_id[NotUsedFrame]  OBVIOUS
    <3>2. Fault /\ is_free = {} /\ is_in_memory' = (is_in_memory \ {v}) \cup {page}
      BY <2>2, <3>1 DEF NURReplace, Replace
    <3>3. v \in Paging!Victims
      BY <2>1, <3>1, <3>2, NURVictim
    <3>4. Paging!Execute  BY <2>1, <3>2, <3>3, TurnRefines
    <3> QED  BY <3>4 DEF Paging!Next
  <2>3. CASE Hit \/ Fill
    <3>1. Paging!Execute  BY <2>1, <2>3, TurnRefines
    <3> QED  BY <3>1 DEF Paging!Next
  <2> QED  BY <1>3, <2>2, <2>3 DEF NUR, NURHit, NURFill
<1>4. CASE OPT /\ Executes("OPT")
  <2>1. alg = "OPT" /\ alg \in Algorithms /\ Executes(alg) /\ period' = period
    BY <1>4 DEF Executes, Algorithms, OPT, OPTHit, OPTFill, OPTReplace, OPTSame
  <2>2. CASE OPTReplace
    <3>1. PICK v : v = page_id[First(FarthestFrames)]  OBVIOUS
    <3>2. Fault /\ is_free = {} /\ is_in_memory' = (is_in_memory \ {v}) \cup {page}
      BY <2>2, <3>1 DEF OPTReplace, Replace
    <3>3. v \in Paging!Victims
      BY <2>1, <3>1, <3>2, OPTVictim DEF Executes
    <3>4. Paging!Execute  BY <2>1, <3>2, <3>3, TurnRefines
    <3> QED  BY <3>4 DEF Paging!Next
  <2>3. CASE Hit \/ Fill
    <3>1. Paging!Execute  BY <2>1, <2>3, TurnRefines
    <3> QED  BY <3>1 DEF Paging!Next
  <2> QED  BY <1>4, <2>2, <2>3 DEF OPT, OPTHit, OPTFill
<1>5. CASE NextAlgorithm
  <2>1. /\ alg \in {"FIFO", "LRU", "NUR"} /\ pos = total_instruction
        /\ rate' = [rate EXCEPT ![alg] = diseffect] /\ main_t' = main_t
        /\ alg' = [FIFO |-> "LRU", LRU |-> "NUR", NUR |-> "OPT"][alg]
        /\ pos' = 0 /\ period' = 0 /\ clear_memory
    BY <1>5, SMT DEF NextAlgorithm, Print_rate, Algorithms
  <2>2. alg # "done" /\ alg # "OPT" /\ alg' = Paging!Following[alg]
    BY <2>1, SMT DEF Paging!Following
  <2>3. PeriodBegan' = -1  BY <2>1, SMT DEF PeriodBegan
  <2>4. Paging!Empty'  BY <2>1, <2>3 DEF Paging!Empty, clear_memory
  <2>5. Paging!Report  BY <2>1, <2>2, <2>4, Zenon DEF Paging!Report
  <2> QED  BY <2>5 DEF Paging!Next
<1>6. CASE Return
  <2>1. /\ alg = "OPT" /\ pos = total_instruction /\ alg' = "done"
        /\ rate' = [rate EXCEPT ![alg] = diseffect]
        /\ UNCHANGED <<main_t, pos, diseffect, is_in_memory, period, loadedAt>>
    BY <1>6 DEF Return, Print_rate, tables
  <2>2. alg # "done" /\ alg' = Paging!Following[alg]
    BY <2>1, SMT DEF Paging!Following
  <2>3. PeriodBegan' = PeriodBegan  BY <2>1, SMT DEF PeriodBegan
  <2>4. Paging!Report  BY <2>1, <2>2, <2>3, Zenon DEF Paging!Report
  <2> QED  BY <2>4 DEF Paging!Next
<1>7. CASE UNCHANGED vars
  <2>1. PeriodBegan' = PeriodBegan  BY <1>7 DEF vars, PeriodBegan
  <2> QED  BY <1>7, <2>1 DEF vars, tables, Paging!vars
<1> QED  BY <1>1, <1>2, <1>3, <1>4, <1>5, <1>6, <1>7, Turns

LEMMA InitRefines == Init => Paging!Init
<1> SUFFICES ASSUME Init PROVE Paging!Init  OBVIOUS
<1>1. DOMAIN Paging!Following = Algorithms
  BY SMT DEF Paging!Following, Algorithms
<1>2. PeriodBegan = -1  BY SMT DEF Init, PeriodBegan
<1>3. Paging!Empty  BY <1>2 DEF Init, Paging!Empty
<1> QED  BY <1>1, <1>3 DEF Init, Paging!Init

\* The four algorithms choose the pages they replace as their policies say,
\* for every number of pages and frames and every sequence of instructions.
THEOREM PagingCorrect == Spec => ImplementsPaging
BY InitRefines, StepRefines, InvariantCorrect, PTL DEF Spec, ImplementsPaging, Paging!Spec

-----------------------------------------------------------------------------
(* No algorithm has fewer faults than OPT.  The run of every algorithm is  *)
(* a schedule: what is in memory before each instruction.  OPT is compared *)
(* with all schedules at once, without exchanging anything: by how much    *)
(* more a schedule has in memory of what is needed up to any instruction,  *)
(* by so much OPT is ahead of it in faults.  At the end nothing is needed. *)

Schedules == [0..total_instruction -> SUBSET Pages]

Serves(S, n) ==
  /\ S[0] = {}
  /\ \A j \in 0..n - 1 : /\ main_t[j] \in S[j + 1]
                         /\ S[j + 1] \subseteq S[j] \cup {main_t[j]}
                         /\ Cardinality(S[j + 1]) <= AP

Faults(S, n) == Cardinality({j \in 0..n - 1 : main_t[j] \notin S[j]})

Scheduled(n, faults, last) ==
  \E S \in Schedules : Serves(S, n) /\ Faults(S, n) = faults /\ S[n] \in last

\* The pages the instructions i to x use.
Needed(i, x) == {p \in Pages : \E j \in i..x : main_t[j] = p}

Ahead(S) ==
  \A x \in pos - 1..total_instruction - 1 :
    diseffect + Cardinality(S[pos] \cap Needed(pos, x))
      <= Faults(S, pos) + Cardinality(is_in_memory \cap Needed(pos, x))

Reported(a) == \/ a = "FIFO" /\ alg # "FIFO"
               \/ a = "LRU" /\ alg \notin {"FIFO", "LRU"}
               \/ a = "NUR" /\ alg \notin {"FIFO", "LRU", "NUR"}

BestInvariant ==
  /\ alg # "done" => Scheduled(pos, diseffect, {is_in_memory})
  /\ \A a \in Algorithms : Reported(a) => Scheduled(total_instruction, rate[a], SUBSET Pages)
  /\ alg = "OPT" => \A S \in Schedules : Serves(S, total_instruction) => Ahead(S)
  /\ OPTIsBest

\* A set with an element and without it.
LEMMA OneApart ==
  ASSUME NEW A, IsFiniteSet(A), NEW p
  PROVE  /\ Cardinality(A) \in Nat /\ Cardinality(A \ {p}) \in Nat /\ IsFiniteSet(A \ {p})
         /\ Cardinality(A) = Cardinality(A \ {p}) + (IF p \in A THEN 1 ELSE 0)
<1>1. IsFiniteSet(A \ {p}) /\ Cardinality(A \ {p}) = IF p \in A THEN Cardinality(A) - 1 ELSE Cardinality(A)
  BY FS_RemoveElement
<1>2. Cardinality(A) \in Nat /\ Cardinality(A \ {p}) \in Nat
  BY <1>1, FS_CardinalityType
<1>3. CASE p \in A  BY <1>1, <1>2, <1>3
<1>4. CASE p \notin A  BY <1>1, <1>2, <1>4
<1> QED  BY <1>1, <1>2, <1>3, <1>4

\* The fault that a use of page p is, if only R is in memory.
Miss(p, R) == IF p \in R THEN 0 ELSE 1

\* What a use of page p makes of the memory O of OPT: if a page leaves that is
\* one of N, those needed up to some instruction, all of O are.
OneUse(O, O2, p, N) ==
  \/ p \in O /\ O2 = O
  \/ p \notin O /\ O2 = O \cup {p}
  \/ /\ p \notin O /\ Cardinality(O) = AP
     /\ \E v \in O : O2 = (O \ {v}) \cup {p} /\ (v \in N => O \subseteq N)

(* One use of page p, by OPT with O in memory and D faults, and by another *)
(* schedule with S and F.  N are the pages needed up to some instruction,  *)
(* M those of them needed after this use.                                  *)
LEMMA Compare ==
  ASSUME NEW O, NEW S, NEW O2, NEW S2, NEW N, NEW M, NEW p, NEW D \in Nat, NEW F \in Nat,
         IsFiniteSet(O), IsFiniteSet(S), p \in N, M \ {p} = N \ {p},
         p \in S2, S2 \subseteq S \cup {p}, Cardinality(S2) <= AP,
         OneUse(O, O2, p, N),
         D + Cardinality(S \cap N) <= F + Cardinality(O \cap N),
         D + Cardinality(S \cap {p}) <= F + Cardinality(O \cap {p})
  PROVE  D + Miss(p, O) + Cardinality(S2 \cap M) <= F + Miss(p, S) + Cardinality(O2 \cap M)
<1> DEFINE c(A) == Cardinality((A \cap N) \ {p})
           in(A) == IF p \in A THEN 1 ELSE 0
<1>1. /\ IsFiniteSet(S2) /\ IsFiniteSet(O2) /\ p \in O2
  <2>1. IsFiniteSet(S \cup {p}) /\ IsFiniteSet(O \cup {p})  BY FS_AddElement
  <2>2. S2 \in SUBSET (S \cup {p}) /\ O2 \in SUBSET (O \cup {p}) /\ p \in O2
    BY DEF OneUse
  <2> QED  BY <2>1, <2>2, FS_Subset
<1>2. ASSUME NEW A, IsFiniteSet(A)
      PROVE  /\ c(A) \in Nat /\ Cardinality(A \cap N) = c(A) + in(A)
             /\ Cardinality(A \cap M) = c(A) + (IF p \in A /\ p \in M THEN 1 ELSE 0)
             /\ Cardinality(A \cap {p}) = in(A)
             /\ \A B \in SUBSET A : c(B) <= c(A)
  <2>1. IsFiniteSet(A \cap N) /\ IsFiniteSet(A \cap M) /\ IsFiniteSet(A \cap {p})
    <3>1. A \cap N \in SUBSET A /\ A \cap M \in SUBSET A /\ A \cap {p} \in SUBSET A  OBVIOUS
    <3> QED  BY <1>2, <3>1, FS_Subset
  <2>2. (A \cap M) \ {p} = (A \cap N) \ {p}  OBVIOUS
  <2>3. c(A) \in Nat /\ Cardinality(A \cap N) = c(A) + in(A) /\ IsFiniteSet((A \cap N) \ {p})
    <3>1. p \in A \cap N <=> p \in A  OBVIOUS
    <3>2. /\ Cardinality(A \cap N) = Cardinality((A \cap N) \ {p}) + (IF p \in A \cap N THEN 1 ELSE 0)
          /\ Cardinality((A \cap N) \ {p}) \in Nat /\ IsFiniteSet((A \cap N) \ {p})
      BY <2>1, OneApart
    <3> QED  BY <3>1, <3>2
  <2>4. Cardinality(A \cap M) = c(A) + (IF p \in A /\ p \in M THEN 1 ELSE 0)
    <3>1. p \in A \cap M <=> p \in A /\ p \in M  OBVIOUS
    <3>2. Cardinality(A \cap M) = Cardinality((A \cap M) \ {p}) + (IF p \in A \cap M THEN 1 ELSE 0)
      BY <2>1, OneApart
    <3> QED  BY <2>2, <3>1, <3>2
  <2>5. Cardinality(A \cap {p}) = in(A)
    <3>1. (A \cap {p}) \ {p} = {} /\ (p \in A \cap {p} <=> p \in A)  OBVIOUS
    <3>2. Cardinality(A \cap {p}) = Cardinality((A \cap {p}) \ {p}) + (IF p \in A \cap {p} THEN 1 ELSE 0)
      BY <2>1, OneApart
    <3>3. Cardinality({}) = 0  BY FS_EmptySet
    <3> QED  BY <3>1, <3>2, <3>3
  <2>6. ASSUME NEW B \in SUBSET A PROVE c(B) <= c(A)
    <3>1. (B \cap N) \ {p} \in SUBSET ((A \cap N) \ {p})  OBVIOUS
    <3> QED  BY <2>3, <3>1, FS_Subset
  <2> QED  BY <2>3, <2>4, <2>5, <2>6
<1>3. c(S2) <= c(S)
  <2>1. S2 \ {p} \in SUBSET S /\ (S2 \cap N) \ {p} = ((S2 \ {p}) \cap N) \ {p}  OBVIOUS
  <2>2. c(S2) = c(S2 \ {p})  BY <2>1
  <2> HIDE DEF c
  <2> QED  BY <1>2, <2>1, <2>2
<1>4. c(S2) <= AP - 1
  <2>1. Cardinality(S2) = Cardinality(S2 \ {p}) + 1 /\ Cardinality(S2 \ {p}) \in Nat /\ IsFiniteSet(S2 \ {p})
    BY <1>1, OneApart
  <2>2. (S2 \cap N) \ {p} \in SUBSET (S2 \ {p})  OBVIOUS
  <2>3. c(S2) <= Cardinality(S2 \ {p})  BY <2>1, <2>2, FS_Subset
  <2>4. c(S2) \in Nat  BY <1>1, <1>2
  <2> HIDE DEF c
  <2> QED  BY <2>1, <2>3, <2>4
<1>5. \/ c(O2) = c(O)
      \/ p \notin O /\ c(O2) = AP - 1
  <2>1. CASE (p \in O /\ O2 = O) \/ (p \notin O /\ O2 = O \cup {p})
    <3>1. (O2 \cap N) \ {p} = (O \cap N) \ {p}  BY <2>1
    <3> QED  BY <3>1
  <2>2. CASE /\ p \notin O /\ Cardinality(O) = AP
             /\ \E v \in O : O2 = (O \ {v}) \cup {p} /\ (v \in N => O \subseteq N)
    <3>1. PICK v \in O : O2 = (O \ {v}) \cup {p} /\ (v \in N => O \subseteq N)
      BY <2>2
    <3>2. CASE v \notin N
      <4>1. (O2 \cap N) \ {p} = (O \cap N) \ {p}  BY <3>1, <3>2
      <4> QED  BY <4>1
    <3>3. CASE v \in N
      <4>1. (O2 \cap N) \ {p} = O \ {v}  BY <2>2, <3>1, <3>3
      <4>2. Cardinality(O) = Cardinality(O \ {v}) + 1 /\ Cardinality(O \ {v}) \in Nat
        BY <3>1, OneApart
      <4>3. c(O2) = Cardinality(O \ {v})  BY <4>1
      <4> HIDE DEF c
      <4>4. c(O2) = AP - 1  BY <2>2, <4>2, <4>3, SMT
      <4> QED  BY <2>2, <4>4
    <3> QED  BY <3>2, <3>3
  <2> QED  BY <2>1, <2>2 DEF OneUse
<1>6. /\ Cardinality(S2 \cap M) = c(S2) + (IF p \in M THEN 1 ELSE 0)
      /\ Cardinality(O2 \cap M) = c(O2) + (IF p \in M THEN 1 ELSE 0)
      /\ D + c(S) + in(S) <= F + c(O) + in(O) /\ D + in(S) <= F + in(O)
      /\ {c(S), c(O), c(S2), c(O2)} \subseteq Nat
  <2>1. /\ Cardinality(S2 \cap M) = c(S2) + (IF p \in S2 /\ p \in M THEN 1 ELSE 0)
        /\ Cardinality(O2 \cap M) = c(O2) + (IF p \in O2 /\ p \in M THEN 1 ELSE 0)
        /\ c(S2) \in Nat /\ c(O2) \in Nat
    BY <1>1, <1>2
  <2>2. /\ Cardinality(S \cap N) = c(S) + in(S) /\ Cardinality(S \cap {p}) = in(S) /\ c(S) \in Nat
        /\ Cardinality(O \cap N) = c(O) + in(O) /\ Cardinality(O \cap {p}) = in(O) /\ c(O) \in Nat
    BY <1>2
  <2> HIDE DEF c, in
  <2>3. D + (c(S) + in(S)) <= F + (c(O) + in(O)) /\ D + in(S) <= F + in(O)
    BY <2>2
  <2>4. in(S) \in Nat /\ in(O) \in Nat  BY DEF in
  <2>5. D + c(S) + in(S) <= F + c(O) + in(O)  BY <2>2, <2>3, <2>4
  <2> QED  BY <1>1, <2>1, <2>2, <2>3, <2>5
<1> HIDE DEF c
<1>7. PICK m \in 0..1 : m = IF p \in M THEN 1 ELSE 0  OBVIOUS
<1>8. D + (IF p \in O THEN 0 ELSE 1) + c(S2) + m <= F + (IF p \in S THEN 0 ELSE 1) + c(O2) + m
  <2>1. CASE c(O2) = c(O)  BY <1>3, <1>6, <1>7, <2>1, SMT
  <2>2. CASE p \notin O /\ c(O2) = AP - 1  BY <1>4, <1>6, <1>7, <2>2, SMT
  <2> QED  BY <1>5, <2>1, <2>2
<1> QED  BY <1>6, <1>7, <1>8, SMT DEF Miss

\* The faults of a schedule, counted one instruction further.
LEMMA FaultsStep ==
  ASSUME NEW S, NEW n \in Nat
  PROVE  /\ Faults(S, n) \in Nat
         /\ Faults(S, n + 1) = Faults(S, n) + (IF main_t[n] \in S[n] THEN 0 ELSE 1)
<1> DEFINE K(m) == {j \in 0..m - 1 : main_t[j] \notin S[j]}
<1>1. IsFiniteSet(K(n)) /\ Cardinality(K(n)) \in Nat
  <2>1. K(n) \in SUBSET (0..n - 1)  OBVIOUS
  <2>2. 0 \in Int /\ n - 1 \in Int  BY SMT
  <2>3. IsFiniteSet(0..n - 1)  BY <2>2, FS_Interval
  <2>4. IsFiniteSet(K(n))  BY <2>1, <2>3, FS_Subset
  <2> HIDE DEF K
  <2> QED  BY <2>4, FS_CardinalityType
<1>2. CASE main_t[n] \in S[n]
  <2>1. K(n + 1) = K(n)
    <3>1. \A j : j \in 0..n + 1 - 1 <=> j \in 0..n - 1 \/ j = n  BY SMT
    <3>2. \A j : j \in K(n + 1) <=> j \in K(n)  BY <1>2, <3>1
    <3> QED  BY <3>2
  <2>2. Cardinality(K(n + 1)) = Cardinality(K(n))  BY <2>1
  <2> HIDE DEF K
  <2>3. Cardinality(K(n + 1)) = Cardinality(K(n)) + (IF main_t[n] \in S[n] THEN 0 ELSE 1)
    BY <1>1, <1>2, <2>2
  <2> USE DEF K
  <2> QED  BY <1>1, <2>3 DEF Faults
<1>3. CASE main_t[n] \notin S[n]
  <2>1. K(n + 1) = K(n) \cup {n} /\ n \notin K(n)
    <3>1. \A j : j \in 0..n + 1 - 1 <=> j \in 0..n - 1 \/ j = n  BY SMT
    <3>2. n \notin 0..n - 1  BY SMT
    <3>3. \A j : j \in K(n + 1) <=> j \in K(n) \/ j = n  BY <1>3, <3>1
    <3>4. n \notin K(n)  BY <3>2
    <3> HIDE DEF K
    <3> QED  BY <3>3, <3>4
  <2> HIDE DEF K
  <2>2. Cardinality(K(n) \cup {n}) = Cardinality(K(n)) + 1
    BY <1>1, <2>1, FS_AddElement
  <2>3. Cardinality(K(n + 1)) = Cardinality(K(n)) + (IF main_t[n] \in S[n] THEN 0 ELSE 1)
    BY <1>3, <2>1, <2>2
  <2> USE DEF K
  <2> QED  BY <1>1, <2>3 DEF Faults
<1> QED  BY <1>2, <1>3

\* A schedule of no instruction has none.
LEMMA NoFaults ==
  ASSUME NEW S
  PROVE  Faults(S, 0) = 0
<1>1. {j \in 0..0 - 1 : main_t[j] \notin S[j]} = {}  BY SMT
<1> QED  BY <1>1, FS_EmptySet DEF Faults

\* What a turn does to the memory: the page is in it afterwards, what else is
\* in it was there before, and there is room for it.
LEMMA TurnMemory ==
  ASSUME MemoryInvariant, Paging!Execute
  PROVE  /\ pos < total_instruction /\ pos \in Nat /\ diseffect \in Nat
         /\ pos' = pos + 1 /\ main_t' = main_t /\ alg' = alg /\ rate' = rate
         /\ alg \in Algorithms /\ page \in Pages /\ page = main_t[pos]
         /\ is_in_memory \subseteq Pages /\ IsFiniteSet(is_in_memory)
         /\ page \in is_in_memory' /\ is_in_memory' \subseteq is_in_memory \cup {page}
         /\ Cardinality(is_in_memory') <= AP
         /\ diseffect' = diseffect + (IF page \in is_in_memory THEN 0 ELSE 1)
         /\ \/ page \in is_in_memory /\ is_in_memory' = is_in_memory
            \/ page \notin is_in_memory /\ is_in_memory' = is_in_memory \cup {page}
            \/ /\ page \notin is_in_memory /\ Cardinality(is_in_memory) = AP
               /\ \E v \in Paging!Victims \cap is_in_memory : is_in_memory' = (is_in_memory \ {v}) \cup {page}
<1>1. /\ pos < total_instruction /\ pos' = pos + 1 /\ main_t' = main_t /\ alg' = alg /\ rate' = rate
      /\ alg # "done"
  BY DEF Paging!Execute
<1>2. /\ pos \in Nat /\ diseffect \in Nat /\ alg \in Algorithms /\ page \in Pages
      /\ page = main_t[pos] /\ is_in_memory \subseteq Pages
  <2>1. TypeOK  BY DEF MemoryInvariant
  <2>2. pos \in 0..total_instruction /\ diseffect \in 0..pos  BY <2>1 DEF TypeOK
  <2>3. pos \in Nat /\ diseffect \in Nat  BY <2>2, SMT
  <2>4. alg \in Algorithms /\ is_in_memory \subseteq Pages  BY <1>1, <2>1 DEF TypeOK
  <2> QED  BY <1>1, <2>1, <2>3, <2>4, PageIsPage DEF page
<1>3. IsFiniteSet(is_in_memory) /\ Cardinality(is_in_memory) \in Nat /\ Cardinality(is_in_memory) <= AP
  <2>1. 0 \in Int /\ PP - 1 \in Int  BY SMT
  <2>2. IsFiniteSet(Pages)  BY <2>1, FS_Interval
  <2>3. IsFiniteSet(is_in_memory)  BY <1>2, <2>2, FS_Subset
  <2>4. Cardinality(is_in_memory) \in Nat  BY <2>3, FS_CardinalityType
  <2>5. Cardinality(is_in_memory) = AP \/ Cardinality(is_in_memory) < AP  BY HowMany
  <2> QED  BY <2>3, <2>4, <2>5, SMT
<1>4. Paging!page = page  BY DEF Paging!page, page
<1>5. Paging!Cardinality(is_in_memory) = Cardinality(is_in_memory)
  BY DEF Paging!Cardinality, Cardinality
<1>6. CASE page \in is_in_memory /\ UNCHANGED <<is_in_memory, diseffect>>
  BY <1>1, <1>2, <1>3, <1>6
<1>7. ASSUME page \notin is_in_memory, diseffect' = diseffect + 1,
             Cardinality(is_in_memory) < AP, is_in_memory' = is_in_memory \cup {page}
      PROVE  /\ page \in is_in_memory' /\ is_in_memory' \subseteq is_in_memory \cup {page}
             /\ Cardinality(is_in_memory') <= AP
  <2>1. Cardinality(is_in_memory \cup {page}) = Cardinality(is_in_memory) + 1
    BY <1>3, <1>7, FS_AddElement
  <2>2. Cardinality(is_in_memory') = Cardinality(is_in_memory) + 1  BY <1>7, <2>1
  <2>3. Cardinality(is_in_memory') <= AP  BY <1>3, <1>7, <2>2, SMT
  <2> QED  BY <1>7, <2>3
<1>8. ASSUME page \notin is_in_memory, diseffect' = diseffect + 1, Cardinality(is_in_memory) = AP,
             NEW v \in Paging!Victims, is_in_memory' = (is_in_memory \ {v}) \cup {page}
      PROVE  /\ page \in is_in_memory' /\ is_in_memory' \subseteq is_in_memory \cup {page}
             /\ Cardinality(is_in_memory') <= AP /\ v \in is_in_memory
  <2>1. v \in is_in_memory
    BY <1>2, <1>8 DEF Paging!Victims, Paging!FirstIn, Paging!LeastRecent, Paging!NotRecent,
                      Paging!Farthest, Algorithms
  <2>2. IsFiniteSet(is_in_memory \ {v}) /\ Cardinality(is_in_memory \ {v}) = AP - 1
    BY <1>3, <1>8, <2>1, FS_RemoveElement
  <2>3. page \notin is_in_memory \ {v}  BY <1>8
  <2>4. Cardinality((is_in_memory \ {v}) \cup {page}) = AP - 1 + 1
    BY <2>2, <2>3, FS_AddElement
  <2>5. Cardinality(is_in_memory') = AP - 1 + 1  BY <1>8, <2>4
  <2>6. Cardinality(is_in_memory') <= AP  BY <2>5, SMT
  <2> QED  BY <1>8, <2>1, <2>6
<1>9. CASE Paging!Fault
  <2>1. page \notin is_in_memory /\ diseffect' = diseffect + 1
    BY <1>4, <1>9 DEF Paging!Fault
  <2>2. diseffect' = diseffect + (IF page \in is_in_memory THEN 0 ELSE 1)  BY <2>1
  <2>3. CASE Cardinality(is_in_memory) < AP /\ is_in_memory' = is_in_memory \cup {page}
    <3>1. /\ page \in is_in_memory' /\ is_in_memory' \subseteq is_in_memory \cup {page}
          /\ Cardinality(is_in_memory') <= AP
      BY <1>7, <2>1, <2>3
    <3> QED  BY <1>1, <1>2, <1>3, <2>1, <2>2, <2>3, <3>1, Zenon
  <2>4. CASE /\ Cardinality(is_in_memory) = AP
             /\ \E v \in Paging!Victims : is_in_memory' = (is_in_memory \ {v}) \cup {page}
    <3>1. PICK v \in Paging!Victims : is_in_memory' = (is_in_memory \ {v}) \cup {page}
      BY <2>4
    <3>2. /\ page \in is_in_memory' /\ is_in_memory' \subseteq is_in_memory \cup {page}
          /\ Cardinality(is_in_memory') <= AP /\ v \in is_in_memory
      BY <1>8, <2>1, <2>4, <3>1
    <3>3. \E w \in Paging!Victims \cap is_in_memory : is_in_memory' = (is_in_memory \ {w}) \cup {page}
      BY <3>1, <3>2
    <3> QED  BY <1>1, <1>2, <1>3, <2>1, <2>2, <2>4, <3>2, <3>3, Zenon
  <2> QED  BY <1>4, <1>5, <1>9, <2>3, <2>4 DEF Paging!Fault
<1> QED  BY <1>4, <1>6, <1>9 DEF Paging!Execute

\* The run of an algorithm goes on being a schedule.
LEMMA ScheduledStep ==
  ASSUME MemoryInvariant, Paging!Execute, Scheduled(pos, diseffect, {is_in_memory})
  PROVE  Scheduled(pos, diseffect, {is_in_memory})'
<1>1. PICK S \in Schedules : Serves(S, pos) /\ Faults(S, pos) = diseffect /\ S[pos] \in {is_in_memory}
  BY DEF Scheduled
<1>2. PICK i : i = pos  OBVIOUS
<1>3. PICK R : R = is_in_memory'  OBVIOUS
<1>4. /\ i \in Nat /\ i < total_instruction /\ R \subseteq Pages /\ S[i] = is_in_memory
      /\ main_t[i] \in R /\ R \subseteq S[i] \cup {main_t[i]} /\ Cardinality(R) <= AP
      /\ pos' = i + 1 /\ main_t' = main_t
      /\ diseffect' = Faults(S, i) + (IF main_t[i] \in S[i] THEN 0 ELSE 1)
  BY <1>1, <1>2, <1>3, TurnMemory
<1>5. PICK S2 : S2 = [S EXCEPT ![i + 1] = R]  OBVIOUS
<1>6. S2 \in Schedules /\ S2[i + 1] = R /\ \A j \in 0..i : S2[j] = S[j]
  <2>1. i + 1 \in 0..total_instruction /\ \A j \in 0..i : j \in 0..total_instruction /\ j # i + 1
    BY <1>4, SMT
  <2>2. S \in [0..total_instruction -> SUBSET Pages]  BY DEF Schedules
  <2> QED  BY <1>4, <1>5, <2>1, <2>2, Zenon DEF Schedules
<1>7. Serves(S2, pos)'
  <2>1. S2[0] = {}
    <3>1. 0 \in 0..i  BY <1>4, SMT
    <3> QED  BY <1>1, <1>6, <3>1 DEF Serves
  <2>2. ASSUME NEW j \in 0..i
        PROVE  main_t[j] \in S2[j + 1] /\ S2[j + 1] \subseteq S2[j] \cup {main_t[j]}
               /\ Cardinality(S2[j + 1]) <= AP
    <3>1. CASE j = i  BY <1>4, <1>6, <3>1
    <3>2. CASE j # i
      <4>1. j \in 0..i - 1 /\ j + 1 \in 0..i  BY <1>4, <3>2, SMT
      <4>2. S2[j] = S[j] /\ S2[j + 1] = S[j + 1]  BY <1>6, <4>1
      <4>3. main_t[j] \in S[j + 1] /\ S[j + 1] \subseteq S[j] \cup {main_t[j]}
            /\ Cardinality(S[j + 1]) <= AP
        BY <1>1, <1>2, <4>1 DEF Serves
      <4> QED  BY <4>2, <4>3
    <3> QED  BY <3>1, <3>2
  <2>3. 0..pos' - 1 = 0..i  BY <1>4, SMT
  <2> QED  BY <1>4, <2>1, <2>2, <2>3, Zenon DEF Serves
<1>8. Faults(S2, i + 1) = diseffect'
  <2>1. Faults(S2, i) = Faults(S, i)
    <3>1. \A j \in 0..i - 1 : j \in 0..i  BY <1>4, SMT
    <3>2. {j \in 0..i - 1 : main_t[j] \notin S2[j]} = {j \in 0..i - 1 : main_t[j] \notin S[j]}
      BY <1>6, <3>1, Zenon
    <3> QED  BY <3>2 DEF Faults
  <2>2. i \in 0..i  BY <1>4, SMT
  <2>3. S2[i] = S[i]  BY <1>6, <2>2
  <2>4. Faults(S2, i + 1) = Faults(S2, i) + (IF main_t[i] \in S2[i] THEN 0 ELSE 1)
    BY <1>4, FaultsStep
  <2> QED  BY <1>4, <2>1, <2>3, <2>4
<1>9. Faults(S2, pos)' = diseffect'
  BY <1>4, <1>8 DEF Faults
<1>10. S2[pos'] \in {is_in_memory'}
  BY <1>3, <1>4, <1>6
<1> QED  BY <1>6, <1>7, <1>9, <1>10 DEF Scheduled

\* Every schedule that OPT is ahead of it stays ahead of.
LEMMA AheadStep ==
  ASSUME MemoryInvariant, Paging!Execute, alg = "OPT",
         NEW S \in Schedules, Serves(S, total_instruction), Ahead(S)
  PROVE  Ahead(S)'
<1>1. PICK i : i = pos  OBVIOUS
<1>2. PICK p : p = page  OBVIOUS
<1>3. /\ i \in Nat /\ i < total_instruction /\ diseffect \in Nat /\ p \in Pages /\ p = main_t[i]
      /\ pos' = i + 1 /\ main_t' = main_t /\ IsFiniteSet(is_in_memory) /\ is_in_memory \subseteq Pages
      /\ diseffect' = diseffect + (IF p \in is_in_memory THEN 0 ELSE 1)
  BY <1>1, <1>2, TurnMemory
<1>4. /\ p \in S[i + 1] /\ S[i + 1] \subseteq S[i] \cup {p} /\ Cardinality(S[i + 1]) <= AP
      /\ S[i] \subseteq Pages /\ IsFiniteSet(S[i])
  <2>1. i \in 0..total_instruction - 1 /\ i \in 0..total_instruction  BY <1>3, SMT
  <2>2. S[i] \subseteq Pages  BY <2>1 DEF Schedules
  <2>3. 0 \in Int /\ PP - 1 \in Int  BY SMT
  <2>4. IsFiniteSet(Pages)  BY <2>3, FS_Interval
  <2> QED  BY <1>3, <2>1, <2>2, <2>4, FS_Subset DEF Serves
<1>5. Faults(S, i) \in Nat /\ Faults(S, i + 1) = Faults(S, i) + (IF p \in S[i] THEN 0 ELSE 1)
  BY <1>3, FaultsStep
<1>6. ASSUME NEW x \in i..total_instruction - 1
      PROVE  diseffect' + Cardinality(S[i + 1] \cap Needed(i + 1, x))
               <= Faults(S, i + 1) + Cardinality(is_in_memory' \cap Needed(i + 1, x))
  <2> DEFINE N == Needed(i, x)
             M == Needed(i + 1, x)
  <2>1. p \in N /\ M \ {p} = N \ {p}
    <3>1. \A j : j \in i..x <=> j = i \/ j \in i + 1..x  BY <1>3, <1>6, SMT
    <3> QED  BY <1>3, <3>1, Zenon DEF Needed
  <2>2. Needed(i, i) = {p}
    <3>1. \A j : j \in i..i <=> j = i  BY <1>3, SMT
    <3>2. \A q : q \in Needed(i, i) <=> q = p  BY <1>3, <3>1, Zenon DEF Needed
    <3> QED  BY <3>2
  <2>3. /\ diseffect + Cardinality(S[i] \cap N) <= Faults(S, i) + Cardinality(is_in_memory \cap N)
        /\ diseffect + Cardinality(S[i] \cap {p}) <= Faults(S, i) + Cardinality(is_in_memory \cap {p})
    <3>1. x \in i - 1..total_instruction - 1 /\ i \in i - 1..total_instruction - 1
      BY <1>3, <1>6, SMT
    <3> QED  BY <1>1, <2>2, <3>1, Zenon DEF Ahead
  <2>4. \/ p \in is_in_memory /\ is_in_memory' = is_in_memory
        \/ p \notin is_in_memory /\ is_in_memory' = is_in_memory \cup {p}
        \/ /\ p \notin is_in_memory /\ Cardinality(is_in_memory) = AP
           /\ \E v \in is_in_memory : is_in_memory' = (is_in_memory \ {v}) \cup {p}
                                      /\ (v \in N => is_in_memory \subseteq N)
    <3>1. CASE /\ p \notin is_in_memory /\ Cardinality(is_in_memory) = AP
               /\ \E v \in Paging!Victims \cap is_in_memory : is_in_memory' = (is_in_memory \ {v}) \cup {p}
      <4>1. PICK v \in Paging!Victims \cap is_in_memory : is_in_memory' = (is_in_memory \ {v}) \cup {p}
        BY <3>1
      <4>2. Paging!Victims = Paging!Farthest  BY DEF Paging!Victims
      <4>3. ASSUME v \in N, NEW q \in is_in_memory PROVE q \in N
        <5>1. PICK j \in i..x : main_t[j] = v  BY <4>3 DEF Needed
        <5>2. j \in pos..total_instruction - 1 /\ \A k \in pos..j : k \in i..x
          BY <1>1, <1>3, <1>6, <5>1, SMT
        <5>3. CASE q = v  BY <4>3, <5>3
        <5>4. CASE q # v
          <6>1. Paging!NeededBefore(q, v)
            BY <4>1, <4>2, <4>3, <5>4 DEF Paging!Farthest
          <6>2. PICK k \in pos..j : main_t[k] = q
            BY <5>1, <5>2, <6>1 DEF Paging!NeededBefore
          <6> QED  BY <1>3, <4>3, <5>2, <6>2 DEF Needed
        <5> QED  BY <5>3, <5>4
      <4>4. v \in N => is_in_memory \subseteq N  BY <4>3
      <4>5. v \in is_in_memory  BY <4>1
      <4> HIDE DEF N
      <4> QED  BY <3>1, <4>1, <4>4, <4>5
    <3> HIDE DEF N
    <3> QED  BY <1>2, <3>1, TurnMemory
  <2>5. PICK O : O = is_in_memory  OBVIOUS
  <2>6. PICK O2 : O2 = is_in_memory'  OBVIOUS
  <2>7. PICK D \in Nat : D = diseffect  BY <1>3
  <2>8. PICK F \in Nat : F = Faults(S, i)  BY <1>5
  <2> HIDE DEF N, M
  <2>9. /\ IsFiniteSet(O) /\ D + Cardinality(S[i] \cap N) <= F + Cardinality(O \cap N)
        /\ D + Cardinality(S[i] \cap {p}) <= F + Cardinality(O \cap {p})
    BY <1>3, <2>3, <2>5, <2>7, <2>8
  <2>10. OneUse(O, O2, p, N)
    BY <2>4, <2>5, <2>6, Zenon DEF OneUse
  <2>11. D + Miss(p, O) + Cardinality(S[i + 1] \cap M)
           <= F + Miss(p, S[i]) + Cardinality(O2 \cap M)
    <3>1. PICK A : A = S[i]  OBVIOUS
    <3>2. PICK B : B = S[i + 1]  OBVIOUS
    <3>3. p \in B /\ B \subseteq A \cup {p} /\ Cardinality(B) <= AP /\ IsFiniteSet(A)
      BY <1>4, <3>1, <3>2
    <3>4. /\ D + Cardinality(A \cap N) <= F + Cardinality(O \cap N)
          /\ D + Cardinality(A \cap {p}) <= F + Cardinality(O \cap {p})
      BY <2>9, <3>1
    <3>5. D + Miss(p, O) + Cardinality(B \cap M)
            <= F + Miss(p, A) + Cardinality(O2 \cap M)
      <4>1. D \in Nat /\ F \in Nat  BY <2>7, <2>8
      <4>2. IsFiniteSet(O) /\ p \in N /\ M \ {p} = N \ {p}  BY <2>1, <2>9
      <4> QED  BY <2>10, <3>3, <3>4, <4>1, <4>2, Compare, Zenon
    <3> QED  BY <3>1, <3>2, <3>5
  <2>12. diseffect' = D + Miss(p, O)
         /\ Faults(S, i + 1) = F + Miss(p, S[i])
    BY <1>3, <1>5, <2>5, <2>7, <2>8 DEF Miss
  <2>13. diseffect' + Cardinality(S[i + 1] \cap M) <= Faults(S, i + 1) + Cardinality(is_in_memory' \cap M)
    BY <2>6, <2>11, <2>12, Zenon
  <2> QED  BY <2>13 DEF M
<1>7. Faults(S, i + 1) = Faults(S, pos)'  BY <1>3 DEF Faults
<1>8. \A x : Needed(i + 1, x) = Needed(pos, x)'  BY <1>3 DEF Needed
<1>9. pos' - 1..total_instruction - 1 = i..total_instruction - 1  BY <1>3, SMT
<1>10. S[pos]' = S[i + 1]  BY <1>3
<1> QED  BY <1>6, <1>7, <1>8, <1>9, <1>10, Zenon DEF Ahead

\* A run that is over stays a schedule while other algorithms run.
LEMMA SameScheduled ==
  ASSUME main_t' = main_t, NEW n, NEW f, NEW L, Scheduled(n, f, L)
  PROVE  Scheduled(n, f, L)'
BY DEF Scheduled, Serves, Faults

\* Every algorithm starts with no page in memory and no fault.
LEMMA EmptyScheduled == Scheduled(0, 0, {{}})
<1>1. PICK S : S = [i \in 0..total_instruction |-> {}]  OBVIOUS
<1>2. 0 \in 0..total_instruction  BY SMT
<1>3. S \in Schedules /\ S[0] = {}  BY <1>1, <1>2 DEF Schedules
<1>4. 0..0 - 1 = {}  BY SMT
<1>5. Serves(S, 0)  BY <1>3, <1>4 DEF Serves
<1> QED  BY <1>3, <1>5, NoFaults DEF Scheduled

\* The report of an algorithm, of which OPT's is the last.
LEMMA BestReport ==
  ASSUME MemoryInvariant, BestInvariant, Paging!Report
  PROVE  BestInvariant'
<1>1. /\ alg \in Algorithms /\ pos = total_instruction /\ main_t' = main_t
      /\ rate' = [rate EXCEPT ![alg] = diseffect] /\ alg' = Paging!Following[alg]
      /\ rate \in [Algorithms -> -1..total_instruction]
      /\ is_in_memory \subseteq Pages
  BY DEF Paging!Report, MemoryInvariant, TypeOK
<1>2. /\ alg = "FIFO" => alg' = "LRU"
      /\ alg = "LRU" => alg' = "NUR"
      /\ alg = "NUR" => alg' = "OPT"
      /\ alg = "OPT" => alg' = "done"
  BY <1>1 DEF Paging!Following
<1>3. alg # "OPT" => pos' = 0 /\ is_in_memory' = {} /\ diseffect' = 0
  BY DEF Paging!Report, Paging!Empty
<1>4. Scheduled(total_instruction, diseffect, {is_in_memory})
  <2>1. alg # "done"  BY <1>1 DEF Algorithms
  <2> QED  BY <1>1, <2>1 DEF BestInvariant
<1>5. (alg # "done" => Scheduled(pos, diseffect, {is_in_memory}))'
  <2>1. CASE alg = "OPT"  BY <1>2, <2>1
  <2>2. CASE alg # "OPT"
    <3>1. Scheduled(0, 0, {{}})'  BY <1>1, EmptyScheduled, SameScheduled
    <3>2. pos' = 0 /\ is_in_memory' = {} /\ diseffect' = 0  BY <1>3, <2>2
    <3> QED  BY <3>1, <3>2 DEF Scheduled, Serves, Faults
  <2> QED  BY <2>1, <2>2
<1>6. (\A a \in Algorithms : Reported(a) => Scheduled(total_instruction, rate[a], SUBSET Pages))'
  <2> SUFFICES ASSUME NEW a \in Algorithms, Reported(a)'
               PROVE  Scheduled(total_instruction, rate[a], SUBSET Pages)'
    OBVIOUS
  <2>1. a = alg \/ (a # alg /\ Reported(a))
    <3>1. \/ a = "FIFO" /\ alg' # "FIFO"
          \/ a = "LRU" /\ alg' \notin {"FIFO", "LRU"}
          \/ a = "NUR" /\ alg' \notin {"FIFO", "LRU", "NUR"}
      BY DEF Reported
    <3>2. CASE alg = "FIFO"  BY <1>2, <3>1, <3>2
    <3>3. CASE alg = "LRU"  BY <1>2, <3>1, <3>3 DEF Reported
    <3>4. CASE alg = "NUR"  BY <1>2, <3>1, <3>4 DEF Reported
    <3>5. CASE alg = "OPT"  BY <1>2, <3>1, <3>5 DEF Reported
    <3> QED  BY <1>1, <3>2, <3>3, <3>4, <3>5 DEF Algorithms
  <2>2. PICK f : f = rate'[a]  OBVIOUS
  <2>3. Scheduled(total_instruction, f, SUBSET Pages)
    <3>1. CASE a = alg
      <4>1. f = diseffect  BY <1>1, <2>2, <3>1
      <4> QED  BY <1>1, <1>4, <4>1 DEF Scheduled
    <3>2. CASE a # alg /\ Reported(a)
      <4>1. f = rate[a]  BY <1>1, <2>1, <2>2, <3>2
      <4> QED  BY <3>2, <4>1 DEF BestInvariant
    <3> QED  BY <2>1, <3>1, <3>2
  <2>4. Scheduled(total_instruction, f, SUBSET Pages)'  BY <1>1, <2>3, SameScheduled
  <2> QED  BY <2>2, <2>4 DEF Scheduled, Serves, Faults
<1>7. (alg = "OPT" => \A S \in Schedules : Serves(S, total_instruction) => Ahead(S))'
  <2> SUFFICES ASSUME alg' = "OPT", NEW S \in Schedules, Serves(S, total_instruction)'
               PROVE  Ahead(S)'
    OBVIOUS
  <2>1. pos' = 0 /\ is_in_memory' = {} /\ diseffect' = 0
    BY <1>1, <1>2, <1>3 DEF Algorithms
  <2>2. S[0] = {}  BY DEF Serves
  <2>3. Faults(S, 0) = 0  BY NoFaults
  <2>4. Faults(S, pos)' = 0  BY <1>1, <2>1, <2>3 DEF Faults
  <2>5. ASSUME NEW x
        PROVE  diseffect' + Cardinality(S[pos'] \cap Needed(pos, x)')
                 <= Faults(S, pos)' + Cardinality(is_in_memory' \cap Needed(pos, x)')
    <3>1. S[pos'] \cap Needed(pos, x)' = {} /\ is_in_memory' \cap Needed(pos, x)' = {}
      BY <2>1, <2>2
    <3>2. /\ Cardinality(S[pos'] \cap Needed(pos, x)') = 0
          /\ Cardinality(is_in_memory' \cap Needed(pos, x)') = 0
      BY <3>1, FS_EmptySet
    <3> QED  BY <2>1, <2>4, <3>2
  <2> QED  BY <2>5 DEF Ahead
<1>8. OPTIsBest'
  <2> SUFFICES ASSUME alg' = "done", NEW a \in Algorithms
               PROVE  rate'["OPT"] <= rate'[a]
    BY DEF OPTIsBest
  <2>1. alg = "OPT"  BY <1>1, <1>2 DEF Algorithms
  <2>2. rate'["OPT"] = diseffect /\ (a # "OPT" => rate'[a] = rate[a])
    BY <1>1, <2>1
  <2>3. diseffect \in Nat
    <3>1. pos \in 0..total_instruction /\ diseffect \in 0..pos  BY DEF MemoryInvariant, TypeOK
    <3> QED  BY <3>1, SMT
  <2>4. CASE a = "OPT"  BY <2>2, <2>3, <2>4
  <2>5. CASE a # "OPT"
    <3>1. Reported(a)  BY <2>1, <2>5 DEF Reported, Algorithms
    <3>2. PICK S \in Schedules : Serves(S, total_instruction) /\ Faults(S, total_instruction) = rate[a]
      BY <3>1 DEF BestInvariant, Scheduled
    <3>3. Ahead(S)  BY <2>1, <3>2 DEF BestInvariant
    <3>4. /\ total_instruction \in Nat
          /\ total_instruction - 1 \in pos - 1..total_instruction - 1
      BY <1>1, SMT
    <3>5. Needed(pos, total_instruction - 1) = {}
      <4>1. pos..total_instruction - 1 = {}  BY <1>1, SMT
      <4> QED  BY <4>1 DEF Needed
    <3>6. diseffect + Cardinality(S[pos] \cap {}) <= Faults(S, pos) + Cardinality(is_in_memory \cap {})
      BY <3>3, <3>4, <3>5, Zenon DEF Ahead
    <3>7. Cardinality(S[pos] \cap {}) = 0 /\ Cardinality(is_in_memory \cap {}) = 0
      <4>1. S[pos] \cap {} = {} /\ is_in_memory \cap {} = {}  OBVIOUS
      <4> QED  BY <4>1, FS_EmptySet
    <3>8. Faults(S, pos) \in Nat /\ Faults(S, pos) = rate[a]
      BY <1>1, <3>2, <3>4, FaultsStep
    <3>9. diseffect + 0 <= rate[a] + 0  BY <3>6, <3>7, <3>8
    <3>10. diseffect <= rate[a]  BY <2>3, <3>8, <3>9, SMT
    <3> QED  BY <2>2, <2>5, <3>10
  <2> QED  BY <2>4, <2>5
<1> QED  BY <1>5, <1>6, <1>7, <1>8 DEF BestInvariant

\* One instruction of an algorithm.
LEMMA BestExecute ==
  ASSUME MemoryInvariant, BestInvariant, Paging!Execute
  PROVE  BestInvariant'
<1>1. main_t' = main_t /\ alg' = alg /\ rate' = rate /\ alg \in Algorithms /\ alg # "done"
  BY TurnMemory DEF Algorithms
<1>2. Scheduled(pos, diseffect, {is_in_memory})'
  BY <1>1, ScheduledStep DEF BestInvariant
<1>3. (\A a \in Algorithms : Reported(a) => Scheduled(total_instruction, rate[a], SUBSET Pages))'
  <2> SUFFICES ASSUME NEW a \in Algorithms, Reported(a)'
               PROVE  Scheduled(total_instruction, rate[a], SUBSET Pages)'
    OBVIOUS
  <2>1. PICK f : f = rate[a]  OBVIOUS
  <2>2. Reported(a)  BY <1>1 DEF Reported
  <2>3. Scheduled(total_instruction, f, SUBSET Pages)'
    BY <1>1, <2>1, <2>2, SameScheduled DEF BestInvariant
  <2>4. f = rate'[a]  BY <1>1, <2>1
  <2> QED  BY <2>3, <2>4 DEF Scheduled, Serves, Faults
<1>4. (alg = "OPT" => \A S \in Schedules : Serves(S, total_instruction) => Ahead(S))'
  <2> SUFFICES ASSUME alg' = "OPT", NEW S \in Schedules, Serves(S, total_instruction)'
               PROVE  Ahead(S)'
    OBVIOUS
  <2>1. Serves(S, total_instruction)  BY <1>1 DEF Serves
  <2>2. alg = "OPT"  BY <1>1
  <2>3. Ahead(S)  BY <2>1, <2>2 DEF BestInvariant
  <2> QED  BY <2>1, <2>2, <2>3, AheadStep
<1>5. OPTIsBest'  BY <1>1 DEF OPTIsBest
<1> QED  BY <1>2, <1>3, <1>4, <1>5 DEF BestInvariant

\* The comparison holds in the beginning and is kept by every step.
LEMMA BestStep == MemoryInvariant /\ BestInvariant /\ [Next]_vars => BestInvariant'
<1> SUFFICES ASSUME MemoryInvariant, BestInvariant, [Next]_vars PROVE BestInvariant'
  OBVIOUS
<1>1. CASE UNCHANGED Paging!vars
  <2>1. UNCHANGED <<main_t, alg, pos, is_in_memory, diseffect, rate>>
    BY <1>1 DEF Paging!vars
  <2>2. (alg # "done" => Scheduled(pos, diseffect, {is_in_memory}))'
    BY <2>1 DEF BestInvariant, Scheduled, Serves, Faults
  <2>3. (\A a \in Algorithms : Reported(a) => Scheduled(total_instruction, rate[a], SUBSET Pages))'
    <3> SUFFICES ASSUME NEW a \in Algorithms, Reported(a)'
                 PROVE  Scheduled(total_instruction, rate[a], SUBSET Pages)'
      OBVIOUS
    <3>1. PICK f : f = rate[a]  OBVIOUS
    <3>2. Reported(a)  BY <2>1 DEF Reported
    <3>3. Scheduled(total_instruction, f, SUBSET Pages)'
      BY <2>1, <3>1, <3>2, SameScheduled DEF BestInvariant
    <3>4. f = rate'[a]  BY <2>1, <3>1
    <3> QED  BY <3>3, <3>4 DEF Scheduled, Serves, Faults
  <2>4. (alg = "OPT" => \A S \in Schedules : Serves(S, total_instruction) => Ahead(S))'
    <3> SUFFICES ASSUME alg' = "OPT", NEW S \in Schedules, Serves(S, total_instruction)'
                 PROVE  Ahead(S)'
      OBVIOUS
    <3>1. Serves(S, total_instruction)  BY <2>1 DEF Serves
    <3>2. Ahead(S)  BY <2>1, <3>1 DEF BestInvariant
    <3> QED  BY <2>1, <3>2 DEF Ahead, Faults, Needed
  <2>5. OPTIsBest'  BY <2>1 DEF BestInvariant, OPTIsBest
  <2> QED  BY <2>2, <2>3, <2>4, <2>5 DEF BestInvariant
<1>2. CASE Paging!Next
  BY <1>2, BestExecute, BestReport DEF Paging!Next
<1> QED  BY <1>1, <1>2, StepRefines

LEMMA BestInit == Init => BestInvariant
<1> SUFFICES ASSUME Init PROVE BestInvariant  OBVIOUS
<1>1. alg = "FIFO" /\ pos = 0 /\ diseffect = 0 /\ is_in_memory = {}  BY DEF Init
<1>2. Scheduled(pos, diseffect, {is_in_memory})  BY <1>1, EmptyScheduled
<1>3. \A a \in Algorithms : ~ Reported(a)  BY <1>1 DEF Reported
<1> QED  BY <1>1, <1>2, <1>3 DEF BestInvariant, OPTIsBest

\* No algorithm has reported fewer faults than OPT, for every number of pages
\* and frames and every sequence of instructions: throwing out the page that
\* is needed last, as compute_distance() has it chosen, is never worse.
THEOREM OPTCorrect == Spec => []OPTIsBest
<1>1. BestInvariant => OPTIsBest  BY DEF BestInvariant
<1> QED  BY <1>1, BestInit, BestStep, InvariantCorrect, PTL DEF Spec
=============================================================================
