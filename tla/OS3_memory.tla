----------------------------- MODULE OS3_memory -----------------------------
(***************************************************************************)
(* The memory exercise: run() draws a sequence of page uses and simulates  *)
(* on it FIFO, LRU, NUR (not used recently) and OPT, one after the other,  *)
(* on the tables pages and pagecontrol, which clear_memory() empties       *)
(* before each.  One step is one turn of an algorithm's loop.  The boolean *)
(* fields of the tables are the sets of the pages or frames that have      *)
(* them.  c_distance is computed anew before each use, so Distance stands  *)
(* for it.                                                                 *)
(***************************************************************************)
EXTENDS Integers

CONSTANTS PP,                 \* pages
          AP,                 \* frames
          total_instruction,
          CLEAR_PERIOD,
          INFINITE

ASSUME MemoryAssumption ==
  /\ PP \in Nat \ {0} /\ AP \in Nat \ {0}
  /\ total_instruction \in Nat \ {0} /\ CLEAR_PERIOD \in Nat \ {0}
  /\ INFINITE \in Nat /\ INFINITE > total_instruction

Pages == 0..PP - 1
Frames == 0..AP - 1
Algorithms == {"FIFO", "LRU", "NUR", "OPT"}

VARIABLES main_t, alg, pos, diseffect,
          is_in_memory, frame_id,                    \* struct Page
          page_id, is_free, no_use_time, has_used,   \* struct Frame
          queue, head, tail, queue_len,              \* locals of FIFO
          period,                                    \* local of NUR
          rate,       \* the number of faults each algorithm printed a rate of
          loadedAt    \* history: the instruction that last loaded each page

tables == <<is_in_memory, frame_id, page_id, is_free>>
queueVars == <<queue, head, tail, queue_len>>
vars == <<main_t, alg, pos, diseffect, tables, no_use_time, has_used, queueVars,
          period, rate, loadedAt>>

TypeOK ==
  /\ main_t \in [0..total_instruction - 1 -> Pages]
  /\ alg \in Algorithms \cup {"done"}
  /\ pos \in 0..total_instruction /\ diseffect \in 0..pos
  /\ is_in_memory \subseteq Pages /\ frame_id \in [Pages -> Frames \cup {-1}]
  /\ page_id \in [Frames -> Pages \cup {-1}] /\ is_free \subseteq Frames
  /\ no_use_time \in [Frames -> 0..total_instruction] /\ has_used \subseteq Frames
  /\ queue \in [Frames -> Pages] /\ queue_len \in 0..AP
  /\ head \in Frames /\ tail \in Frames
  /\ period \in 0..CLEAR_PERIOD - 1
  /\ rate \in [Algorithms -> -1..total_instruction]
  /\ loadedAt \in [Pages -> -1..total_instruction - 1]

-----------------------------------------------------------------------------
Init ==
  /\ main_t \in [0..total_instruction - 1 -> Pages]
  /\ alg = "FIFO" /\ pos = 0 /\ diseffect = 0
  /\ rate = [a \in Algorithms |-> -1]
  /\ is_in_memory = {} /\ frame_id = [p \in Pages |-> -1]
  /\ page_id = [f \in Frames |-> -1] /\ is_free = Frames
  /\ no_use_time = [f \in Frames |-> 0] /\ has_used = {}
  /\ queue = [k \in Frames |-> 0] /\ head = 0 /\ tail = 0 /\ queue_len = 0
  /\ period = 0
  /\ loadedAt = [p \in Pages |-> -1]

clear_memory ==
  /\ diseffect' = 0
  /\ is_in_memory' = {} /\ frame_id' = [p \in Pages |-> -1]
  /\ page_id' = [f \in Frames |-> -1] /\ is_free' = Frames
  /\ no_use_time' = [f \in Frames |-> 0] /\ has_used' = {}
  /\ loadedAt' = [p \in Pages |-> -1]

page == main_t[pos]

\* The first of a set of indices, as the loops find it.
First(S) == CHOOSE x \in S : \A y \in S : x <= y

Executes(a) == /\ alg = a /\ pos < total_instruction
               /\ pos' = pos + 1
               /\ UNCHANGED <<main_t, alg, rate>>

Hit == page \in is_in_memory /\ UNCHANGED <<diseffect, loadedAt, tables>>

Fault == /\ page \notin is_in_memory
         /\ diseffect' = diseffect + 1
         /\ loadedAt' = [loadedAt EXCEPT ![page] = pos]

FreeFrame == First(is_free)

\* A fault with a frame to spare.
Fill == /\ Fault /\ is_free # {}
        /\ is_free' = is_free \ {FreeFrame}
        /\ page_id' = [page_id EXCEPT ![FreeFrame] = page]
        /\ is_in_memory' = is_in_memory \cup {page}
        /\ frame_id' = [frame_id EXCEPT ![page] = FreeFrame]

\* Mutant: the page replaced is still said to be in memory.
ReplaceKeeps(f) == /\ Fault /\ is_free = {}
                   /\ page_id' = [page_id EXCEPT ![f] = page]
                   /\ is_in_memory' = is_in_memory \cup {page}
                   /\ frame_id' = [frame_id EXCEPT ![page] = f]
                   /\ UNCHANGED is_free

\* LRU, NUR and OPT: the page in frame f leaves, and keeps its frame_id.
Replace(f) == /\ Fault /\ is_free = {}
              /\ page_id' = [page_id EXCEPT ![f] = page]
              /\ is_in_memory' = (is_in_memory \ {page_id[f]}) \cup {page}
              /\ frame_id' = [frame_id EXCEPT ![page] = f]
              /\ UNCHANGED is_free

-----------------------------------------------------------------------------
\* FIFO
FIFOSame == UNCHANGED <<no_use_time, has_used, period>>

\* Mutant: the queue does not wrap around.
AdvanceNoWrap(k) == k + 1
Advance(k) == (k + 1) % AP

\* Mutant: the new page goes where the oldest is.
EnqueueAtHead == /\ queue' = [queue EXCEPT ![head] = page]
                 /\ tail' = Advance(tail)
Enqueue == /\ queue' = [queue EXCEPT ![tail] = page]
           /\ tail' = Advance(tail)

FIFOHit == Executes("FIFO") /\ Hit /\ FIFOSame /\ UNCHANGED queueVars

FIFOFill == /\ Executes("FIFO") /\ Fill /\ FIFOSame
            /\ Enqueue /\ queue_len' = queue_len + 1
            /\ UNCHANGED head

\* The page at the head leaves; the frame is the one its own entry names.
FIFOReplace ==
  LET victim == queue[head] IN
  /\ Executes("FIFO") /\ Fault /\ is_free = {} /\ FIFOSame
  /\ frame_id' = [frame_id EXCEPT ![page] = frame_id[victim], ![victim] = -1]
  /\ is_in_memory' = (is_in_memory \cup {page}) \ {victim}
  /\ page_id' = [page_id EXCEPT ![frame_id[victim]] = page]
  /\ head' = Advance(head)
  /\ Enqueue
  /\ UNCHANGED <<is_free, queue_len>>

-----------------------------------------------------------------------------
\* LRU: every turn first ages the frames in use.
LRUSame == UNCHANGED <<has_used, queueVars, period>>

\* Mutant: free frames age, too.
AgedAll == [f \in Frames |-> no_use_time[f] + 1]
Aged == [f \in Frames |-> IF f \in is_free THEN no_use_time[f] ELSE no_use_time[f] + 1]

LongestUnused == {f \in Frames \ is_free :
                    \A g \in Frames \ is_free : Aged[g] <= Aged[f]}

LRUHit == /\ Executes("LRU") /\ Hit /\ LRUSame
          /\ no_use_time' = [Aged EXCEPT ![frame_id[page]] = 0]

LRUFill == /\ Executes("LRU") /\ Fill /\ LRUSame
           /\ no_use_time' = Aged

LRUReplace == LET f == First(LongestUnused) IN
              /\ Executes("LRU") /\ Replace(f) /\ LRUSame
              /\ no_use_time' = [Aged EXCEPT ![f] = 0]

-----------------------------------------------------------------------------
\* NUR: the turn that completes a period first forgets which frames were used.
NURSame == UNCHANGED <<no_use_time, queueVars>>

PeriodOver == period + 1 >= CLEAR_PERIOD
\* Mutant: no period ever ends.
UsedForever == has_used
Used == IF PeriodOver THEN {} ELSE has_used
NURTurn == /\ Executes("NUR") /\ NURSame
           /\ period' = IF PeriodOver THEN 0 ELSE period + 1

NotUsedFrame == IF Frames \ Used = {} THEN 0 ELSE First(Frames \ Used)

NURHit == NURTurn /\ Hit /\ has_used' = Used \cup {frame_id[page]}

NURFill == NURTurn /\ Fill /\ has_used' = Used \cup {FreeFrame}

NURReplace == /\ NURTurn /\ Replace(NotUsedFrame)
              /\ has_used' = Used \cup {NotUsedFrame}

-----------------------------------------------------------------------------
\* OPT: compute_distance(pos), and the page needed farthest from now.
OPTSame == UNCHANGED <<no_use_time, has_used, queueVars, period>>

Uses(p) == {j \in pos..total_instruction - 1 : main_t[j] = p}

\* Mutant: a page no longer needed is at no distance.
DistanceZero(p) == IF Uses(p) = {} THEN 0 ELSE First(Uses(p)) - pos + 1
Distance(p) == IF Uses(p) = {} THEN INFINITE ELSE First(Uses(p)) - pos + 1

\* Mutant: the page needed soonest.
NearestFrames == {f \in Frames :
                    \A g \in Frames : Distance(page_id[g]) >= Distance(page_id[f])}
FarthestFrames == {f \in Frames :
                     \A g \in Frames : Distance(page_id[g]) <= Distance(page_id[f])}

OPTHit == Executes("OPT") /\ Hit /\ OPTSame

OPTFill == Executes("OPT") /\ Fill /\ OPTSame

OPTReplace == Executes("OPT") /\ Replace(First(FarthestFrames)) /\ OPTSame

-----------------------------------------------------------------------------
\* The end of an algorithm: it prints its rate, and the next one clears.
Print_rate == /\ pos = total_instruction
              /\ rate' = [rate EXCEPT ![alg] = diseffect]
              /\ UNCHANGED main_t

NextAlgorithm == /\ alg \in Algorithms \ {"OPT"} /\ Print_rate
                 /\ alg' = [FIFO |-> "LRU", LRU |-> "NUR", NUR |-> "OPT"][alg]
                 /\ pos' = 0 /\ period' = 0 /\ clear_memory
                 /\ UNCHANGED queueVars

Return == /\ alg = "OPT" /\ Print_rate
          /\ alg' = "done"
          /\ UNCHANGED <<pos, diseffect, tables, no_use_time, has_used, queueVars,
                         period, loadedAt>>

FIFO == FIFOHit \/ FIFOFill \/ FIFOReplace
LRU == LRUHit \/ LRUFill \/ LRUReplace
NUR == NURHit \/ NURFill \/ NURReplace
OPT == OPTHit \/ OPTFill \/ OPTReplace

Next == FIFO \/ LRU \/ NUR \/ OPT \/ NextAlgorithm \/ Return

Spec == Init /\ [][Next]_vars

-----------------------------------------------------------------------------
\* Two tables, one mapping: a frame in use holds a page in memory whose
\* frame_id leads back to it, and every page in memory has such a frame.
\* Every algorithm updates the two tables, in an order of its own.
FramesMatchPages ==
  /\ \A f \in Frames \ is_free : page_id[f] \in is_in_memory /\ frame_id[page_id[f]] = f
  /\ \A p \in is_in_memory : frame_id[p] \in Frames \ is_free /\ page_id[frame_id[p]] = p

\* The circular queue of FIFO(), from head on, is in the order of loading:
\* slot k is before slot l if it is reached first from head.
Before(k, l) == IF k >= head THEN l < head \/ k < l ELSE l < head /\ k < l

QueueInLoadOrder ==
  alg = "FIFO" =>
    \A k, l \in 0..queue_len - 1 : Before(k, l) => loadedAt[queue[k]] < loadedAt[queue[l]]

\* no_use_time is the number of instructions since the page was last used.
AgesAreExact ==
  alg = "LRU" =>
    \A f \in Frames \ is_free :
      LET last == pos - 1 - no_use_time[f] IN
      /\ last >= 0 /\ main_t[last] = page_id[f]
      /\ \A j \in last + 1..pos - 1 : main_t[j] # page_id[f]

\* has_used tells exactly the pages used in the current period, also for the
\* pages that were thrown out in the period and loaded again.
UsesAreExact ==
  alg = "NUR" =>
    \A f \in Frames : f \in has_used <=>
      /\ f \notin is_free
      /\ \E j \in 0..pos - 1 : j >= pos - period - 1 /\ main_t[j] = page_id[f]

\* The algorithms choose as DemandPaging says, whatever their tables.
PeriodBegan == IF alg = "NUR" THEN pos - period - 1 ELSE -1
Paging == INSTANCE DemandPaging WITH resident <- is_in_memory, since <- PeriodBegan
ImplementsPaging == Paging!Spec

\* No algorithm has fewer faults than OPT, which is why the program shows them
\* side by side.
OPTIsBest == alg = "done" => \A a \in Algorithms : rate["OPT"] <= rate[a]
=============================================================================
