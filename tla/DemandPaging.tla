---------------------------- MODULE DemandPaging ----------------------------
(***************************************************************************)
(* What the four page replacement algorithms of the operating systems      *)
(* exercise promise, without their tables: a set of resident pages, no     *)
(* larger than the memory, and for every algorithm the pages it may throw  *)
(* out, told by the sequence of instructions alone and not by counters,    *)
(* flags or queues.  OS3_memory is shown to implement it.                  *)
(***************************************************************************)
EXTENDS Integers, FiniteSets

CONSTANTS Pages, AP, total_instruction, CLEAR_PERIOD

VARIABLES main_t,     \* the page each instruction uses
          alg,        \* the algorithm at work, "done" in the end
          pos,        \* the instruction to execute
          resident,   \* the pages in memory
          loadedAt,   \* the instruction that last loaded each page
          since,      \* the instruction at which the current period began
          diseffect,  \* the faults of this algorithm
          rate        \* what each algorithm reported in the end

vars == <<main_t, alg, pos, resident, loadedAt, since, diseffect, rate>>

Following == [FIFO |-> "LRU", LRU |-> "NUR", NUR |-> "OPT", OPT |-> "done"]

Empty == /\ resident = {}
         /\ loadedAt = [p \in Pages |-> -1]
         /\ since = -1
         /\ diseffect = 0

Init == /\ main_t \in [0..total_instruction - 1 -> Pages]
        /\ alg = "FIFO" /\ pos = 0
        /\ rate = [a \in DOMAIN Following |-> -1]
        /\ Empty

page == main_t[pos]

\* The period that instruction pos belongs to began at this instruction.
PeriodStart == IF pos - since >= CLEAR_PERIOD THEN pos ELSE since

UsedInPeriod(p) == \E j \in 0..pos - 1 : j >= PeriodStart /\ main_t[j] = p
UsedSince(p, q) == \E k \in 0..pos - 1 : /\ main_t[k] = q
                                         /\ \A j \in k..pos - 1 : main_t[j] # p
NeededBefore(q, p) == \A j \in pos..total_instruction - 1 :
                         main_t[j] = p => \E k \in pos..j : main_t[k] = q

\* The pages each algorithm may replace: the one that came first; the one no
\* other page was used before; one not used in this period, if there is one;
\* one that no other page is needed after.
FirstIn == {p \in resident : \A q \in resident \ {p} : loadedAt[p] < loadedAt[q]}
LeastRecent == {p \in resident : \A q \in resident \ {p} : UsedSince(p, q)}
NotRecent == {p \in resident : ~UsedInPeriod(p)}
Farthest == {p \in resident : \A q \in resident \ {p} : NeededBefore(q, p)}

Victims == CASE alg = "FIFO" -> FirstIn
             [] alg = "LRU" -> LeastRecent
             [] alg = "NUR" -> IF NotRecent = {} THEN resident ELSE NotRecent
             [] alg = "OPT" -> Farthest

Fault == /\ page \notin resident
         /\ \/ /\ Cardinality(resident) < AP
               /\ resident' = resident \cup {page}
            \/ /\ Cardinality(resident) = AP
               /\ \E v \in Victims : resident' = (resident \ {v}) \cup {page}
         /\ loadedAt' = [loadedAt EXCEPT ![page] = pos]
         /\ diseffect' = diseffect + 1

Execute == /\ alg # "done" /\ pos < total_instruction
           /\ \/ page \in resident /\ UNCHANGED <<resident, loadedAt, diseffect>>
              \/ Fault
           /\ since' = IF alg = "NUR" THEN PeriodStart ELSE since
           /\ pos' = pos + 1
           /\ UNCHANGED <<main_t, alg, rate>>

Report == /\ alg # "done" /\ pos = total_instruction
          /\ rate' = [rate EXCEPT ![alg] = diseffect]
          /\ alg' = Following[alg]
          /\ IF alg = "OPT" THEN UNCHANGED <<pos, resident, loadedAt, since, diseffect>>
                            ELSE pos' = 0 /\ Empty'
          /\ UNCHANGED main_t

Next == Execute \/ Report

Spec == Init /\ [][Next]_vars
=============================================================================
