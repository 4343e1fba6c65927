------------------------- MODULE DownloadPlanProofs -------------------------
(***************************************************************************)
(* Proofs about DownloadPlan for every length of the file, number of       *)
(* threads and threshold.                                                  *)
(***************************************************************************)
EXTENDS DownloadPlan, TLAPS

USE NumberOfThreadsAssumption, MultiThresholdAssumption, FileLengthsAssumption

(* TypeOK needs PlanInvariant: a thread for the whole file is only started *)
(* when the length is that of a file.                                      *)
PlanOK == TypeOK /\ PlanInvariant

LEMMA InitOK == Init => PlanOK
<1>. SUFFICES ASSUME Init PROVE PlanOK
  OBVIOUS
<1>1. TypeOK
  <2>1. /\ main \in {"length", "create", "split", "join", "returned", "threw"}
        /\ result \in {"none", "FILE_NOT_EXIST", "RECEIVE_SUCCESS"}
        /\ fileLength \in Nat /\ tempstart \in Nat /\ remainLen \in Nat /\ i \in Slots
        /\ threads \subseteq Slots
    BY DEF Init, Slots
  <2>2. allocated \in BOOLEAN /\ done \in BOOLEAN
    BY DEF Init
  <2>3. /\ segment \in [Threads -> [startPos : Nat, transferLength : Nat]]
        /\ status \in [Threads -> {"new", "running", "ended", "failed"}]
    BY DEF Init
  <2>4. acks \in [pc : {"new", "poll", "dead"}, slot : 0..(NumberOfThreads + 1), allStop : BOOLEAN]
    BY DEF Init
  <2>. QED  BY <2>1, <2>2, <2>3, <2>4 DEF TypeOK
<1>2. Started = {}
  BY DEF Init, Started
<1>3. PlanInvariant
  BY <1>2 DEF Init, PlanInvariant
<1>. QED  BY <1>1, <1>3 DEF PlanOK

LEMMA TypeStep == PlanOK /\ [Next]_vars => TypeOK'
<1>. SUFFICES ASSUME PlanOK, [Next]_vars PROVE TypeOK'
  OBVIOUS
<1>. USE DEF PlanOK, TypeOK, FileNotExist
<1>0. Slots \subseteq Threads /\ Single \in Threads /\ \A s \in Slots : s \in 0..NumberOfThreads
  BY DEF Threads, Slots
<1>a. ASSUME NEW t \in Threads, NEW s \in Nat, NEW l \in Nat, Start(t, s, l)
      PROVE  /\ segment' \in [Threads -> [startPos : Nat, transferLength : Nat]]
             /\ status' \in [Threads -> {"new", "running", "ended", "failed"}]
  BY <1>a DEF Start
<1>1. ASSUME NEW length \in FileLengths, LengthReceived(length) PROVE TypeOK'
  BY <1>1 DEF LengthReceived, planVars, acksVars
<1>2. CASE LengthFailed
  BY <1>2 DEF LengthFailed, planVars, acksVars
<1>3. CASE BeginSplit
  <2>1. fileLength \in Nat /\ 0 \in Slots
    BY <1>3 DEF BeginSplit, Slots
  <2>2. /\ main' \in {"threw", "split"}
        /\ tempstart' \in Nat /\ remainLen' \in Nat /\ i' \in Slots /\ allocated' \in BOOLEAN
        /\ threads' = threads /\ segment' = segment
    <3>1. CASE NumberOfThreads = 0
      BY <1>3, <3>1 DEF BeginSplit, planVars
    <3>2. CASE NumberOfThreads # 0
      BY <1>3, <2>1, <3>2 DEF BeginSplit
    <3>. QED  BY <3>1, <3>2
  <2>. QED  BY <1>3, <2>2 DEF BeginSplit, acksVars
<1>4. CASE StartNext
  <2>1. /\ i \in Slots /\ i + 1 \in Slots /\ NumberOfThreads > 0
        /\ remainLen \in Nat /\ tempstart \in Nat /\ fileLength \in Nat
        /\ remainLen > perLength
    BY <1>4 DEF StartNext, PlanInvariant, Slots
  <2>2. perLength \in Nat
    BY <2>1 DEF perLength
  <2>3. /\ segment' \in [Threads -> [startPos : Nat, transferLength : Nat]]
        /\ status' \in [Threads -> {"new", "running", "ended", "failed"}]
    BY <1>4, <1>a, <1>0, <2>1, <2>2 DEF StartNext
  <2>4. /\ tempstart' \in Nat /\ remainLen' \in Nat /\ i' \in Slots /\ threads' \subseteq Slots
    BY <1>4, <2>1, <2>2 DEF StartNext
  <2>. QED  BY <1>4, <2>3, <2>4 DEF StartNext, mainVars, acksVars
<1>5. CASE StartLast
  <2>1. /\ segment' \in [Threads -> [startPos : Nat, transferLength : Nat]]
        /\ status' \in [Threads -> {"new", "running", "ended", "failed"}]
    BY <1>5, <1>a, <1>0 DEF StartLast
  <2>. QED  BY <1>5, <2>1 DEF StartLast
<1>6. CASE StartSingle
  <2>1. fileLength \in Nat
    BY <1>6 DEF StartSingle, PlanInvariant
  <2>2. /\ segment' \in [Threads -> [startPos : Nat, transferLength : Nat]]
        /\ status' \in [Threads -> {"new", "running", "ended", "failed"}]
    BY <1>6, <1>a, <1>0, <2>1 DEF StartSingle
  <2>. QED  BY <1>6, <2>2 DEF StartSingle
<1>7. CASE JoinReturns
  BY <1>7 DEF JoinReturns, planVars, acksVars
<1>8. CASE AcksLook
  <2>1. acks' \in [pc : {"new", "poll", "dead"}, slot : 0..(NumberOfThreads + 1), allStop : BOOLEAN]
    <3>1. CASE allocated
      <4>1. acks.slot \in Nat /\ acks.slot <= NumberOfThreads
        BY <1>8, <3>1 DEF AcksLook, Slots
      <4>2. acks.slot + 1 \in 0..(NumberOfThreads + 1)
        BY <4>1
      <4>. QED  BY <1>8, <3>1, <4>2 DEF AcksLook
    <3>2. CASE ~allocated
      BY <1>8, <3>2 DEF AcksLook
    <3>. QED  BY <3>1, <3>2
  <2>. QED  BY <1>8, <2>1 DEF AcksLook, mainVars, planVars
<1>9. CASE AcksPassOver
  <2>1. acks' \in [pc : {"new", "poll", "dead"}, slot : 0..(NumberOfThreads + 1), allStop : BOOLEAN]
    <3>1. CASE acks.allStop
      BY <1>9, <3>1 DEF AcksPassOver
    <3>2. CASE ~acks.allStop
      <4>1. acks' = [pc |-> "poll", slot |-> 0, allStop |-> TRUE]
        BY <1>9, <3>2 DEF AcksPassOver
      <4>2. 0 \in 0..(NumberOfThreads + 1)
        OBVIOUS
      <4>. HIDE DEF TypeOK, PlanOK
      <4>. QED  BY <4>1, <4>2, Zenon
    <3>. QED  BY <3>1, <3>2
  <2>2. done' \in BOOLEAN
    BY <1>9 DEF AcksPassOver
  <2>. QED  BY <1>9, <2>1, <2>2 DEF AcksPassOver, mainVars, planVars
<1>10. ASSUME NEW t \in Threads, NEW how \in {"ended", "failed"}, ThreadEnds(t, how) PROVE TypeOK'
  BY <1>10 DEF ThreadEnds, mainVars, planVars, acksVars
<1>11. CASE Finished \/ UNCHANGED vars
  BY <1>11 DEF Finished, vars, mainVars, planVars, acksVars
<1>. QED
  BY <1>1, <1>2, <1>3, <1>4, <1>5, <1>6, <1>7, <1>8, <1>9, <1>10, <1>11 DEF Next, MainStep, AcksStep

-----------------------------------------------------------------------------
(* A thread started for the bytes from n on leaves every byte covered once *)
(* up to the end of its segment.                                           *)
LEMMA CoverageExtends ==
  ASSUME TypeOK, NEW t \in Threads, status[t] = "new",
         NEW n \in Nat, NEW length \in Nat, CoveredOnce(n), Start(t, n, length)
  PROVE  Started' = Started \cup {t} /\ CoveredOnce(n + length)'
<1>0. /\ segment' = [segment EXCEPT ![t] = [startPos |-> n, transferLength |-> length]]
      /\ status' = [status EXCEPT ![t] = "running"]
  BY DEF Start
<1>1. /\ Started' = Started \cup {t}
      /\ t \notin Started
  BY <1>0 DEF Started, TypeOK
<1>2. ASSUME NEW u \in Started
      PROVE  /\ u # t /\ segment'[u] = segment[u]
             /\ segment[u].startPos \in Nat /\ segment[u].transferLength \in Nat
             /\ segment[u].startPos + segment[u].transferLength <= n
  BY <1>0, <1>1, <1>2 DEF Started, TypeOK, CoveredOnce
<1>3. segment'[t].startPos = n /\ segment'[t].transferLength = length
  BY <1>0 DEF TypeOK
<1>4. \A p, u : InSegment(p, u)' <=> /\ segment'[u].startPos <= p
                                    /\ p < segment'[u].startPos + segment'[u].transferLength
  BY DEF InSegment
<1>5. ASSUME NEW p \in 0..(n + length - 1)
      PROVE  \E u \in Started' : InSegment(p, u)' /\ \A v \in Started' : InSegment(p, v)' => v = u
  <2>1. CASE p < n
    <3>1. PICK u \in Started : InSegment(p, u) /\ \A v \in Started : InSegment(p, v) => v = u
      BY <2>1 DEF CoveredOnce
    <3>2. \A v \in Started : InSegment(p, v)' <=> InSegment(p, v)
      BY <1>2, <1>4 DEF InSegment
    <3>3. ~InSegment(p, t)'
      BY <1>3, <1>4, <2>1
    <3>. QED  BY <1>1, <3>1, <3>2, <3>3
  <2>2. CASE p >= n
    <3>1. InSegment(p, t)'
      BY <1>3, <1>4, <2>2
    <3>2. \A v \in Started : ~InSegment(p, v)'
      BY <1>2, <1>4, <2>2
    <3>. QED  BY <1>1, <3>1, <3>2
  <2>. QED  BY <2>1, <2>2
<1>6. ASSUME NEW u \in Started'
      PROVE  segment'[u].startPos + segment'[u].transferLength <= n + length
  BY <1>1, <1>2, <1>3
<1>. QED  BY <1>1, <1>5, <1>6 DEF CoveredOnce

LEMMA PlanStep == PlanOK /\ [Next]_vars => PlanInvariant'
<1>. SUFFICES ASSUME TypeOK, PlanInvariant, [Next]_vars PROVE PlanInvariant'
  BY DEF PlanOK
<1>0. Slots \subseteq Threads /\ Single \in Threads /\ Single \notin Slots
  BY DEF Threads, Slots, Single
<1>a. ASSUME UNCHANGED <<segment, status>>, NEW n \in Int, CoveredOnce(n)
      PROVE  CoveredOnce(n)' /\ Started' = Started
  <2>1. Started' = Started
    BY <1>a DEF Started
  <2>2. \A p, u : InSegment(p, u)' <=> InSegment(p, u)
    BY <1>a DEF InSegment
  <2>. QED  BY <1>a, <2>1, <2>2 DEF CoveredOnce
<1>b. ASSUME UNCHANGED status PROVE Started' = Started
  BY <1>b DEF Started
<1>1. ASSUME NEW length \in FileLengths, LengthReceived(length) PROVE PlanInvariant'
  BY <1>1, <1>b DEF LengthReceived, planVars, acksVars, PlanInvariant
<1>2. CASE LengthFailed
  BY <1>2, <1>b DEF LengthFailed, planVars, acksVars, PlanInvariant
<1>3. CASE BeginSplit
  <2>1. fileLength \in Nat /\ fileLength > 0 /\ Started' = Started /\ Started = {} /\ threads = {}
    BY <1>3, <1>b DEF BeginSplit, PlanInvariant, TypeOK, FileNotExist
  <2>2. threads' = {} /\ 0..(0 - 1) = {}
    BY <1>3, <2>1 DEF BeginSplit, planVars
  <2>3. CoveredOnce(0)'
    BY <2>1 DEF CoveredOnce
  <2>4. CASE NumberOfThreads = 0
    BY <1>3, <2>1, <2>2, <2>4 DEF BeginSplit, planVars, acksVars, PlanInvariant
  <2>5. CASE NumberOfThreads # 0
    BY <1>3, <2>1, <2>2, <2>3, <2>5 DEF BeginSplit, acksVars, PlanInvariant
  <2>. QED  BY <2>4, <2>5
<1>4. CASE StartNext
  <2>1. /\ i \in Nat /\ i \in Slots /\ i \in Threads /\ NumberOfThreads > 0
        /\ remainLen \in Nat /\ tempstart \in Nat /\ fileLength \in Nat
        /\ remainLen > perLength /\ tempstart + remainLen = fileLength
        /\ threads = 0..(i - 1) /\ allocated /\ Started = threads /\ CoveredOnce(tempstart)
        /\ acks.pc = "new" /\ ~done
    BY <1>4, <1>0 DEF StartNext, PlanInvariant, TypeOK, Slots
  <2>2. perLength \in Nat
    BY <2>1 DEF perLength
  <2>3. status[i] = "new"
    BY <2>1 DEF Started
  <2>4. PICK t \in Threads, n \in Nat, length \in Nat :
          t = i /\ n = tempstart /\ length = perLength
    BY <2>1, <2>2
  <2>a. Start(t, n, length) /\ status[t] = "new" /\ CoveredOnce(n)
    BY <1>4, <2>1, <2>3, <2>4 DEF StartNext
  <2>5. Started' = Started \cup {t} /\ CoveredOnce(n + length)'
    BY <2>a, CoverageExtends
  <2>6. threads' = 0..(i' - 1) /\ Started' = threads'
    BY <1>4, <2>1, <2>4, <2>5 DEF StartNext
  <2>7. /\ tempstart' = tempstart + perLength /\ remainLen' = remainLen - perLength
        /\ main' = "split" /\ fileLength' = fileLength /\ allocated' = allocated
        /\ acks' = acks /\ done' = done
    BY <1>4 DEF StartNext, mainVars, acksVars
  <2>8. CoveredOnce(tempstart)'
    BY <2>4, <2>5, <2>7 DEF CoveredOnce
  <2>9. tempstart' + remainLen' = fileLength' /\ remainLen' > 0
    BY <2>1, <2>2, <2>7
  <2>. QED  BY <2>1, <2>6, <2>7, <2>8, <2>9 DEF PlanInvariant
<1>5. CASE StartLast
  <2>1. /\ i \in Slots /\ i \in Threads /\ i \in Nat
        /\ remainLen \in Nat /\ remainLen > 0 /\ tempstart \in Nat
        /\ tempstart + remainLen = fileLength /\ fileLength \in Nat
        /\ threads = 0..(i - 1) /\ allocated /\ Started = threads /\ CoveredOnce(tempstart)
        /\ ~done
    BY <1>5, <1>0 DEF StartLast, PlanInvariant, TypeOK, Slots
  <2>2. status[i] = "new"
    BY <2>1 DEF Started
  <2>3. PICK t \in Threads, n \in Nat, length \in Nat :
          t = i /\ n = tempstart /\ length = remainLen
    BY <2>1
  <2>a. /\ Start(t, n, length) /\ status[t] = "new" /\ CoveredOnce(n)
        /\ threads' = threads \cup {t} /\ n + length = fileLength
    BY <1>5, <2>1, <2>2, <2>3 DEF StartLast
  <2>4. Started' = Started \cup {t} /\ CoveredOnce(n + length)'
    BY <2>a, CoverageExtends
  <2>5. /\ main' = "join" /\ fileLength' = fileLength /\ allocated' = allocated /\ done' = done
        /\ acks'.slot = 0
    BY <1>5 DEF StartLast
  <2>6. CoveredOnce(fileLength)'
    BY <2>a, <2>4, <2>5 DEF CoveredOnce
  <2>7. \A u \in threads' : ~(u < acks'.slot)
    BY <2>1, <2>3, <2>a, <2>5
  <2>. QED  BY <2>1, <2>a, <2>4, <2>5, <2>6, <2>7 DEF PlanInvariant, FileNotExist
<1>6. CASE StartSingle
  <2>1. /\ fileLength \in Nat /\ Started = {} /\ threads = {} /\ ~allocated /\ ~done
    BY <1>6 DEF StartSingle, PlanInvariant, TypeOK, FileNotExist
  <2>2. status[Single] = "new" /\ CoveredOnce(0)
    BY <2>1, <1>0 DEF Started, CoveredOnce
  <2>3. PICK length \in Nat : length = fileLength
    BY <2>1
  <2>a. Start(Single, 0, length)
    BY <1>6, <2>3 DEF StartSingle
  <2>4. CoveredOnce(0 + length)'
    BY <2>a, <2>2, <1>0, CoverageExtends
  <2>5. /\ main' = "join" /\ fileLength' = fileLength /\ ~allocated' /\ ~done' /\ threads' = {}
    BY <1>6, <2>1 DEF StartSingle
  <2>6. CoveredOnce(fileLength)'
    BY <2>3, <2>4, <2>5 DEF CoveredOnce
  <2>. QED  BY <2>1, <2>5, <2>6 DEF PlanInvariant, FileNotExist
<1>7. CASE JoinReturns
  <2>1. CoveredOnce(fileLength) /\ fileLength \in Int /\ fileLength # FileNotExist
    BY <1>7 DEF JoinReturns, PlanInvariant, TypeOK, FileNotExist
  <2>2. /\ UNCHANGED <<segment, status>> /\ fileLength' = fileLength
        /\ main = "join" /\ main' = "returned" /\ acks' = acks /\ done' = done
        /\ threads' = threads /\ allocated' = allocated
    BY <1>7 DEF JoinReturns, planVars, acksVars
  <2>3. CoveredOnce(fileLength)' /\ Started' = Started
    BY <1>a, <2>1, <2>2 DEF CoveredOnce
  <2>. QED  BY <2>1, <2>2, <2>3 DEF PlanInvariant
<1>c. ASSUME UNCHANGED <<mainVars, planVars, status>>
      PROVE  /\ Started' = Started
             /\ CoveredOnce(tempstart) => CoveredOnce(tempstart)'
             /\ fileLength # FileNotExist =>
                  (CoveredOnce(fileLength) => CoveredOnce(fileLength)')
  <2>1. PICK n \in Int, m \in Int : n = tempstart /\ m = fileLength
    BY DEF TypeOK, FileNotExist
  <2>2. n = tempstart' /\ m = fileLength'
    BY <1>c, <2>1 DEF planVars, mainVars
  <2>. QED  BY <1>a, <1>b, <1>c, <2>1, <2>2 DEF planVars, CoveredOnce
<1>8. CASE AcksLook
  <2>1. /\ UNCHANGED <<mainVars, planVars, status>> /\ done' = done
        /\ acks.pc = "poll" /\ acks'.pc \in {"poll", "dead"}
    BY <1>8 DEF AcksLook, TypeOK
  <2>2. ~done
    BY <2>1 DEF PlanInvariant
  <2>3. ASSUME acks'.pc = "poll", acks'.allStop, NEW t \in threads, t < acks'.slot
        PROVE  status[t] # "running"
    <3>1. allocated
      BY <1>8, <2>3 DEF AcksLook, TypeOK
    <3>2. /\ acks.slot \in Nat /\ acks'.slot = acks.slot + 1
          /\ acks.allStop /\ ~(acks.slot \in threads /\ status[acks.slot] = "running")
      <4>1. acks \in [pc : {"new", "poll", "dead"}, slot : 0..(NumberOfThreads + 1), allStop : BOOLEAN]
        BY DEF TypeOK
      <4>2. acks' = [acks EXCEPT
                       !.slot = @ + 1,
                       !.allStop = @ /\ ~(acks.slot \in threads /\ status[acks.slot] = "running")]
        BY <1>8, <3>1 DEF AcksLook
      <4>3. acks'.slot = acks.slot + 1 /\ acks.slot \in Nat
        BY <4>1, <4>2
      <4>4. acks'.allStop =
              (acks.allStop /\ ~(acks.slot \in threads /\ status[acks.slot] = "running"))
        BY <4>1, <4>2, Zenon
      <4>. QED  BY <2>3, <4>3, <4>4, Zenon
    <3>3. t \in Nat
      BY DEF TypeOK, Slots
    <3>4. CASE t < acks.slot
      BY <2>1, <3>2, <3>4 DEF PlanInvariant
    <3>5. CASE t = acks.slot
      BY <3>2, <3>5
    <3>. QED  BY <2>3, <3>2, <3>3, <3>4, <3>5
  <2>. QED  BY <1>c, <2>1, <2>2, <2>3 DEF PlanInvariant, mainVars, planVars
<1>9. CASE AcksPassOver
  <2>1. /\ UNCHANGED <<mainVars, planVars, status>>
        /\ acks.pc = "poll" /\ allocated /\ acks.slot \notin Slots
    BY <1>9 DEF AcksPassOver
  <2>2. ~done
    BY <2>1 DEF PlanInvariant
  <2>3. CASE acks.allStop
    <3>1. acks'.pc = "dead" /\ done'
      BY <1>9, <2>3 DEF AcksPassOver, TypeOK
    <3>2. ASSUME NEW t \in threads PROVE status[t] # "running"
      <4>1. t \in 0..NumberOfThreads /\ acks.slot \in 0..(NumberOfThreads + 1) /\ t < acks.slot
        BY <2>1 DEF TypeOK, Slots
      <4>. QED  BY <2>1, <2>3, <4>1 DEF PlanInvariant
    <3>. QED  BY <1>c, <2>1, <2>2, <3>1, <3>2 DEF PlanInvariant, mainVars, planVars
  <2>4. CASE ~acks.allStop
    <3>1. acks'.pc = "poll" /\ acks'.slot = 0 /\ ~done'
      BY <1>9, <2>2, <2>4 DEF AcksPassOver
    <3>2. \A t \in threads : ~(t < 0)
      BY DEF TypeOK, Slots
    <3>. QED  BY <1>c, <2>1, <2>2, <3>1, <3>2 DEF PlanInvariant, mainVars, planVars
  <2>. QED  BY <2>3, <2>4
<1>10. ASSUME NEW t \in Threads, NEW how \in {"ended", "failed"}, ThreadEnds(t, how)
       PROVE PlanInvariant'
  <2>1. /\ UNCHANGED <<mainVars, planVars, acksVars>> /\ status[t] = "running"
        /\ status' = [status EXCEPT ![t] = how]
    BY <1>10 DEF ThreadEnds
  <2>2. Started' = Started
    BY <2>1 DEF Started, TypeOK
  <2>3. \A p, u : InSegment(p, u)' <=> InSegment(p, u)
    BY <2>1 DEF InSegment, planVars
  <2>4. \A u \in Threads : status[u] # "running" => status'[u] # "running"
    BY <2>1 DEF TypeOK
  <2>5. /\ CoveredOnce(tempstart) => CoveredOnce(tempstart)'
        /\ CoveredOnce(fileLength) => CoveredOnce(fileLength)'
    BY <2>1, <2>2, <2>3 DEF CoveredOnce, planVars, mainVars
  <2>6. threads \subseteq Threads
    BY <1>0 DEF TypeOK
  <2>. QED  BY <2>1, <2>2, <2>4, <2>5, <2>6 DEF PlanInvariant, mainVars, planVars, acksVars
<1>11. CASE Finished \/ UNCHANGED vars
  <2>1. UNCHANGED <<mainVars, planVars, status, acksVars>>
    BY <1>11 DEF Finished, vars
  <2>. QED  BY <1>c, <2>1 DEF PlanInvariant, mainVars, planVars, acksVars
<1>. QED
  BY <1>1, <1>2, <1>3, <1>4, <1>5, <1>6, <1>7, <1>8, <1>9, <1>10, <1>11 DEF Next, MainStep, AcksStep

-----------------------------------------------------------------------------
(* The inductive invariant holds in every reachable state. *)
THEOREM PlanCorrect == Spec => []PlanOK
<1>1. PlanOK /\ [Next]_vars => PlanOK'
  BY TypeStep, PlanStep DEF PlanOK
<1>. QED  BY InitOK, <1>1, PTL DEF Spec

(* Type correctness of connect() and Acks. *)
THEOREM TypeCorrect == Spec => []TypeOK
<1>1. PlanOK => TypeOK
  BY DEF PlanOK
<1>. QED  BY PlanCorrect, <1>1, PTL

(* However receiveDataFromServer splits a file, and whatever becomes of    *)
(* the threads, every byte is asked for by exactly one of them.            *)
THEOREM SplitCorrect == Spec => []EachByteOnce
<1>1. PlanOK => EachByteOnce
  BY DEF PlanOK, PlanInvariant, CoveredOnce, EachByteOnce
<1>. QED  BY PlanCorrect, <1>1, PTL

(* When Acks sets done, no transfer thread is alive.                       *)
THEOREM DoneCorrect == Spec => []DoneMeansStopped
<1>1. PlanOK => DoneMeansStopped
  <2>. SUFFICES ASSUME PlanOK, done PROVE Alive = {}
    BY DEF DoneMeansStopped
  <2>1. /\ ~(main \in {"length", "create", "split", "threw"})
        /\ allocated /\ acks.pc = "dead" /\ \A t \in threads : status[t] # "running"
    BY Zenon DEF PlanOK, PlanInvariant
  <2>2. main \in {"join", "returned"}
    BY <2>1 DEF PlanOK, TypeOK
  <2>3. fileLength # FileNotExist
    BY <2>2 DEF PlanOK, PlanInvariant
  <2>4. allocated => Started = threads
    BY <2>2, <2>3, Zenon DEF PlanOK, PlanInvariant
  <2>. QED  BY <2>1, <2>4 DEF Alive, Started
<1>. QED  BY PlanCorrect, <1>1, PTL

(* The inductive invariant under its own name.                             *)
THEOREM PlanInvariantCorrect == Spec => []PlanInvariant
<1>1. PlanOK => PlanInvariant
  BY DEF PlanOK
<1>. QED  BY PlanCorrect, <1>1, PTL

-----------------------------------------------------------------------------
(* connect() succeeds only after Acks is over, and for a file that is      *)
(* split Acks is over only when it has set done.                           *)
ReturnInvariant ==
  /\ result = "RECEIVE_SUCCESS" => main = "returned" /\ acks.pc = "dead"
  /\ allocated /\ acks.pc = "dead" => done

LEMMA ReturnStep == PlanOK /\ ReturnInvariant /\ [Next]_vars => ReturnInvariant'
<1>. SUFFICES ASSUME TypeOK, PlanInvariant, ReturnInvariant, [Next]_vars PROVE ReturnInvariant'
  BY DEF PlanOK
<1>1. ASSUME NEW length \in FileLengths, LengthReceived(length) PROVE ReturnInvariant'
  BY <1>1 DEF LengthReceived, ReturnInvariant, planVars, acksVars
<1>2. CASE LengthFailed
  BY <1>2 DEF LengthFailed, ReturnInvariant, planVars, acksVars
<1>3. CASE BeginSplit
  <2>1. acks.pc = "new" /\ acks' = acks /\ result # "RECEIVE_SUCCESS" /\ result' = result
    BY <1>3 DEF BeginSplit, PlanInvariant, ReturnInvariant, acksVars
  <2>. QED  BY <2>1 DEF ReturnInvariant
<1>4. CASE StartNext
  BY <1>4 DEF StartNext, ReturnInvariant, mainVars, acksVars
<1>5. CASE StartLast
  <2>1. acks'.pc = "poll" /\ result # "RECEIVE_SUCCESS" /\ result' = result
    BY <1>5 DEF StartLast, ReturnInvariant
  <2>. QED  BY <2>1 DEF ReturnInvariant
<1>6. CASE StartSingle
  <2>1. acks'.pc = "poll" /\ result # "RECEIVE_SUCCESS" /\ result' = result
    BY <1>6 DEF StartSingle, ReturnInvariant
  <2>. QED  BY <2>1 DEF ReturnInvariant
<1>7. CASE JoinReturns
  BY <1>7 DEF JoinReturns, ReturnInvariant, planVars, acksVars
<1>8. CASE AcksLook
  <2>1. CASE allocated
    <3>1. acks'.pc = "poll" /\ acks.pc = "poll"
      BY <1>8, <2>1 DEF AcksLook, TypeOK
    <3>. QED  BY <1>8, <3>1 DEF AcksLook, ReturnInvariant, mainVars
  <2>2. CASE ~allocated
    BY <1>8, <2>2 DEF AcksLook, ReturnInvariant, mainVars, planVars
  <2>. QED  BY <2>1, <2>2
<1>9. CASE AcksPassOver
  <2>1. UNCHANGED <<mainVars, planVars>> /\ acks.pc = "poll"
    BY <1>9 DEF AcksPassOver
  <2>2. result' # "RECEIVE_SUCCESS"
    BY <2>1 DEF ReturnInvariant, mainVars
  <2>3. acks'.pc = "dead" => done'
    <3>1. CASE acks.allStop
      <4>1. done' = TRUE
        BY <1>9, <3>1, Zenon DEF AcksPassOver
      <4>. QED  BY <4>1, Zenon
    <3>2. CASE ~acks.allStop
      <4>1. acks' = [pc |-> "poll", slot |-> 0, allStop |-> TRUE]
        BY <1>9, <3>2, Zenon DEF AcksPassOver
      <4>2. acks'.pc = "poll"
        BY <4>1
      <4>. QED  BY <4>2
    <3>. QED  BY <3>1, <3>2, Zenon
  <2>. QED  BY <2>2, <2>3, Zenon DEF ReturnInvariant
<1>10. ASSUME NEW t \in Threads, NEW how \in {"ended", "failed"}, ThreadEnds(t, how)
       PROVE ReturnInvariant'
  BY <1>10 DEF ThreadEnds, ReturnInvariant, mainVars, planVars, acksVars
<1>11. CASE Finished \/ UNCHANGED vars
  BY <1>11 DEF Finished, vars, ReturnInvariant, mainVars, planVars, acksVars
<1>. QED
  BY <1>1, <1>2, <1>3, <1>4, <1>5, <1>6, <1>7, <1>8, <1>9, <1>10, <1>11 DEF Next, MainStep, AcksStep

(* For a file that is split, connect() reports success only when no        *)
(* transfer thread is alive.                                               *)
THEOREM SplitSuccessCorrect == Spec => []SplitSuccessMeansStopped
<1>1. Init => ReturnInvariant
  BY DEF Init, ReturnInvariant
<1>2. ReturnInvariant /\ DoneMeansStopped => SplitSuccessMeansStopped
  BY DEF ReturnInvariant, DoneMeansStopped, SplitSuccessMeansStopped, SuccessMeansStopped
<1>. QED  BY <1>1, <1>2, ReturnStep, PlanCorrect, DoneCorrect, PTL DEF Spec
=============================================================================
