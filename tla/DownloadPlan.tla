---------------------------- MODULE DownloadPlan ----------------------------
(***************************************************************************)
(* MClientMain on its own: the length of the file and the ends of the      *)
(* transfer threads come from an environment that may do anything, in any  *)
(* order.                                                                  *)
(***************************************************************************)
EXTENDS MClientMain

CONSTANT
  FileLengths   (* the answers of the server, FileNotExist among them      *)

ASSUME FileLengthsAssumption == FileLengths \subseteq Nat \cup {FileNotExist}

Terminated == main \in {"returned", "threw"} /\ Alive = {}

Finished == Terminated /\ UNCHANGED vars

Next ==
  \/ \E length \in FileLengths : LengthReceived(length)
  \/ LengthFailed
  \/ MainStep
  \/ AcksStep
  \/ \E t \in Threads, how \in {"ended", "failed"} : ThreadEnds(t, how)
  \/ Finished

(* connect() and Acks run; a transfer thread ends sooner or later. *)
Fairness ==
  /\ WF_vars(MainStep)
  /\ WF_vars(AcksStep)
  /\ WF_vars(\E length \in FileLengths : LengthReceived(length))
  /\ \A t \in Threads : WF_vars(\E how \in {"ended", "failed"} : ThreadEnds(t, how))

Spec == Init /\ [][Next]_vars /\ Fairness

-----------------------------------------------------------------------------
TypeOK ==
  /\ main \in {"length", "create", "split", "join", "returned", "threw"}
  /\ result \in {"none", "FILE_NOT_EXIST", "RECEIVE_SUCCESS"}
  /\ fileLength \in Nat \cup {FileNotExist}
  /\ tempstart \in Nat /\ remainLen \in Nat /\ i \in Slots
  /\ allocated \in BOOLEAN
  /\ threads \subseteq Slots
  /\ segment \in [Threads -> [startPos : Nat, transferLength : Nat]]
  /\ status \in [Threads -> {"new", "running", "ended", "failed"}]
  /\ acks \in [pc : {"new", "poll", "dead"}, slot : 0..(NumberOfThreads + 1), allStop : BOOLEAN]
  /\ done \in BOOLEAN

(* Byte p of the file belongs to the segment of thread t. *)
InSegment(p, t) ==
  /\ segment[t].startPos <= p
  /\ p < segment[t].startPos + segment[t].transferLength

(* The split (receiveDataFromServer): once all threads are started, every  *)
(* byte of the file is asked for by exactly one thread, and no thread asks *)
(* for anything beyond the end of the file.                                *)
EachByteOnce ==
  main \in {"join", "returned"} /\ fileLength # FileNotExist =>
    /\ \A p \in 0..(fileLength - 1) :
         \E t \in Started : InSegment(p, t) /\ \A u \in Started : InSegment(p, u) => u = t
    /\ \A t \in Started : segment[t].startPos + segment[t].transferLength <= fileLength

(* done ("the transfer is over") is set only when no thread of the array   *)
(* is alive, although Acks looks at them one at a time while they run; and *)
(* the array holds every thread of a split file.                           *)
DoneMeansStopped == done => Alive = {}

(* The segments asked for by the started threads are the bytes before n,   *)
(* each of them once.                                                      *)
CoveredOnce(n) ==
  /\ \A p \in 0..(n - 1) :
       \E t \in Started : InSegment(p, t) /\ \A u \in Started : InSegment(p, u) => u = t
  /\ \A t \in Started : segment[t].startPos + segment[t].transferLength <= n

(* Why EachByteOnce and DoneMeansStopped hold: while the file is split,    *)
(* the threads started so far cover what is before tempstart; and a slot   *)
(* that Acks has passed in this round holds no running thread.             *)
PlanInvariant ==
  /\ main \in {"length", "create"} => Started = {} /\ threads = {} /\ ~allocated
  /\ main \in {"length", "create", "split", "threw"} => acks.pc = "new" /\ ~done
  /\ main = "create" => fileLength # FileNotExist
  /\ main = "split" =>
       /\ tempstart + remainLen = fileLength /\ remainLen > 0
       /\ threads = 0..(i - 1)
       /\ allocated /\ Started = threads
       /\ CoveredOnce(tempstart)
  /\ main = "join" => fileLength # FileNotExist
  /\ main \in {"join", "returned"} /\ fileLength # FileNotExist =>
       /\ CoveredOnce(fileLength)
       /\ allocated => Started = threads
  /\ main = "returned" /\ fileLength = FileNotExist => ~done /\ acks.pc = "new"
  /\ acks.pc = "poll" /\ acks.allStop =>
       \A t \in threads : t < acks.slot => status[t] # "running"
  /\ done => allocated /\ acks.pc = "dead" /\ \A t \in threads : status[t] # "running"
  /\ main = "threw" => ~done /\ acks.pc = "new"

(* RECEIVE_SUCCESS ("the file was transferred") is returned only after     *)
(* every transfer thread is over.                                          *)
SuccessMeansStopped == result = "RECEIVE_SUCCESS" => Alive = {}

(* The same for a file that is split: then connect() returns only when     *)
(* Acks has seen every thread stopped.                                     *)
SplitSuccessMeansStopped == allocated => SuccessMeansStopped

(* connect() comes back, whatever the transfer threads do, provided they   *)
(* end.                                                                    *)
ConnectReturns == <>(main \in {"returned", "threw"})
=============================================================================
