----------------------------- MODULE MClientMain -----------------------------
(***************************************************************************)
(* The client's side of one download (mt_tcp.client.MClientMain): once the *)
(* length of the file is known, connect() splits the file into segments,   *)
(* starts a thread for each, and joins the Acks thread, which polls the    *)
(* transfer threads until none is alive.                                   *)
(*                                                                         *)
(* The transfer threads appear only as running, ended or failed: FileClient *)
(* says what they do.                                                      *)
(***************************************************************************)
EXTENDS Integers

CONSTANTS
  NumberOfThreads,  (* what the user asks for: 0 to 100 in ClientGUI       *)
  MultiThreshold    (* 10240 in the code: longer files use several threads *)

ASSUME NumberOfThreadsAssumption == NumberOfThreads \in Nat
ASSUME MultiThresholdAssumption == MultiThreshold \in Nat

VARIABLES
  main,         (* where connect() is                                      *)
  result,       (* what connect() returned                                 *)
  fileLength,
  tempstart,    (* the local variables of receiveDataFromServer            *)
  remainLen,
  i,
  allocated,    (* the field threads is not null                           *)
  threads,      (* the slots of the array threads that hold a thread       *)
  segment,      (* the startPos and transferLength a thread was built with *)
  status,       (* of every transfer thread                                *)
  acks,         (* the Acks thread: pc, the slot it looks at, allStop      *)
  done

mainVars == <<main, result, fileLength>>
planVars == <<tempstart, remainLen, i, allocated, threads, segment>>
acksVars == <<acks, done>>
vars == <<mainVars, planVars, status, acksVars>>

(* Mutant: an array of numberOfThreads slots. *)
SlotsShort == 0..(NumberOfThreads - 1)

(* threads is an array of numberOfThreads + 1 slots.  The thread of a file *)
(* that is not split is kept in no slot: it is called Single.              *)
Slots   == 0..NumberOfThreads
Single  == -1
Threads == Slots \cup {Single}

Started == {t \in Threads : status[t] # "new"}
Alive   == {t \in Threads : status[t] = "running"}

FileNotExist == -1

Init ==
  /\ main = "length"
  /\ result = "none"
  /\ fileLength = 0
  /\ tempstart = 0 /\ remainLen = 0 /\ i = 0
  /\ allocated = FALSE
  /\ threads = {}
  /\ segment = [t \in Threads |-> [startPos |-> 0, transferLength |-> 0]]
  /\ status = [t \in Threads |-> "new"]
  /\ acks = [pc |-> "new", slot |-> 0, allStop |-> FALSE]
  /\ done = FALSE

-----------------------------------------------------------------------------
perLength == fileLength \div NumberOfThreads

(* Mutant: every thread is built for perLength bytes. *)
StartAlike(t, start, length) ==
  /\ segment' = [segment EXCEPT ![t] = [startPos |-> start, transferLength |-> perLength]]
  /\ status' = [status EXCEPT ![t] = "running"]

Start(t, start, length) ==
  /\ segment' = [segment EXCEPT ![t] = [startPos |-> start, transferLength |-> length]]
  /\ status' = [status EXCEPT ![t] = "running"]

(* getFileLengthFromServer has read the server's answer. *)
LengthReceived(length) ==
  /\ main = "length"
  /\ fileLength' = length
  /\ IF length = FileNotExist
     THEN main' = "returned" /\ result' = "FILE_NOT_EXIST"
     ELSE main' = "create" /\ UNCHANGED result
  /\ UNCHANGED <<planVars, status, acksVars>>

(* getFileLengthFromServer fails: connect() throws. *)
LengthFailed ==
  /\ main = "length"
  /\ main' = "threw"
  /\ UNCHANGED <<result, fileLength, planVars, status, acksVars>>

(* A file longer than the threshold is split; dividing by zero threads     *)
(* throws.                                                                 *)
BeginSplit ==
  /\ main = "create"
  /\ fileLength > MultiThreshold
  /\ IF NumberOfThreads = 0
     THEN main' = "threw" /\ UNCHANGED planVars
     ELSE /\ main' = "split"
          /\ tempstart' = 0 /\ remainLen' = fileLength /\ i' = 0
          /\ allocated' = TRUE
          /\ UNCHANGED <<threads, segment>>
  /\ UNCHANGED <<result, fileLength, status, acksVars>>

(* Mutant: tempstart is not advanced. *)
StartNextAgain ==
  /\ main = "split" /\ i < NumberOfThreads /\ remainLen > perLength
  /\ Start(i, tempstart, perLength)
  /\ threads' = threads \cup {i}
  /\ remainLen' = remainLen - perLength
  /\ i' = i + 1
  /\ UNCHANGED <<mainVars, tempstart, allocated, acksVars>>

(* One iteration of the loop that starts a thread for perLength bytes. *)
StartNext ==
  /\ main = "split"
  /\ i < NumberOfThreads
  /\ remainLen > perLength
  /\ Start(i, tempstart, perLength)
  /\ threads' = threads \cup {i}
  /\ tempstart' = tempstart + perLength
  /\ remainLen' = remainLen - perLength
  /\ i' = i + 1
  /\ UNCHANGED <<mainVars, allocated, acksVars>>

(* The thread for what is left, and the Acks thread. *)
StartLast ==
  /\ main = "split"
  /\ ~(i < NumberOfThreads /\ remainLen > perLength)
  /\ IF remainLen > 0
     THEN Start(i, tempstart, remainLen) /\ threads' = threads \cup {i}
     ELSE UNCHANGED <<segment, status, threads>>
  /\ main' = "join"
  /\ acks' = [pc |-> "poll", slot |-> 0, allStop |-> TRUE]
  /\ UNCHANGED <<result, fileLength, tempstart, remainLen, i, allocated, done>>

(* A short file: one thread, stored nowhere, and the Acks thread. *)
StartSingle ==
  /\ main = "create"
  /\ fileLength <= MultiThreshold
  /\ Start(Single, 0, fileLength)
  /\ main' = "join"
  /\ acks' = [pc |-> "poll", slot |-> 0, allStop |-> TRUE]
  /\ UNCHANGED <<result, fileLength, tempstart, remainLen, i, allocated, threads, done>>

(* The environment: a transfer thread ends, having done its work or not.   *)
ThreadEnds(t, how) ==
  /\ status[t] = "running"
  /\ status' = [status EXCEPT ![t] = how]
  /\ UNCHANGED <<mainVars, planVars, acksVars>>

(* Mutant: allStop says only whether the last slot has stopped. *)
AcksLookLast ==
  /\ acks.pc = "poll" /\ allocated /\ acks.slot \in Slots
  /\ acks' = [acks EXCEPT !.slot = @ + 1,
                          !.allStop = ~(acks.slot \in threads /\ status[acks.slot] = "running")]
  /\ UNCHANGED <<mainVars, planVars, status, done>>

(* Acks looks at one slot of the array; when there is no array it throws,  *)
(* and the thread dies.                                                    *)
AcksLook ==
  /\ acks.pc = "poll"
  /\ IF allocated
     THEN /\ acks.slot \in Slots
          /\ acks' = [acks EXCEPT
                        !.slot = @ + 1,
                        !.allStop = @ /\ ~(acks.slot \in threads /\ status[acks.slot] = "running")]
     ELSE acks' = [acks EXCEPT !.pc = "dead"]
  /\ UNCHANGED <<mainVars, planVars, status, done>>

(* Mutant: allStop is not set again before the next pass. *)
AcksPassNoReset ==
  /\ acks.pc = "poll" /\ allocated /\ acks.slot \notin Slots
  /\ IF acks.allStop
     THEN acks' = [acks EXCEPT !.pc = "dead"] /\ done' = TRUE
     ELSE acks' = [acks EXCEPT !.slot = 0] /\ UNCHANGED done
  /\ UNCHANGED <<mainVars, planVars, status>>

(* The end of a pass over the array: another one after a sleep, or done. *)
AcksPassOver ==
  /\ acks.pc = "poll"
  /\ allocated /\ acks.slot \notin Slots
  /\ IF acks.allStop
     THEN acks' = [acks EXCEPT !.pc = "dead"] /\ done' = TRUE
     ELSE acks' = [pc |-> "poll", slot |-> 0, allStop |-> TRUE] /\ UNCHANGED done
  /\ UNCHANGED <<mainVars, planVars, status>>

(* Mutant: the join is left out. *)
NoJoin ==
  /\ main = "join"
  /\ main' = "returned" /\ result' = "RECEIVE_SUCCESS"
  /\ UNCHANGED <<fileLength, planVars, status, acksVars>>

(* acks.join() returns, and connect() after it. *)
JoinReturns ==
  /\ main = "join"
  /\ acks.pc = "dead"
  /\ main' = "returned"
  /\ result' = "RECEIVE_SUCCESS"
  /\ UNCHANGED <<fileLength, planVars, status, acksVars>>

MainStep == BeginSplit \/ StartNext \/ StartLast \/ StartSingle \/ JoinReturns
AcksStep == AcksLook \/ AcksPassOver
==============================================================================
