------------------------ MODULE TransferThreadServer ------------------------
(***************************************************************************)
(* The thread that sends one segment of a file to a client                 *)
(* (mt_tcp.server.TransferThreadServer.run): it opens the file, skips to   *)
(* startPos and copies the file to the socket through a buffer of          *)
(* BUFFERSIZE bytes until transferLength bytes are counted.                *)
(*                                                                         *)
(* A byte of the file is identified by its position; Blank is the content  *)
(* of a buffer cell that was never read into.  The request and the size of *)
(* the file are chosen once: the file may have changed since its length    *)
(* was asked for, so a request may reach beyond the end of the file, but   *)
(* it does not change while it is read.                                    *)
(***************************************************************************)
EXTENDS Integers, Sequences

CONSTANTS
  BUFFERSIZE,   (* length of the copy buffer, 1024 in the code             *)
  Requests      (* records [startPos, transferLength, size]; a size of     *)
                (* Missing is a file that does not exist                   *)

Missing == -1
Blank   == -1

ASSUME BufferSizeAssumption == BUFFERSIZE \in Nat \ {0}
ASSUME RequestsAssumption ==
  Requests \subseteq [startPos : Nat, transferLength : Nat, size : Nat \cup {Missing}]

VARIABLES
  request,      (* startPos and transferLength of the thread, and the file *)
  pc,           (* where run() is                                          *)
  pos,          (* position of the stream dis in the file                  *)
  len,          (* what the last read returned                             *)
  totalLen,     (* the code's count of the bytes read                      *)
  buffer,       (* content of the buffer: file positions                   *)
  sent          (* bytes written to the socket so far                      *)

vars == <<request, pc, pos, len, totalLen, buffer, sent>>

Init ==
  /\ request \in Requests
  /\ pc = "open"
  /\ pos = 0
  /\ len = 0
  /\ totalLen = 0
  /\ buffer = [k \in 1..BUFFERSIZE |-> Blank]
  /\ sent = <<>>

-----------------------------------------------------------------------------
(* Mutants, for the runs that show that the properties can fail.           *)
ReadResultUnbounded(p) == IF p >= request.size THEN -1 ELSE request.size - p
BufferOneAhead(p) == [k \in 1..BUFFERSIZE |-> IF p + k < request.size THEN p + k ELSE buffer[k]]
PrefixWhole(buf, n) == [k \in 1..n |-> buf[BUFFERSIZE - n + k]]
CopyingToEnd == len # -1
CopyingLess == len # -1 /\ totalLen < request.transferLength - 1

(* BufferedInputStream.read(buffer) on a file: a full buffer or whatever   *)
(* is left, -1 at the end of the file.                                     *)
ReadResult(p) ==
  IF p >= request.size THEN -1
  ELSE IF request.size - p < BUFFERSIZE THEN request.size - p ELSE BUFFERSIZE

BufferAfterRead(p) ==
  [k \in 1..BUFFERSIZE |-> IF k <= ReadResult(p) THEN p + k - 1 ELSE buffer[k]]

Prefix(buf, n) == [k \in 1..n |-> buf[k]]

(* FileInputStream and skip.  When the file is missing, dis is still null  *)
(* in the finally block: dis.close() throws and the socket is not closed.  *)
Open ==
  /\ pc = "open"
  /\ pc' = IF request.size = Missing THEN "leaked" ELSE "first"
  /\ pos' = request.startPos
  /\ UNCHANGED <<request, len, totalLen, buffer, sent>>

(* The first read, and the whole of a segment shorter than the buffer. *)
FirstRead ==
  LET r     == ReadResult(pos)
      n     == IF r < request.transferLength THEN r ELSE request.transferLength
      short == request.transferLength < BUFFERSIZE
  IN
  /\ pc = "first"
  /\ buffer' = BufferAfterRead(pos)
  /\ pos' = IF r = -1 THEN pos ELSE pos + r
  /\ \/ /\ ~short
        /\ len' = r
        /\ totalLen' = r
        /\ pc' = "loop"
        /\ UNCHANGED sent
     \/ /\ short
        /\ n >= 0
        /\ sent' = sent \o Prefix(buffer', n)
        /\ len' = -1
        /\ totalLen' = request.transferLength + len'
        /\ pc' = "loop"
     \/ /\ short
        /\ n < 0                    \* write(buffer, 0, -1) throws
        /\ len' = r
        /\ pc' = "aborted"
        /\ UNCHANGED <<totalLen, sent>>
  /\ UNCHANGED request

Copying == len # -1 /\ totalLen <= request.transferLength

(* One iteration of the while loop. *)
CopyChunk ==
  LET r == ReadResult(pos) IN
  /\ pc = "loop"
  /\ Copying
  /\ sent' = sent \o Prefix(buffer, len)
  /\ buffer' = BufferAfterRead(pos)
  /\ len' = r
  /\ \/ /\ r < 0
        /\ pc' = "rest"
        /\ UNCHANGED <<pos, totalLen>>
     \/ /\ r >= 0
        /\ pos' = pos + r
        /\ totalLen' = totalLen + r
        /\ UNCHANGED pc
  /\ UNCHANGED request

(* After the loop: what the buffer still holds of the segment is written,  *)
(* the streams and the socket are closed.  More than a buffer cannot be    *)
(* written: the write throws, and the finally block closes the socket.     *)
SendRest ==
  LET counted == IF totalLen > request.transferLength THEN totalLen - len ELSE totalLen
      rest    == request.transferLength - counted
  IN
  /\ pc = "rest" \/ (pc = "loop" /\ ~Copying)
  /\ IF rest <= BUFFERSIZE
     THEN /\ sent' = sent \o Prefix(buffer, rest)
          /\ totalLen' = counted + rest
          /\ pc' = "closed"
     ELSE /\ pc' = "aborted"
          /\ totalLen' = counted
          /\ UNCHANGED sent
  /\ UNCHANGED <<request, pos, len, buffer>>

(* A write fails because the client is gone: caught, everything is closed. *)
ClientGone ==
  /\ pc \in {"first", "loop", "rest"}
  /\ pc' = "aborted"
  /\ UNCHANGED <<request, pos, len, totalLen, buffer, sent>>

Ended == pc \in {"closed", "aborted", "leaked"}

Done == Ended /\ UNCHANGED vars

Next == Open \/ FirstRead \/ CopyChunk \/ SendRest \/ ClientGone \/ Done

(* The thread runs until it ends. *)
Spec == Init /\ [][Next]_vars /\ WF_vars(Open \/ FirstRead \/ CopyChunk \/ SendRest)

-----------------------------------------------------------------------------
TypeOK ==
  /\ request \in Requests
  /\ pc \in {"open", "first", "loop", "rest", "closed", "aborted", "leaked"}
  /\ pos \in Nat
  /\ len \in -1..BUFFERSIZE
  /\ totalLen \in Int
  /\ buffer \in [1..BUFFERSIZE -> Nat \cup {Blank}]
  /\ sent \in Seq(Nat \cup {Blank})

(* The n bytes of the file that begin at position s. *)
Segment(s, n) == [k \in 1..n |-> s + k - 1]

(* The file still holds every byte the request asks for. *)
Covered(r) == r.startPos + r.transferLength <= r.size

(* The client asked for transferLength bytes from startPos on and gets at  *)
(* least those, first and in order, when the thread ends normally: the     *)
(* copy loop loses and repeats nothing at the boundaries of its buffer.    *)
SegmentDelivered ==
  (pc = "closed" /\ Covered(request)) =>
    /\ Len(sent) >= request.transferLength
    /\ \A k \in 1..request.transferLength : sent[k] = request.startPos + k - 1

(* A thread that ends normally has written transferLength bytes, no more   *)
(* and no less, whatever the file holds by then (the loop and its last     *)
(* write are there to send "the data smaller than BUFFERSIZE" that is      *)
(* left).                                                                  *)
ExactLength == pc = "closed" => Len(sent) = request.transferLength

(* What the copy loop maintains, for a file that holds the whole segment:  *)
(* the stream is totalLen bytes past startPos, the buffer holds the last   *)
(* len of them, and everything before those is sent.  A segment shorter    *)
(* than the buffer is sent at once, and then counted one byte short.       *)
LoopInvariant ==
  Covered(request) =>
    LET start  == request.startPos
        length == request.transferLength
        long   == length >= BUFFERSIZE
    IN
    /\ pc \in {"open", "first"} => sent = <<>>
    /\ pc = "first" => pos = start
    /\ (pc = "loop" /\ long) =>
         /\ len \in 1..BUFFERSIZE
         /\ totalLen - len \in 0..length
         /\ pos = start + totalLen
         /\ pos <= request.size
         /\ \A k \in 1..len : buffer[k] = pos - len + k - 1
         /\ sent = Segment(start, totalLen - len)
    /\ (pc = "loop" /\ ~long) =>
         /\ len = -1
         /\ totalLen = length - 1
         /\ sent = Segment(start, length)
    /\ pc = "rest" =>
         /\ long
         /\ totalLen = length
         /\ sent = Segment(start, length)
    /\ (pc = "closed" /\ long) => sent = Segment(start, length)
    /\ (pc = "closed" /\ ~long) => sent = Segment(start, length) \o Prefix(buffer, 1)

(* The thread is a SegmentStream: its refinement mapping. *)
Outcome ==
  CASE pc = "closed"  -> "complete"
    [] pc = "aborted" -> "aborted"
    [] OTHER          -> "sending"

Stream == INSTANCE SegmentStream WITH
            start <- request.startPos, count <- request.transferLength,
            outcome <- Outcome

(* For a request of at least a buffer the thread keeps the promise of      *)
(* SegmentStream at every step.                                            *)
ImplementsStream == Stream!Spec
=============================================================================
