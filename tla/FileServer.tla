----------------------------- MODULE FileServer -----------------------------
(***************************************************************************)
(* The server of MTTransfer (mt_tcp.server): one thread accepts the        *)
(* connections and reads the request of each (MainAcceptThread), and a     *)
(* thread for each connection answers it: with the length of the file      *)
(* (FileLengthFeedBackThread), a list of files (SendBackFileList) or a     *)
(* segment of the file (TransferThreadServer, whose copy loop is the       *)
(* module of that name: here its bytes are put on the connection).         *)
(***************************************************************************)
EXTENDS Connections

CONSTANTS
  NoConn,
  Sizes,        (* the sizes of the file that is asked for                 *)
  ReadErrors    (* may the server fail to read the file while it sends it? *)

(* The length the server answers for a file that does not exist. *)
Missing == -1

ASSUME FileServerAssumption ==
  Sizes \subseteq Nat \cup {Missing} /\ ReadErrors \in BOOLEAN /\ NoConn \notin Conns

VARIABLES
  size,         (* of the file: it does not change                         *)
  accepting,    (* where acceptConnection() is                             *)
  conn,         (* the connection it handles                               *)
  startPos,     (* of the segment it is asked for                          *)
  worker,       (* the thread of each connection                           *)
  unsent        (* what a TransferThreadServer has not written yet         *)

serverVars == <<size, accepting, conn, startPos, worker, unsent>>

ServerInit ==
  /\ size \in Sizes
  /\ accepting = "accept"
  /\ conn = NoConn
  /\ startPos = 0
  /\ worker = [c \in Conns |-> "none"]
  /\ unsent = [c \in Conns |-> <<>>]

-----------------------------------------------------------------------------
(* Mutant: the last byte is not sent. *)
SegmentBytesButLast(start, length) == [k \in 1..(length - 1) |-> Byte(start + k - 1)]

(* The bytes a TransferThreadServer writes: those of the segment, and its  *)
(* first byte again when the segment is shorter than the buffer.  The read *)
(* of an empty file returns -1 and the thread writes nothing.              *)
SegmentBytes(start, length) ==
  LET segment == [k \in 1..length |-> Byte(start + k - 1)] IN
  IF size = 0 THEN <<>>
  ELSE IF length < BUFFERSIZE THEN Append(segment, Byte(start)) ELSE segment

AcceptConnection ==
  /\ accepting = "accept" /\ listening
  /\ \E c \in Conns : Accept(c) /\ conn' = c
  /\ accepting' = "request"
  /\ UNCHANGED <<size, startPos, worker, unsent>>

(* The acceptor reads the request.  One it does not know is not answered   *)
(* and its connection stays open.                                          *)
ReadRequest ==
  /\ accepting = "request" /\ serverEnd[conn] = "open"
  /\ \E n \in ReadSizes(toServer[conn]) :
       LET request == IF n = 1 THEN toServer[conn][1].kind ELSE "unknown" IN
       /\ ServerGets(conn, n)
       /\ \/ /\ request = "GetFileLength"
             /\ ServerSends(conn, <<Text("done")>>)
             /\ worker' = [worker EXCEPT ![conn] = "name"]
             /\ accepting' = "accept"
          \/ /\ request = "Transfer"
             /\ ServerSends(conn, <<Text("done")>>)
             /\ accepting' = "name"
             /\ UNCHANGED worker
          \/ /\ request = "Filelist"
             /\ worker' = [worker EXCEPT ![conn] = "dir"]
             /\ accepting' = "accept"
             /\ UNCHANGED toClient
          \/ /\ request \notin {"GetFileLength", "Transfer", "Filelist"}
             /\ accepting' = "accept"
             /\ UNCHANGED <<toClient, worker>>
  /\ UNCHANGED <<listening, backlog, clientEnd, serverEnd, size, conn, startPos, unsent>>

(* The rest of a Transfer request: the name of the file, the position and  *)
(* the length of the segment, each acknowledged.                           *)
ReadName ==
  /\ accepting = "name" /\ serverEnd[conn] = "open"
  /\ \E n \in ReadSizes(toServer[conn]) : ServerGets(conn, n)
  /\ ServerSends(conn, <<Text("done")>>)
  /\ accepting' = "startPos"
  /\ UNCHANGED <<listening, backlog, clientEnd, serverEnd, size, conn, startPos, worker, unsent>>

ReadStartPos ==
  /\ accepting = "startPos" /\ serverEnd[conn] = "open"
  /\ \E n \in ReadSizes(toServer[conn]) : ServerGets(conn, n)
  /\ startPos' = toServer[conn][1].value
  /\ ServerSends(conn, <<Text("done")>>)
  /\ accepting' = "length"
  /\ UNCHANGED <<listening, backlog, clientEnd, serverEnd, size, conn, worker, unsent>>

ReadLength ==
  /\ accepting = "length" /\ serverEnd[conn] = "open"
  /\ \E n \in ReadSizes(toServer[conn]) : ServerGets(conn, n)
  /\ ServerSends(conn, <<Text("done")>>)
  /\ worker' = [worker EXCEPT ![conn] = "sending"]
  /\ unsent' = [unsent EXCEPT ![conn] = SegmentBytes(startPos, toServer[conn][1].value)]
  /\ accepting' = "accept"
  /\ UNCHANGED <<listening, backlog, clientEnd, serverEnd, size, conn, startPos>>

Handshaking == accepting \in {"request", "name", "startPos", "length"}

(* Mutant: the exception is not caught. *)
HandshakeThrows ==
  /\ Handshaking /\ serverEnd[conn] = "reset"
  /\ accepting' = "dead"
  /\ UNCHANGED <<connVars, size, conn, startPos, worker, unsent>>

(* A read or write throws IOException: it is caught, the loop goes on. *)
HandshakeFails ==
  /\ Handshaking /\ serverEnd[conn] = "reset"
  /\ accepting' = "accept"
  /\ UNCHANGED <<connVars, size, conn, startPos, worker, unsent>>

(* The client has gone: a read returns -1, new String(buffer, 0, -1)       *)
(* throws, and nothing catches it.                                         *)
HandshakeAtEnd ==
  /\ Handshaking /\ serverEnd[conn] = "open" /\ ServerAtEnd(conn)
  /\ accepting' = "dead"
  /\ UNCHANGED <<connVars, size, conn, startPos, worker, unsent>>

(* Mutant: isshutdown is only looked at when accept returns. *)
AcceptorWaits ==
  /\ accepting = "accept" /\ ~listening /\ backlog # <<>>
  /\ accepting' = "ended"
  /\ UNCHANGED <<connVars, size, conn, startPos, worker, unsent>>

(* The loop sees isshutdown, or accept throws because stop() closed the    *)
(* server socket.                                                          *)
AcceptorEnds ==
  /\ accepting = "accept" /\ ~listening
  /\ accepting' = "ended"
  /\ UNCHANGED <<connVars, size, conn, startPos, worker, unsent>>

(* stop(): isshutdown is set and the server socket closed.  (isshutdown is *)
(* true exactly when ~listening.)                                          *)
Stop ==
  /\ listening
  /\ CloseListener
  /\ UNCHANGED serverVars

AcceptorStep ==
  \/ AcceptConnection \/ ReadRequest \/ ReadName \/ ReadStartPos \/ ReadLength
  \/ HandshakeFails \/ HandshakeAtEnd \/ AcceptorEnds
-----------------------------------------------------------------------------
(* FileLengthFeedBackThread: reads the name, answers with the length, and  *)
(* waits until the client has it.                                          *)
SendLength(c) ==
  /\ worker[c] = "name" /\ serverEnd[c] = "open"
  /\ \E n \in ReadSizes(toServer[c]) : ServerGets(c, n)
  /\ ServerSends(c, <<Message("length", size)>>)
  /\ worker' = [worker EXCEPT ![c] = "confirm"]
  /\ UNCHANGED <<listening, backlog, clientEnd, serverEnd, size, accepting, conn, startPos, unsent>>

Confirmed(c) ==
  /\ worker[c] = "confirm" /\ serverEnd[c] = "open"
  /\ \E n \in ReadSizes(toServer[c]) : ServerGets(c, n)
  /\ ServerCloses(c)
  /\ worker' = [worker EXCEPT ![c] = "over"]
  /\ UNCHANGED <<listening, backlog, clientEnd, toClient, size, accepting, conn, startPos, unsent>>

(* Mutant: the socket is not closed. *)
SendFilelistOpen(c) ==
  /\ worker[c] = "dir" /\ serverEnd[c] = "open"
  /\ \E n \in ReadSizes(toServer[c]) : ServerGets(c, n)
  /\ ServerSends(c, <<Text("names")>>)
  /\ worker' = [worker EXCEPT ![c] = "over"]
  /\ UNCHANGED <<listening, backlog, clientEnd, serverEnd, size, accepting, conn, startPos, unsent>>

(* SendBackFileList: reads the directory and sends what is in it. *)
SendFilelist(c) ==
  /\ worker[c] = "dir" /\ serverEnd[c] = "open"
  /\ \E n \in ReadSizes(toServer[c]) : ServerGets(c, n)
  /\ ServerSends(c, <<Text("names")>>)
  /\ ServerCloses(c)
  /\ worker' = [worker EXCEPT ![c] = "over"]
  /\ UNCHANGED <<listening, backlog, clientEnd, size, accepting, conn, startPos, unsent>>

(* TransferThreadServer: some bytes of the segment leave its buffers. *)
SendBytes(c) ==
  LET n == IF Len(unsent[c]) < BUFFERSIZE THEN Len(unsent[c]) ELSE BUFFERSIZE IN
  /\ worker[c] = "sending" /\ serverEnd[c] = "open"
  /\ n > 0
  /\ ServerSends(c, Taken(unsent[c], n))
  /\ unsent' = [unsent EXCEPT ![c] = Left(@, n)]
  /\ UNCHANGED <<listening, backlog, clientEnd, serverEnd, toServer,
                 size, accepting, conn, startPos, worker>>

(* Mutant: the socket is not closed. *)
WorkerEndsOpen(c) ==
  /\ worker' = [worker EXCEPT ![c] = "over"]
  /\ unsent' = [unsent EXCEPT ![c] = <<>>]
  /\ UNCHANGED <<connVars, size, accepting, conn, startPos>>

WorkerEnds(c) ==
  /\ ServerCloses(c)
  /\ worker' = [worker EXCEPT ![c] = "over"]
  /\ unsent' = [unsent EXCEPT ![c] = <<>>]
  /\ UNCHANGED <<listening, backlog, clientEnd, toServer, toClient,
                 size, accepting, conn, startPos>>

SendOver(c) ==
  /\ worker[c] = "sending" /\ serverEnd[c] = "open"
  /\ unsent[c] = <<>>
  /\ WorkerEnds(c)

(* Reading the file fails: the thread closes the connection as if it had   *)
(* sent everything.                                                        *)
SendAborts(c) ==
  /\ ReadErrors
  /\ worker[c] = "sending" /\ serverEnd[c] = "open"
  /\ unsent[c] # <<>>
  /\ WorkerEnds(c)

(* The client has gone, or the connection broke: the thread ends, and      *)
(* closes its socket.                                                      *)
WorkerFails(c) ==
  /\ worker[c] \in {"name", "confirm", "dir", "sending"}
  /\ serverEnd[c] = "reset" \/ ServerAtEnd(c)
  /\ WorkerEnds(c)

WorkerStep(c) ==
  \/ SendLength(c) \/ Confirmed(c) \/ SendFilelist(c)
  \/ SendBytes(c) \/ SendOver(c) \/ SendAborts(c) \/ WorkerFails(c)
=============================================================================
