----------------------------- MODULE FileClient -----------------------------
(***************************************************************************)
(* The client of MTTransfer (mt_tcp.client): connect() asks the server for *)
(* the length of the file and starts the transfer threads (MClientMain);   *)
(* each thread (TransferThreadClient) asks for its segment in four         *)
(* messages, waiting for an acknowledgement after each, and writes what it *)
(* receives to the destination file from startPos on; and another user     *)
(* asks for a list of files (GetFilelist).                                 *)
(***************************************************************************)
EXTENDS MClientMain, Connections

CONSTANTS
  Positions,    (* the bytes of the destination file that are looked at    *)
  MayQuit       (* may the user close the client during a download?        *)

(* The connection of a transfer thread bears the thread's name. *)
Asker  == -2    (* the connection of MClientMain itself                    *)
Lister == -3    (* the connection of GetFilelist                           *)

ASSUME FileClientAssumption ==
  /\ Conns = Threads \cup {Asker, Lister}
  /\ Positions \subseteq Nat /\ MayQuit \in BOOLEAN

Hole == -1

VARIABLES
  asking,       (* where getFileLengthFromServer() is                      *)
  transfer,     (* where each transfer thread is                           *)
  filePointer,  (* of each thread's RandomAccessFile                       *)
  dest,         (* the destination file: the byte at each position         *)
  listing,      (* where GetFilelist.run() is                              *)
  quit          (* the user has closed the client                          *)

clientVars == <<asking, transfer, filePointer, dest, listing, quit>>

ClientInit ==
  /\ Init
  /\ asking = "connect"
  /\ transfer = [t \in Threads |-> "connect"]
  /\ filePointer = [t \in Threads |-> 0]
  /\ dest = [p \in Positions |-> Hole]
  /\ listing = "idle"
  /\ quit = FALSE

ClientLost(c) == clientEnd[c] = "reset" \/ Refused(c)

-----------------------------------------------------------------------------
(* connect() and Acks, between the messages. *)
MainRuns == ~quit /\ MainStep /\ UNCHANGED <<connVars, clientVars>>
AcksRuns == ~quit /\ AcksStep /\ UNCHANGED <<connVars, clientVars>>

AskConnect ==
  /\ ~quit /\ asking = "connect"
  /\ Connect(Asker, Text("GetFileLength"))
  /\ asking' = "acknowledged"
  /\ UNCHANGED <<vars, transfer, filePointer, dest, listing, quit>>

AskName ==
  /\ ~quit /\ asking = "acknowledged"
  /\ \E n \in ReadSizes(toClient[Asker]) : ClientGets(Asker, n)
  /\ ClientSends(Asker, Text("name"))
  /\ asking' = "answer"
  /\ UNCHANGED <<vars, listening, backlog, clientEnd, serverEnd,
                 transfer, filePointer, dest, listing, quit>>

AskAnswer ==
  /\ ~quit /\ asking = "answer"
  /\ \E n \in ReadSizes(toClient[Asker]) : ClientGets(Asker, n)
  /\ LengthReceived(toClient[Asker][1].value)
  /\ ClientSends(Asker, Text("Got length"))
  /\ asking' = "over"
  /\ UNCHANGED <<listening, backlog, clientEnd, serverEnd,
                 transfer, filePointer, dest, listing, quit>>

AskFails ==
  /\ ~quit /\ asking # "over" /\ ClientLost(Asker)
  /\ LengthFailed
  /\ asking' = "over"
  /\ UNCHANGED <<connVars, transfer, filePointer, dest, listing, quit>>

AskStep == AskConnect \/ AskName \/ AskAnswer \/ AskFails
-----------------------------------------------------------------------------
Running(t) == ~quit /\ status[t] = "running"

TransferConnect(t) ==
  /\ Running(t) /\ transfer[t] = "connect"
  /\ Connect(t, Text("Transfer"))
  /\ transfer' = [transfer EXCEPT ![t] = "name"]
  /\ UNCHANGED <<vars, asking, filePointer, dest, listing, quit>>

(* What a thread sends when it has read an acknowledgement, and what then. *)
Reply(t) ==
  CASE transfer[t] = "name"     -> Text("name")
    [] transfer[t] = "startPos" -> Message("startPos", segment[t].startPos)
    [] transfer[t] = "length"   -> Message("length", segment[t].transferLength)

(* Mutant: the position is not sent. *)
AfterSkips(step) == IF step = "name" THEN "length" ELSE "seek"

After(step) ==
  CASE step = "name"     -> "startPos"
    [] step = "startPos" -> "length"
    [] step = "length"   -> "seek"

TransferAsk(t) ==
  /\ Running(t) /\ transfer[t] \in {"name", "startPos", "length"}
  /\ \E n \in ReadSizes(toClient[t]) : ClientGets(t, n)
  /\ ClientSends(t, Reply(t))
  /\ transfer' = [transfer EXCEPT ![t] = After(@)]
  /\ UNCHANGED <<vars, listening, backlog, clientEnd, serverEnd,
                 asking, filePointer, dest, listing, quit>>

(* The last acknowledgement: all that the read returns is thrown away. *)
TransferSeek(t) ==
  /\ Running(t) /\ transfer[t] = "seek"
  /\ \E n \in ReadSizes(toClient[t]) : ClientGets(t, n)
  /\ filePointer' = [filePointer EXCEPT ![t] = segment[t].startPos]
  /\ transfer' = [transfer EXCEPT ![t] = "receive"]
  /\ UNCHANGED <<vars, listening, backlog, clientEnd, serverEnd, toServer,
                 asking, dest, listing, quit>>

(* A buffer full of data is written to the file. *)
TransferReceive(t) ==
  /\ Running(t) /\ transfer[t] = "receive"
  /\ \E n \in ReadSizes(toClient[t]) :
       /\ ClientGets(t, n)
       /\ dest' = [p \in Positions |->
                     IF p \in filePointer[t]..(filePointer[t] + n - 1)
                     THEN toClient[t][p - filePointer[t] + 1].value
                     ELSE dest[p]]
       /\ filePointer' = [filePointer EXCEPT ![t] = @ + n]
  /\ UNCHANGED <<vars, listening, backlog, clientEnd, serverEnd, toServer,
                 asking, transfer, listing, quit>>

(* A read returns -1: the thread takes this for the end of its segment. *)
TransferOver(t) ==
  /\ Running(t) /\ transfer[t] = "receive" /\ ClientAtEnd(t)
  /\ ThreadEnds(t, "ended")
  /\ ClientCloses({t})
  /\ UNCHANGED <<listening, backlog, serverEnd, toServer, toClient, clientVars>>

(* The connection is refused or breaks: an exception ends the thread. *)
TransferFails(t) ==
  /\ Running(t) /\ ClientLost(t)
  /\ ThreadEnds(t, "failed")
  /\ UNCHANGED <<connVars, clientVars>>

TransferStep(t) ==
  \/ TransferConnect(t) \/ TransferAsk(t) \/ TransferSeek(t)
  \/ TransferReceive(t) \/ TransferOver(t) \/ TransferFails(t)
-----------------------------------------------------------------------------
(* A user asks for a list of files. *)
StartListing ==
  /\ listing = "idle"
  /\ listing' = "connect"
  /\ UNCHANGED <<vars, connVars, asking, transfer, filePointer, dest, quit>>

(* GetFilelist: the request and the directory are written one after the    *)
(* other, then the answer is read up to the end of the stream (readLine:   *)
(* the list is not ended by a newline).                                    *)
ListConnect ==
  /\ listing = "connect"
  /\ Connect(Lister, Text("Filelist"))
  /\ listing' = "dir"
  /\ UNCHANGED <<vars, asking, transfer, filePointer, dest, quit>>

ListDir ==
  /\ listing = "dir" /\ ~ClientLost(Lister)
  /\ ClientSends(Lister, Text("dir"))
  /\ listing' = "answer"
  /\ UNCHANGED <<vars, listening, backlog, clientEnd, serverEnd, toClient,
                 asking, transfer, filePointer, dest, quit>>

ListAnswer ==
  /\ listing = "answer" /\ serverEnd[Lister] = "closed"
  /\ ClientGets(Lister, Len(toClient[Lister]))
  /\ ClientCloses({Lister})
  /\ listing' = "shown"
  /\ UNCHANGED <<vars, listening, backlog, serverEnd, toServer,
                 asking, transfer, filePointer, dest, quit>>

ListFails ==
  /\ listing \in {"connect", "dir", "answer"} /\ ClientLost(Lister)
  /\ listing' = "failed"
  /\ UNCHANGED <<vars, connVars, asking, transfer, filePointer, dest, quit>>

ListStep == ListConnect \/ ListDir \/ ListAnswer \/ ListFails
-----------------------------------------------------------------------------
(* The user closes the client: its sockets are closed, wherever its        *)
(* threads are.                                                            *)
Quit ==
  /\ MayQuit /\ ~quit
  /\ quit' = TRUE
  /\ ClientCloses(Threads \cup {Asker})
  /\ UNCHANGED <<vars, listening, backlog, serverEnd, toServer, toClient,
                 asking, transfer, filePointer, dest, listing>>
=============================================================================
