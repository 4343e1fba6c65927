----------------------------- MODULE Connections -----------------------------
(***************************************************************************)
(* The TCP connections between the clients and the server of MTTransfer,   *)
(* as java.net.Socket and ServerSocket show them: a connection waits in    *)
(* the queue of the server socket until it is accepted; each direction is  *)
(* a stream that keeps the order of what is written but not its            *)
(* boundaries, so that one read may return several writes.                 *)
(*                                                                         *)
(* A stream is a sequence of messages: a text of the protocol, which is    *)
(* short enough to arrive in one piece, or one byte of a file, identified  *)
(* by its position.                                                        *)
(***************************************************************************)
EXTENDS Integers, Sequences, FiniteSets

CONSTANTS
  Conns,        (* the connections, each named for the client that opens it *)
  BUFFERSIZE,   (* what one read takes at most, 1024 bytes in the code     *)
  Backlog,      (* what the server socket queues at most, 50 in the code   *)
  Coalesce,     (* may a read return a text and what was written after it? *)
  MaxLost       (* bound: so many connections may break                    *)

ASSUME ConnectionsAssumption ==
  /\ BUFFERSIZE \in Nat \ {0} /\ Backlog \in Nat \ {0} /\ MaxLost \in Nat
  /\ Coalesce \in BOOLEAN

VARIABLES
  listening,    (* the server socket is open                               *)
  backlog,      (* the connections that wait to be accepted                *)
  clientEnd,    (* the two sockets of each connection                      *)
  serverEnd,
  toServer,     (* what is written and not read                            *)
  toClient

connVars == <<listening, backlog, clientEnd, serverEnd, toServer, toClient>>

Message(kind, value) == [kind |-> kind, value |-> value]
Text(kind) == Message(kind, 0)
Byte(p) == Message("byte", p)

ConnInit ==
  /\ listening = TRUE
  /\ backlog = <<>>
  /\ clientEnd = [c \in Conns |-> "none"]
  /\ serverEnd = [c \in Conns |-> "none"]
  /\ toServer = [c \in Conns |-> <<>>]
  /\ toClient = [c \in Conns |-> <<>>]

-----------------------------------------------------------------------------
(* How many messages a read of the stream q may return. *)
ReadSizes(q) ==
  IF q # <<>> /\ ~Coalesce /\ Head(q).kind # "byte"
  THEN {1}
  ELSE {n \in 1..Len(q) : n <= BUFFERSIZE}

Taken(q, n) == SubSeq(q, 1, n)
Left(q, n) == SubSeq(q, n + 1, Len(q))

ClientGets(c, n) == toClient' = [toClient EXCEPT ![c] = Left(@, n)]
ServerGets(c, n) == toServer' = [toServer EXCEPT ![c] = Left(@, n)]

ClientSends(c, m) == toServer' = [toServer EXCEPT ![c] = Append(@, m)]
ServerSends(c, q) == toClient' = [toClient EXCEPT ![c] = @ \o q]

(* A read returns -1: the other end is closed and all it wrote is read. *)
ClientAtEnd(c) == serverEnd[c] = "closed" /\ toClient[c] = <<>>
ServerAtEnd(c) == clientEnd[c] = "closed" /\ toServer[c] = <<>>

(* new Socket(hostname, port), and the first text the client writes.  A    *)
(* full queue makes the client wait.                                       *)
Connect(c, m) ==
  /\ listening /\ Len(backlog) < Backlog
  /\ clientEnd[c] = "none"
  /\ backlog' = Append(backlog, c)
  /\ clientEnd' = [clientEnd EXCEPT ![c] = "open"]
  /\ serverEnd' = [serverEnd EXCEPT ![c] = "queued"]
  /\ ClientSends(c, m)
  /\ UNCHANGED <<listening, toClient>>

Refused(c) == ~listening /\ clientEnd[c] = "none"

(* ServerSocket.accept returns connection c. *)
Accept(c) ==
  /\ backlog # <<>> /\ c = Head(backlog)
  /\ backlog' = Tail(backlog)
  /\ serverEnd' = [serverEnd EXCEPT ![c] = "open"]
  /\ UNCHANGED <<listening, clientEnd, toServer, toClient>>

(* The connections of C break: reads and writes at either end throw. *)
Reset(C) ==
  /\ clientEnd' = [c \in Conns |-> IF c \in C THEN "reset" ELSE clientEnd[c]]
  /\ serverEnd' = [c \in Conns |-> IF c \in C THEN "reset" ELSE serverEnd[c]]
  /\ toServer' = [c \in Conns |-> IF c \in C THEN <<>> ELSE toServer[c]]
  /\ toClient' = [c \in Conns |-> IF c \in C THEN <<>> ELSE toClient[c]]

(* Mutant: what was queued stays in the queue. *)
CloseListenerOnly ==
  /\ listening' = FALSE
  /\ Reset({c \in Conns : serverEnd[c] = "queued" /\ clientEnd[c] = "open"})
  /\ UNCHANGED backlog

(* ServerSocket.close: what was not accepted is refused. *)
CloseListener ==
  /\ listening' = FALSE
  /\ backlog' = <<>>
  /\ Reset({c \in Conns : serverEnd[c] = "queued" /\ clientEnd[c] = "open"})

ServerCloses(c) == serverEnd' = [serverEnd EXCEPT ![c] = IF @ = "open" THEN "closed" ELSE @]
ClientCloses(C) == clientEnd' = [c \in Conns |-> IF c \in C /\ clientEnd[c] = "open"
                                                 THEN "closed" ELSE clientEnd[c]]

(* The environment: an accepted connection breaks. *)
ConnectionLost(c) ==
  /\ clientEnd[c] = "open" /\ serverEnd[c] = "open"
  /\ Cardinality({d \in Conns : clientEnd[d] = "reset"}) < MaxLost
  /\ Reset({c})
  /\ UNCHANGED <<listening, backlog>>
==============================================================================
