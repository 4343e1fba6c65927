----------------------------- MODULE MTTransfer -----------------------------
(***************************************************************************)
(* MTTransfer as a whole: a server, a client that downloads a file, and a  *)
(* user who asks for a list of files, over connections that may break.     *)
(***************************************************************************)
EXTENDS FileServer, FileClient

allVars == <<vars, connVars, serverVars, clientVars>>

SysInit == ConnInit /\ ServerInit /\ ClientInit

ClientStep ==
  MainRuns \/ AcksRuns \/ AskStep \/ (\E t \in Threads : TransferStep(t)) \/ ListStep

(* What the users and the network may do, and need not.                    *)
UserStep == StartListing \/ Quit

SysNext ==
  \/ AcceptorStep /\ UNCHANGED <<vars, clientVars>>
  \/ \E c \in Conns : WorkerStep(c) /\ UNCHANGED <<vars, clientVars>>
  \/ ClientStep /\ UNCHANGED serverVars
  \/ UserStep /\ UNCHANGED serverVars
  \/ Stop /\ UNCHANGED <<vars, clientVars>>
  \/ \E c \in Conns : ConnectionLost(c) /\ UNCHANGED <<vars, serverVars, clientVars>>

(* Every thread runs: the acceptor, the workers, connect() with Acks, the  *)
(* transfer threads and GetFilelist.                                       *)
SysFairness ==
  /\ WF_allVars(AcceptorStep /\ UNCHANGED <<vars, clientVars>>)
  /\ \A c \in Conns : WF_allVars(WorkerStep(c) /\ UNCHANGED <<vars, clientVars>>)
  /\ WF_allVars(MainRuns /\ UNCHANGED serverVars)
  /\ WF_allVars(AcksRuns /\ UNCHANGED serverVars)
  /\ WF_allVars(AskStep /\ UNCHANGED serverVars)
  /\ \A t \in Threads : WF_allVars(TransferStep(t) /\ UNCHANGED serverVars)
  /\ WF_allVars(ListStep /\ UNCHANGED serverVars)

Spec == SysInit /\ [][SysNext]_allVars /\ SysFairness

-----------------------------------------------------------------------------
TypeOK ==
  /\ listening \in BOOLEAN
  /\ Len(backlog) <= Backlog /\ \A k \in DOMAIN backlog : serverEnd[backlog[k]] = "queued"
  /\ clientEnd \in [Conns -> {"none", "open", "closed", "reset"}]
  /\ serverEnd \in [Conns -> {"none", "queued", "open", "closed", "reset"}]
  /\ size \in Sizes
  /\ accepting \in {"accept", "request", "name", "startPos", "length", "ended", "dead"}
  /\ conn \in Conns \cup {NoConn}
  /\ worker \in [Conns -> {"none", "name", "confirm", "dir", "sending", "over"}]
  /\ asking \in {"connect", "acknowledged", "answer", "over"}
  /\ transfer \in [Threads -> {"connect", "name", "startPos", "length", "seek", "receive"}]
  /\ dest \in [Positions -> Nat \cup {Hole}]
  /\ listing \in {"idle", "connect", "dir", "answer", "shown", "failed"}

(* The messages of a connection never run ahead of its two ends: the       *)
(* acceptor is at the step of the handshake that the client's last         *)
(* message, or the one it is about to send, is meant for, so that a        *)
(* position is never taken for a name or for a length.                     *)
HandshakeInStep ==
  \A t \in Threads :
    (conn = t /\ serverEnd[t] = "open" /\ toServer[t] # <<>>) =>
      CASE accepting = "request"  -> toServer[t][1].kind = "Transfer"
        [] accepting = "name"     -> toServer[t][1].kind = "name"
        [] accepting = "startPos" -> toServer[t][1].kind = "startPos"
        [] accepting = "length"   -> toServer[t][1].kind = "length"
        [] OTHER -> TRUE

(* The bytes a thread writes come from the file and go where they belong,  *)
(* however the threads interleave: "read the data and write it to the      *)
(* file" (TransferThreadClient.transfer).                                  *)
DestIsFile ==
  \A p \in Positions : dest[p] # Hole => dest[p] = p /\ p < size

(* The download is over: connect() has returned and no thread runs.        *)
Outcome ==
  IF main = "returned" /\ fileLength # FileNotExist /\ Alive = {}
  THEN IF \A t \in Started : status[t] = "ended" THEN "complete" ELSE "incomplete"
  ELSE "running"

Download == INSTANCE FileCopy WITH outcome <- Outcome

(* The client, the server and the threads of both, together are a copy of  *)
(* the file; it is complete if no thread failed.                           *)
ImplementsCopy == Download!Spec

(* The acceptor dies only if a client went away in a handshake. *)
AcceptorDiesOfQuit == accepting = "dead" => quit

(* A user who asks for a list gets one, or is told that it failed. *)
ListerAnswered == listing = "connect" ~> listing \in {"shown", "failed"}

(* connect() comes back, with a result or an exception. *)
ConnectReturns == <>(main \in {"returned", "threw"})

(* stop() ends the accepting thread, wherever it is. *)
StopEndsAcceptor == ~listening ~> accepting \in {"ended", "dead"}
=============================================================================
