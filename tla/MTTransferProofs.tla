-------------------------- MODULE MTTransferProofs --------------------------
(***************************************************************************)
(* Proofs about MTTransfer as a whole, for any number of threads, any      *)
(* sizes of file and buffer, and any number of broken connections: the     *)
(* types, the handshake, what kills the accepting thread, and the copy.    *)
(***************************************************************************)
EXTENDS MTTransfer, SequenceTheorems, TLAPS

(* The client's main thread on its own, and what is proved of it. *)
Plan == INSTANCE DownloadPlanProofs WITH FileLengths <- Sizes

PlanOK == Plan!PlanOK

-----------------------------------------------------------------------------
(* The inductive invariant of the protocol.                                *)

(* The acceptor is at this step with connection c, or it died there. *)
At(c, step) == conn = c /\ accepting \in {step, "dead"}

Streams(c, s, r) == toServer[c] = s /\ toClient[c] = r

Done == <<Text("done")>>

(* Nothing has happened on connection c. *)
Untouched(c) ==
  /\ clientEnd[c] = "none" /\ serverEnd[c] = "none" /\ worker[c] = "none"
  /\ Streams(c, <<>>, <<>>)

(* The request of connection c is on its way. *)
Requested(c, kind) ==
  /\ Streams(c, <<Text(kind)>>, <<>>) /\ worker[c] = "none"
  /\ serverEnd[c] = "queued" \/ (serverEnd[c] = "open" /\ At(c, "request"))

(* The acceptor waits for a message of thread t, or t for its answer. *)
Asked(t, step, m) ==
  /\ serverEnd[t] = "open" /\ worker[t] = "none"
  /\ At(t, step) /\ Streams(t, <<m>>, <<>>)

Acknowledged(t, step) ==
  /\ serverEnd[t] = "open" /\ worker[t] = "none"
  /\ At(t, step) /\ Streams(t, <<>>, Done)

(* The acceptor has handed connection t to a TransferThreadServer. *)
Handed(t) ==
  /\ serverEnd[t] \in {"open", "closed"} /\ worker[t] \in {"sending", "over"}
  /\ toServer[t] = <<>>

StartMessage(t) == Message("startPos", segment[t].startPos)
LengthMessage(t) == Message("length", segment[t].transferLength)

(* Where a transfer thread, the acceptor and their connection are,         *)
(* together.                                                               *)
Stage(t) ==
  \/ transfer[t] = "connect" /\ Untouched(t)
  \/ transfer[t] = "name" /\ (Requested(t, "Transfer") \/ Acknowledged(t, "name"))
  \/ transfer[t] = "startPos" /\ (Asked(t, "name", Text("name")) \/ Acknowledged(t, "startPos"))
  \/ transfer[t] = "length" /\ \/ Asked(t, "startPos", StartMessage(t))
                               \/ Acknowledged(t, "length") /\ startPos = segment[t].startPos
  \/ transfer[t] = "seek" /\ \/ Asked(t, "length", LengthMessage(t)) /\ startPos = segment[t].startPos
                             \/ Handed(t)
  \/ transfer[t] = "receive" /\ Handed(t)

(* The same for the connection that asks for the length. *)
AskStage ==
  \/ asking = "connect" /\ Untouched(Asker)
  \/ asking = "acknowledged" /\ \/ Requested(Asker, "GetFileLength")
                                \/ serverEnd[Asker] = "open" /\ worker[Asker] = "name" /\ Streams(Asker, <<>>, Done)
  \/ asking = "answer" /\ \/ /\ serverEnd[Asker] = "open" /\ worker[Asker] = "name"
                             /\ Streams(Asker, <<Text("name")>>, <<>>)
                          \/ /\ serverEnd[Asker] = "open" /\ worker[Asker] = "confirm"
                             /\ Streams(Asker, <<>>, <<Message("length", size)>>)
  \/ asking = "over"

Lost(c) == serverEnd[c] = "reset"

HandshakeInvariant ==
  /\ \A t \in Threads : Lost(t) \/ Stage(t)
  /\ quit \/ Lost(Asker) \/ AskStage

(* The ends of a connection. *)
EndsInvariant ==
  \A c \in Conns :
    /\ clientEnd[c] = "none" => serverEnd[c] = "none"
    /\ Lost(c) => clientEnd[c] = "reset" /\ toClient[c] = <<>>
    /\ clientEnd[c] = "closed" => quit \/ serverEnd[c] = "closed"

(* The queue of the server socket holds each connection once. *)
QueueInvariant ==
  /\ backlog \in Seq(Conns)
  /\ \A j, k \in DOMAIN backlog : backlog[j] = backlog[k] => j = k

Kinds == {"GetFileLength", "Transfer", "Filelist", "name", "startPos", "length", "Got length",
          "dir", "names", "done", "byte"}
Texts == [kind : Kinds, value : Nat]
Answers == [kind : Kinds, value : Nat \cup {Hole}]

StreamsInvariant ==
  /\ toServer \in [Conns -> Seq(Texts)]
  /\ toClient \in [Conns -> Seq(Answers)]
  /\ unsent \in [Conns -> Seq(Texts)]
  /\ startPos \in Nat
  /\ filePointer \in [Threads -> Nat]
  /\ quit \in BOOLEAN

(* The main thread knows the file, and a thread that is not started does   *)
(* nothing.                                                                *)
ClientInvariant ==
  /\ main \notin {"length", "threw"} => fileLength = size
  /\ \A t \in Threads : status[t] = "new" => transfer[t] = "connect"

(* A connection has a thread of its own only after its handshake.          *)
WorkerInvariant ==
  /\ Handshaking => conn \in Conns /\ worker[conn] = "none" /\ serverEnd[conn] \in {"open", "reset"}
  /\ \A c \in Conns : serverEnd[c] \in {"none", "queued"} => worker[c] = "none"

ProtocolInvariant ==
  /\ PlanOK /\ TypeOK /\ StreamsInvariant /\ QueueInvariant /\ WorkerInvariant
  /\ EndsInvariant /\ HandshakeInvariant /\ ClientInvariant

-----------------------------------------------------------------------------
(* The inductive invariant of the copy.                                    *)

(* Threads whose bytes still count. *)
Live(t) == ~quit /\ status[t] = "running" /\ ~Lost(t)

(* The acknowledgement that is still before the bytes. *)
Ahead(t) == IF transfer[t] = "seek" THEN 1 ELSE 0
NextByte(t) == IF transfer[t] = "seek" THEN segment[t].startPos ELSE filePointer[t]
SegmentEnd(t) == segment[t].startPos + segment[t].transferLength

(* What is on the connection of thread t and in the server's buffers are   *)
(* the bytes of the segment that t has not written, in order.              *)
Flow(t) ==
  LET held == Len(toClient[t]) - Ahead(t) IN
  /\ held \in Nat
  /\ transfer[t] = "seek" => toClient[t][1] = Text("done")
  /\ \A k \in 1..held : toClient[t][Ahead(t) + k] = Byte(NextByte(t) + k - 1)
  /\ \A k \in 1..Len(unsent[t]) : unsent[t][k] = Byte(NextByte(t) + held + k - 1)
  /\ NextByte(t) + held + Len(unsent[t]) = SegmentEnd(t)
  /\ (worker[t] = "over" \/ serverEnd[t] = "closed") => unsent[t] = <<>>

FlowInvariant ==
  \A t \in Threads : Live(t) /\ worker[t] \in {"sending", "over"} => Flow(t)

WrittenInvariant ==
  /\ \A p \in Positions : dest[p] # Hole => dest[p] = p /\ p < size
  /\ \A t \in Threads : transfer[t] = "receive" =>
       \A p \in Positions : (segment[t].startPos <= p /\ p < filePointer[t]) => dest[p] = p
  /\ \A t \in Threads : status[t] = "ended" =>
       transfer[t] = "receive" /\ filePointer[t] = SegmentEnd(t)

(* No thread is asked for anything beyond the end of the file. *)
BoundInvariant == \A t \in Started : SegmentEnd(t) <= size

CopyInvariant == FlowInvariant /\ WrittenInvariant /\ BoundInvariant

(* No thread is asked for less than a buffer: the server sends the first   *)
(* byte of such a segment twice.                                           *)
NoShortSegment ==
  \A t \in Started : size = 0 \/ segment[t].transferLength >= BUFFERSIZE
-----------------------------------------------------------------------------
(* The client in the system is the client that DownloadPlan is about.      *)
LEMMA SizesAreLengths == Sizes \subseteq Nat \cup {Plan!FileNotExist}
BY FileServerAssumption DEF Missing, Plan!FileNotExist

LEMMA PlanInit == SysInit => PlanOK
<1>1. SysInit => Plan!Init
  BY DEF SysInit, ClientInit, Init, Plan!Init, Threads, Plan!Threads, Slots, Plan!Slots, Single, Plan!Single
<1>. QED  BY <1>1, Plan!InitOK, SizesAreLengths, NumberOfThreadsAssumption, MultiThresholdAssumption
       DEF PlanOK

LEMMA PlanStep ==
  ASSUME PlanOK, Plan!Next \/ UNCHANGED vars
  PROVE  PlanOK'
<1>1. Plan!Next \/ UNCHANGED Plan!vars
  BY DEF vars, mainVars, planVars, acksVars, Plan!vars, Plan!mainVars, Plan!planVars, Plan!acksVars
<1>. QED  BY <1>1, Plan!TypeStep, Plan!PlanStep, SizesAreLengths, NumberOfThreadsAssumption,
             MultiThresholdAssumption DEF PlanOK, Plan!PlanOK

LEMMA MainIsPlan == MainStep => Plan!Next
<1>1. BeginSplit => Plan!BeginSplit
  BY DEF BeginSplit, Plan!BeginSplit, planVars, Plan!planVars, acksVars, Plan!acksVars
<1>2. StartNext => Plan!StartNext
  BY DEF StartNext, Plan!StartNext, Start, Plan!Start, perLength, Plan!perLength,
         mainVars, Plan!mainVars, acksVars, Plan!acksVars
<1>3. StartLast => Plan!StartLast
  BY DEF StartLast, Plan!StartLast, Start, Plan!Start, perLength, Plan!perLength
<1>4. StartSingle => Plan!StartSingle
  BY DEF StartSingle, Plan!StartSingle, Start, Plan!Start, Single, Plan!Single
<1>5. JoinReturns => Plan!JoinReturns
  BY DEF JoinReturns, Plan!JoinReturns, planVars, Plan!planVars, acksVars, Plan!acksVars
<1>. QED  BY <1>1, <1>2, <1>3, <1>4, <1>5 DEF MainStep, Plan!MainStep, Plan!Next

LEMMA AcksIsPlan == AcksStep => Plan!Next
<1>1. AcksLook => Plan!AcksLook
  BY DEF AcksLook, Plan!AcksLook, Slots, Plan!Slots, mainVars, Plan!mainVars, planVars, Plan!planVars
<1>2. AcksPassOver => Plan!AcksPassOver
  BY DEF AcksPassOver, Plan!AcksPassOver, Slots, Plan!Slots, mainVars, Plan!mainVars, planVars, Plan!planVars
<1>. QED  BY <1>1, <1>2 DEF AcksStep, Plan!AcksStep, Plan!Next

LEMMA LengthIsPlan == (\E l \in Sizes : LengthReceived(l)) \/ LengthFailed => Plan!Next
<1>1. ASSUME NEW l \in Sizes, LengthReceived(l) PROVE Plan!LengthReceived(l)
  BY <1>1 DEF LengthReceived, Plan!LengthReceived, FileNotExist, Plan!FileNotExist,
              planVars, Plan!planVars, acksVars, Plan!acksVars
<1>2. LengthFailed => Plan!LengthFailed
  BY DEF LengthFailed, Plan!LengthFailed, planVars, Plan!planVars, acksVars, Plan!acksVars
<1>. QED  BY <1>1, <1>2 DEF Plan!Next

LEMMA ThreadIsPlan ==
  ASSUME NEW t \in Threads, NEW how \in {"ended", "failed"}, ThreadEnds(t, how)
  PROVE  Plan!Next
<1>1. Plan!ThreadEnds(t, how) /\ t \in Plan!Threads
  BY DEF ThreadEnds, Plan!ThreadEnds, Threads, Plan!Threads, Slots, Plan!Slots, Single, Plan!Single,
         mainVars, Plan!mainVars, planVars, Plan!planVars, acksVars, Plan!acksVars
<1>. QED  BY <1>1 DEF Plan!Next

-----------------------------------------------------------------------------
(* Streams.                                                                *)
LEMMA ReadSome ==
  ASSUME NEW S, NEW q \in Seq(S), NEW n \in ReadSizes(q)
  PROVE  /\ q # <<>> /\ n \in 1..Len(q) /\ Len(q) \in Nat \ {0} /\ q[1] \in S
         /\ Left(q, n) \in Seq(S) /\ Len(Left(q, n)) = Len(q) - n
         /\ \A k \in 1..(Len(q) - n) : Left(q, n)[k] = q[n + k]
         /\ n <= BUFFERSIZE
<1>1. /\ q # <<>> /\ n \in 1..Len(q) /\ n <= BUFFERSIZE
  BY ConnectionsAssumption DEF ReadSizes
<1>2. Left(q, n) = SubSeq(q, n + 1, Len(q))
  BY DEF Left
<1>. QED  BY <1>1, <1>2

LEMMA ReadOne ==
  ASSUME NEW S, NEW m \in S, NEW n \in ReadSizes(<<m>>)
  PROVE  n = 1 /\ Left(<<m>>, n) = <<>> /\ <<m>>[1] = m
<1>. <<m>> \in Seq(S) /\ Len(<<m>>) = 1 /\ <<m>>[1] = m
  OBVIOUS
<1>1. PICK q : q = <<m>>
  OBVIOUS
<1>2. q \in Seq(S) /\ n \in ReadSizes(q) /\ Len(q) = 1 /\ q[1] = m
  BY <1>1
<1>3. n = 1 /\ Left(q, n) = SubSeq(q, 2, 1)
  BY <1>2 DEF ReadSizes, Left
<1>4. n = 1 /\ Left(q, n) = <<>>
  BY <1>2, <1>3
<1>. QED  BY <1>1, <1>4

LEMMA ReadNone == ReadSizes(<<>>) = {}
BY DEF ReadSizes

LEMMA SendOne == ASSUME NEW m PROVE Append(<<>>, m) = <<m>> /\ <<>> \o <<m>> = <<m>>
OBVIOUS

(* What PlanOK says of the types of the client's variables. *)
LEMMA PlanTypes ==
  ASSUME PlanOK
  PROVE  /\ status \in [Threads -> {"new", "running", "ended", "failed"}]
         /\ segment \in [Threads -> [startPos : Nat, transferLength : Nat]]
         /\ main \in {"length", "create", "split", "join", "returned", "threw"}
         /\ i \in Slots
BY DEF PlanOK, Plan!PlanOK, Plan!TypeOK, Threads, Plan!Threads, Slots, Plan!Slots, Single, Plan!Single

LEMMA ConnNames ==
  /\ Threads \subseteq Conns /\ Asker \in Conns /\ Lister \in Conns
  /\ Asker \notin Threads /\ Lister \notin Threads /\ Asker # Lister
BY FileClientAssumption, NumberOfThreadsAssumption DEF Asker, Lister, Threads, Slots, Single

(* Whoever asked for the length is told the size.                          *)
LEMMA LengthAnswered ==
  ASSUME ProtocolInvariant, AskAnswer
  PROVE  toClient[Asker][1].value = size /\ size \in Sizes /\ LengthReceived(size)
<1>1. /\ ~quit /\ asking = "answer" /\ toClient[Asker] # <<>>
      /\ LengthReceived(toClient[Asker][1].value)
  BY ReadNone DEF AskAnswer
<1>2. Asker \in Conns /\ ~Lost(Asker)
  BY <1>1, ConnNames DEF ProtocolInvariant, EndsInvariant
<1>3. AskStage
  BY <1>1, <1>2 DEF ProtocolInvariant, HandshakeInvariant
<1>4. toClient[Asker] = <<Message("length", size)>>
  BY <1>1, <1>3 DEF AskStage, Streams
<1>. QED  BY <1>1, <1>4 DEF Message, ProtocolInvariant, TypeOK

LEMMA PlanKept ==
  ASSUME ProtocolInvariant, [SysNext]_allVars
  PROVE  PlanOK'
<1>. SUFFICES Plan!Next \/ UNCHANGED vars
  BY PlanStep DEF ProtocolInvariant
<1>1. MainRuns \/ AcksRuns => Plan!Next
  BY MainIsPlan, AcksIsPlan DEF MainRuns, AcksRuns
<1>2. AskStep => Plan!Next \/ UNCHANGED vars
  BY LengthAnswered, LengthIsPlan DEF AskStep, AskConnect, AskName, AskFails
<1>3. ASSUME NEW t \in Threads, TransferStep(t) PROVE Plan!Next \/ UNCHANGED vars
  BY <1>3, ThreadIsPlan DEF TransferStep, TransferConnect, TransferAsk, TransferSeek, TransferReceive,
     TransferOver, TransferFails
<1>4. ListStep \/ UserStep => UNCHANGED vars
  BY DEF ListStep, ListConnect, ListDir, ListAnswer, ListFails, UserStep, StartListing, Quit
<1>. QED  BY <1>1, <1>2, <1>3, <1>4 DEF SysNext, ClientStep, allVars

LEMMA Typed ==
  /\ \A kind \in Kinds : Text(kind) \in Texts /\ Text(kind) \in Answers
  /\ \A kind \in Kinds, v \in Nat : Message(kind, v) \in Texts
  /\ \A p \in Nat : Byte(p) \in Texts
  /\ Texts \subseteq Answers
<1>1. \A kind \in Kinds, v \in Nat : Message(kind, v) \in Texts
  BY DEF Message, Texts
<1>2. Texts \subseteq Answers
  BY DEF Texts, Answers
<1>3. \A kind \in Kinds : Text(kind) \in Texts
  BY <1>1 DEF Text
<1>4. \A p \in Nat : Byte(p) \in Texts
  BY <1>1 DEF Byte, Kinds
<1>. QED  BY <1>1, <1>2, <1>3, <1>4

LEMMA OneTyped == ASSUME NEW S, NEW m \in S PROVE <<m>> \in Seq(S)
OBVIOUS

LEMMA ServerGetsTyped ==
  ASSUME StreamsInvariant, NEW c \in Conns, NEW n \in ReadSizes(toServer[c]), ServerGets(c, n)
  PROVE  toServer' \in [Conns -> Seq(Texts)] /\ toServer[c][1] \in Texts
<1>1. toServer[c] \in Seq(Texts) /\ toServer \in [Conns -> Seq(Texts)]
  BY DEF StreamsInvariant
<1>2. Left(toServer[c], n) \in Seq(Texts) /\ toServer[c][1] \in Texts
  BY <1>1, ReadSome
<1>. QED  BY <1>1, <1>2 DEF ServerGets

LEMMA ClientGetsTyped ==
  ASSUME StreamsInvariant, NEW c \in Conns, NEW n \in ReadSizes(toClient[c]), ClientGets(c, n)
  PROVE  toClient' \in [Conns -> Seq(Answers)] /\ toClient[c][1] \in Answers
<1>1. toClient[c] \in Seq(Answers) /\ toClient \in [Conns -> Seq(Answers)]
  BY DEF StreamsInvariant
<1>2. Left(toClient[c], n) \in Seq(Answers) /\ toClient[c][1] \in Answers
  BY <1>1, ReadSome
<1>. QED  BY <1>1, <1>2 DEF ClientGets

LEMMA ServerSendsTyped ==
  ASSUME StreamsInvariant, NEW c \in Conns, NEW q \in Seq(Answers), ServerSends(c, q)
  PROVE  toClient' \in [Conns -> Seq(Answers)]
<1>1. toClient[c] \in Seq(Answers) /\ toClient \in [Conns -> Seq(Answers)]
  BY DEF StreamsInvariant
<1>2. toClient[c] \o q \in Seq(Answers)
  BY <1>1
<1>. QED  BY <1>1, <1>2 DEF ServerSends

LEMMA ClientSendsTyped ==
  ASSUME StreamsInvariant, NEW c \in Conns, NEW m \in Texts, ClientSends(c, m)
  PROVE  toServer' \in [Conns -> Seq(Texts)]
<1>1. toServer[c] \in Seq(Texts) /\ toServer \in [Conns -> Seq(Texts)]
  BY DEF StreamsInvariant
<1>2. Append(toServer[c], m) \in Seq(Texts)
  BY <1>1
<1>. QED  BY <1>1, <1>2 DEF ClientSends

LEMMA ResetTyped ==
  ASSUME StreamsInvariant, NEW C, Reset(C)
  PROVE  toServer' \in [Conns -> Seq(Texts)] /\ toClient' \in [Conns -> Seq(Answers)]
<1>1. \A S : <<>> \in Seq(S)
  OBVIOUS
<1>. QED  BY <1>1 DEF Reset, StreamsInvariant

LEMMA SegmentTyped ==
  ASSUME NEW p \in Nat, NEW l \in Nat
  PROVE  SegmentBytes(p, l) \in Seq(Texts)
<1>. DEFINE segm == [k \in 1..l |-> Byte(p + k - 1)]
<1>1. segm \in Seq(Texts)
  <2>1. \A k \in 1..l : Byte(p + k - 1) \in Texts
    BY Typed
  <2>2. segm \in [1..l -> Texts]
    BY <2>1
  <2>. QED  BY <2>2, SeqDef
<1>. HIDE DEF segm
<1>2. Append(segm, Byte(p)) \in Seq(Texts) /\ <<>> \in Seq(Texts)
  BY <1>1, Typed
<1>3. SegmentBytes(p, l) \in {<<>>, Append(segm, Byte(p)), segm}
  BY DEF SegmentBytes, segm
<1>. QED  BY <1>1, <1>2, <1>3

LEMMA StreamsKept ==
  ASSUME ProtocolInvariant, [SysNext]_allVars
  PROVE  StreamsInvariant'
<1>. StreamsInvariant /\ TypeOK /\ PlanOK
  BY DEF ProtocolInvariant
<1>. USE DEF StreamsInvariant
<1>a. ASSUME UNCHANGED <<connVars, unsent, startPos, filePointer, quit>> PROVE StreamsInvariant'
  BY <1>a DEF connVars
<1>1. ASSUME AcceptorStep, UNCHANGED <<vars, clientVars>> PROVE StreamsInvariant'
  <2>0. UNCHANGED <<filePointer, quit>>
    BY <1>1 DEF clientVars
  <2>1. CASE AcceptConnection
    BY <2>0, <2>1 DEF AcceptConnection, Accept
  <2>2. CASE ReadRequest
    <3>1. conn \in Conns
      BY <2>2 DEF ReadRequest, ProtocolInvariant, WorkerInvariant, Handshaking
    <3>2. PICK n \in ReadSizes(toServer[conn]) : ServerGets(conn, n)
      BY <2>2 DEF ReadRequest
    <3>3. ServerSends(conn, <<Text("done")>>) \/ UNCHANGED toClient
      BY <2>2 DEF ReadRequest
    <3>4. <<Text("done")>> \in Seq(Answers)
      BY Typed, OneTyped DEF Kinds
    <3>5. toServer' \in [Conns -> Seq(Texts)] /\ toClient' \in [Conns -> Seq(Answers)]
      BY <3>1, <3>2, <3>3, <3>4, ServerGetsTyped, ServerSendsTyped
    <3>. QED  BY <2>0, <2>2, <3>5 DEF ReadRequest
  <2>3. CASE ReadName \/ ReadStartPos \/ ReadLength
    <3>1. conn \in Conns
      BY <2>3 DEF ReadName, ReadStartPos, ReadLength, ProtocolInvariant, WorkerInvariant, Handshaking
    <3>2. PICK n \in ReadSizes(toServer[conn]) : ServerGets(conn, n)
      BY <2>3 DEF ReadName, ReadStartPos, ReadLength
    <3>3. ServerSends(conn, <<Text("done")>>)
      BY <2>3 DEF ReadName, ReadStartPos, ReadLength
    <3>4. <<Text("done")>> \in Seq(Answers)
      BY Typed, OneTyped DEF Kinds
    <3>5. /\ toServer' \in [Conns -> Seq(Texts)] /\ toClient' \in [Conns -> Seq(Answers)]
          /\ toServer[conn][1].value \in Nat
      BY <3>1, <3>2, <3>3, <3>4, ServerGetsTyped, ServerSendsTyped DEF Texts
    <3>6. SegmentBytes(startPos, toServer[conn][1].value) \in Seq(Texts)
      BY <3>5, SegmentTyped
    <3>7. unsent' \in [Conns -> Seq(Texts)] /\ startPos' \in Nat
      BY <2>3, <3>1, <3>5, <3>6 DEF ReadName, ReadStartPos, ReadLength
    <3>. QED  BY <2>0, <3>5, <3>7
  <2>4. CASE HandshakeFails \/ HandshakeAtEnd \/ AcceptorEnds
    BY <1>a, <2>0, <2>4 DEF HandshakeFails, HandshakeAtEnd, AcceptorEnds
  <2>. QED  BY <1>1, <2>1, <2>2, <2>3, <2>4 DEF AcceptorStep
<1>2. ASSUME NEW c \in Conns, WorkerStep(c), UNCHANGED <<vars, clientVars>> PROVE StreamsInvariant'
  <2>0. UNCHANGED <<filePointer, quit, startPos>>
    BY <1>2 DEF clientVars, WorkerStep, SendLength, Confirmed, SendFilelist, SendBytes, SendOver, SendAborts,
       WorkerFails, WorkerEnds
  <2>1. CASE SendLength(c) \/ Confirmed(c) \/ SendFilelist(c)
    <3>1. PICK n \in ReadSizes(toServer[c]) : ServerGets(c, n)
      BY <2>1 DEF SendLength, Confirmed, SendFilelist
    <3>2. \/ ServerSends(c, <<Message("length", size)>>) \/ ServerSends(c, <<Text("names")>>)
          \/ UNCHANGED toClient
      BY <2>1 DEF SendLength, Confirmed, SendFilelist
    <3>3. Message("length", size) \in Answers
      BY FileServerAssumption DEF TypeOK, Message, Answers, Kinds, Missing, Hole
    <3>4. <<Text("names")>> \in Seq(Answers) /\ <<Message("length", size)>> \in Seq(Answers)
      BY <3>3, Typed, OneTyped DEF Kinds
    <3>5. toServer' \in [Conns -> Seq(Texts)] /\ toClient' \in [Conns -> Seq(Answers)]
      BY <3>1, <3>2, <3>4, ServerGetsTyped, ServerSendsTyped
    <3>6. UNCHANGED unsent
      BY <2>1 DEF SendLength, Confirmed, SendFilelist
    <3>. QED  BY <2>0, <3>5, <3>6
  <2>2. CASE SendBytes(c)
    <3>1. PICK n \in Nat : n <= Len(unsent[c]) /\ ServerSends(c, Taken(unsent[c], n))
                           /\ unsent' = [unsent EXCEPT ![c] = Left(@, n)]
      <4>1. Len(unsent[c]) \in Nat /\ BUFFERSIZE \in Nat
        BY ConnectionsAssumption
      <4>2. PICK n : /\ n = (IF Len(unsent[c]) < BUFFERSIZE THEN Len(unsent[c]) ELSE BUFFERSIZE)
                     /\ ServerSends(c, Taken(unsent[c], n))
                     /\ unsent' = [unsent EXCEPT ![c] = Left(@, n)]
        BY <2>2 DEF SendBytes
      <4>3. n \in Nat /\ n <= Len(unsent[c])
        BY <4>1, <4>2
      <4>. QED  BY <4>2, <4>3
    <3>2. Taken(unsent[c], n) \in Seq(Texts) /\ Left(unsent[c], n) \in Seq(Texts)
      BY <3>1 DEF Taken, Left
    <3>3. Taken(unsent[c], n) \in Seq(Answers)
      BY <3>2, Typed
    <3>4. toClient' \in [Conns -> Seq(Answers)] /\ unsent' \in [Conns -> Seq(Texts)]
      BY <3>1, <3>2, <3>3, ServerSendsTyped
    <3>. QED  BY <2>0, <2>2, <3>4 DEF SendBytes
  <2>3. CASE SendOver(c) \/ SendAborts(c) \/ WorkerFails(c)
    <3>1. /\ UNCHANGED <<toServer, toClient>> /\ unsent' = [unsent EXCEPT ![c] = <<>>]
      BY <2>3 DEF SendOver, SendAborts, WorkerFails, WorkerEnds
    <3>2. <<>> \in Seq(Texts)
      OBVIOUS
    <3>3. unsent' \in [Conns -> Seq(Texts)]
      BY <3>1, <3>2
    <3>. QED  BY <2>0, <3>1, <3>3
  <2>. QED  BY <1>2, <2>1, <2>2, <2>3 DEF WorkerStep
<1>3. ASSUME MainRuns \/ AcksRuns, UNCHANGED serverVars PROVE StreamsInvariant'
  BY <1>3, <1>a DEF MainRuns, AcksRuns, clientVars, serverVars
<1>4. ASSUME AskStep, UNCHANGED serverVars PROVE StreamsInvariant'
  <2>0. UNCHANGED <<filePointer, quit, startPos, unsent>> /\ Asker \in Conns
    BY <1>4, ConnNames DEF serverVars, AskStep, AskConnect, AskName, AskAnswer, AskFails
  <2>1. UNCHANGED toClient \/ \E n \in ReadSizes(toClient[Asker]) : ClientGets(Asker, n)
    BY <1>4 DEF AskStep, AskConnect, AskName, AskAnswer, AskFails, Connect, connVars
  <2>2. UNCHANGED toServer \/ \E kind \in Kinds : ClientSends(Asker, Text(kind))
    BY <1>4 DEF AskStep, AskConnect, AskName, AskAnswer, AskFails, Connect, connVars, Kinds
  <2>3. toServer' \in [Conns -> Seq(Texts)] /\ toClient' \in [Conns -> Seq(Answers)]
    BY <2>0, <2>1, <2>2, ClientGetsTyped, ClientSendsTyped, Typed
  <2>. QED  BY <2>0, <2>3
<1>5. ASSUME NEW t \in Threads, TransferStep(t), UNCHANGED serverVars PROVE StreamsInvariant'
  <2>0. UNCHANGED <<quit, startPos, unsent>> /\ t \in Conns /\ filePointer[t] \in Nat
    BY <1>5, ConnNames DEF serverVars, clientVars, TransferStep, TransferConnect, TransferAsk, TransferSeek,
       TransferReceive, TransferOver, TransferFails
  <2>1. UNCHANGED toClient \/ \E n \in ReadSizes(toClient[t]) : ClientGets(t, n)
    BY <1>5 DEF TransferStep, TransferConnect, TransferAsk, TransferSeek, TransferReceive, TransferOver,
       TransferFails, Connect, connVars
  <2>2. segment[t].startPos \in Nat /\ segment[t].transferLength \in Nat
    BY PlanTypes
  <2>3. Reply(t) \in Texts \/ ~TransferAsk(t)
    <3>1. /\ Message("startPos", segment[t].startPos) \in Texts
          /\ Message("length", segment[t].transferLength) \in Texts
          /\ Text("name") \in Texts
      BY <2>2, Typed DEF Kinds
    <3>. QED  BY <3>1 DEF Reply, TransferAsk
  <2>4. UNCHANGED toServer \/ \E m \in Texts : ClientSends(t, m)
    <3>1. Text("Transfer") \in Texts
      BY Typed DEF Kinds
    <3>. QED  BY <1>5, <2>3, <3>1 DEF TransferStep, TransferConnect, TransferAsk, TransferSeek, TransferReceive,
              TransferOver, TransferFails, Connect, connVars
  <2>5. toServer' \in [Conns -> Seq(Texts)] /\ toClient' \in [Conns -> Seq(Answers)]
    BY <2>0, <2>1, <2>4, ClientGetsTyped, ClientSendsTyped
  <2>6. \/ UNCHANGED filePointer
        \/ filePointer' = [filePointer EXCEPT ![t] = segment[t].startPos]
        \/ \E n \in ReadSizes(toClient[t]) : filePointer' = [filePointer EXCEPT ![t] = @ + n]
    BY <1>5 DEF TransferStep, TransferConnect, TransferAsk, TransferSeek, TransferReceive, TransferOver,
       TransferFails, clientVars
  <2>7. filePointer' \in [Threads -> Nat]
    <3>1. ReadSizes(toClient[t]) \subseteq Nat
      BY ConnectionsAssumption DEF ReadSizes
    <3>2. ASSUME NEW n \in ReadSizes(toClient[t]), filePointer' = [filePointer EXCEPT ![t] = @ + n]
          PROVE  filePointer' \in [Threads -> Nat]
      <4>1. filePointer[t] + n \in Nat
        BY <2>0, <3>1
      <4>. QED  BY <3>2, <4>1
    <3>3. CASE filePointer' = [filePointer EXCEPT ![t] = segment[t].startPos]
      BY <2>2, <3>3
    <3>. QED  BY <2>6, <3>2, <3>3
  <2>. QED  BY <2>0, <2>5, <2>7
<1>6. ASSUME ListStep, UNCHANGED serverVars PROVE StreamsInvariant'
  <2>0. UNCHANGED <<filePointer, quit, startPos, unsent>> /\ Lister \in Conns
    BY <1>6, ConnNames DEF serverVars, ListStep, ListConnect, ListDir, ListAnswer, ListFails
  <2>1. UNCHANGED toClient \/ ClientGets(Lister, Len(toClient[Lister]))
    BY <1>6 DEF ListStep, ListConnect, ListDir, ListAnswer, ListFails, Connect, connVars
  <2>2. UNCHANGED toServer \/ \E kind \in Kinds : ClientSends(Lister, Text(kind))
    BY <1>6 DEF ListStep, ListConnect, ListDir, ListAnswer, ListFails, Connect, connVars, Kinds
  <2>3. toServer' \in [Conns -> Seq(Texts)]
    BY <2>0, <2>2, ClientSendsTyped, Typed
  <2>4. Left(toClient[Lister], Len(toClient[Lister])) \in Seq(Answers)
    BY <2>0 DEF Left
  <2>5. toClient' \in [Conns -> Seq(Answers)]
    BY <2>0, <2>1, <2>4 DEF ClientGets
  <2>. QED  BY <2>0, <2>3, <2>5
<1>7. ASSUME UserStep, UNCHANGED serverVars PROVE StreamsInvariant'
  BY <1>7 DEF UserStep, StartListing, Quit, serverVars, connVars
<1>8. ASSUME Stop, UNCHANGED <<vars, clientVars>> PROVE StreamsInvariant'
  <2>1. \E C : Reset(C)
    BY <1>8 DEF Stop, CloseListener
  <2>. QED  BY <1>8, <2>1, ResetTyped DEF Stop, serverVars, clientVars
<1>9. ASSUME NEW c \in Conns, ConnectionLost(c), UNCHANGED <<vars, serverVars, clientVars>>
      PROVE  StreamsInvariant'
  BY <1>9, ResetTyped DEF ConnectionLost, serverVars, clientVars
<1>10. CASE UNCHANGED allVars
  BY <1>10, <1>a DEF allVars, connVars, serverVars, clientVars
<1>. QED  BY <1>1, <1>2, <1>3, <1>4, <1>5, <1>6, <1>7, <1>8, <1>9, <1>10 DEF SysNext, ClientStep

-----------------------------------------------------------------------------
(* The ends of the connections and the queue of the server socket: what    *)
(* any step does to them.                                                  *)
QuietLost == \A c \in Conns : Lost(c) => toClient'[c] = <<>>

EndsEffect ==
  \/ UNCHANGED <<listening, backlog, clientEnd, serverEnd>> /\ QuietLost
  \/ \E c \in Conns, m \in Texts : Connect(c, m)
  \/ \E c \in Conns : Accept(c)
  \/ CloseListener
  \/ \E c \in Conns : ServerCloses(c) /\ UNCHANGED <<listening, backlog, clientEnd>> /\ QuietLost
  \/ \E C : /\ ClientCloses(C) /\ UNCHANGED <<listening, backlog, serverEnd>> /\ QuietLost
            /\ quit' \/ \A c \in C : serverEnd[c] = "closed"
  \/ \E c \in Conns : ConnectionLost(c)

LEMMA GetsQuiet ==
  ASSUME ProtocolInvariant, NEW c \in Conns, NEW n \in ReadSizes(toClient[c]), ClientGets(c, n)
  PROVE  QuietLost
<1>1. ~Lost(c)
  BY ReadNone DEF ProtocolInvariant, EndsInvariant
<1>. QED  BY <1>1 DEF QuietLost, ClientGets, ProtocolInvariant, EndsInvariant, StreamsInvariant

LEMMA SendsQuiet ==
  ASSUME ProtocolInvariant, NEW c \in Conns, NEW q, ServerSends(c, q), serverEnd[c] = "open"
  PROVE  QuietLost
<1>1. ~Lost(c)
  BY DEF Lost
<1>. QED  BY <1>1 DEF QuietLost, ServerSends, ProtocolInvariant, EndsInvariant, StreamsInvariant

LEMMA EndsEffects ==
  ASSUME ProtocolInvariant, [SysNext]_allVars
  PROVE  EndsEffect /\ (quit => quit')
<1>a. UNCHANGED toClient => QuietLost
  BY DEF QuietLost, ProtocolInvariant, EndsInvariant
<1>1. ASSUME AcceptorStep, UNCHANGED <<vars, clientVars>> PROVE EndsEffect /\ (quit => quit')
  <2>0. UNCHANGED quit
    BY <1>1 DEF clientVars
  <2>1. CASE AcceptConnection
    BY <2>0, <2>1 DEF AcceptConnection, EndsEffect
  <2>2. CASE ReadRequest \/ ReadName \/ ReadStartPos \/ ReadLength
    <3>1. conn \in Conns /\ serverEnd[conn] = "open"
      BY <2>2 DEF ReadRequest, ReadName, ReadStartPos, ReadLength, ProtocolInvariant, WorkerInvariant, Handshaking
    <3>2. /\ UNCHANGED <<listening, backlog, clientEnd, serverEnd>>
          /\ ServerSends(conn, <<Text("done")>>) \/ UNCHANGED toClient
      BY <2>2 DEF ReadRequest, ReadName, ReadStartPos, ReadLength
    <3>3. QuietLost
      BY <1>a, <3>1, <3>2, SendsQuiet
    <3>. QED  BY <2>0, <3>2, <3>3 DEF EndsEffect
  <2>3. CASE HandshakeFails \/ HandshakeAtEnd \/ AcceptorEnds
    BY <1>a, <2>0, <2>3 DEF HandshakeFails, HandshakeAtEnd, AcceptorEnds, connVars, EndsEffect
  <2>. QED  BY <1>1, <2>1, <2>2, <2>3 DEF AcceptorStep
<1>2. ASSUME NEW c \in Conns, WorkerStep(c), UNCHANGED <<vars, clientVars>>
      PROVE  EndsEffect /\ (quit => quit')
  <2>0. UNCHANGED <<quit, listening, backlog, clientEnd>>
    BY <1>2 DEF clientVars, WorkerStep, SendLength, Confirmed, SendFilelist, SendBytes, SendOver, SendAborts,
       WorkerFails, WorkerEnds
  <2>1. UNCHANGED serverEnd \/ ServerCloses(c)
    BY <1>2 DEF WorkerStep, SendLength, Confirmed, SendFilelist, SendBytes, SendOver, SendAborts,
       WorkerFails, WorkerEnds
  <2>2. UNCHANGED toClient \/ (serverEnd[c] = "open" /\ \E q : ServerSends(c, q))
    BY <1>2 DEF WorkerStep, SendLength, Confirmed, SendFilelist, SendBytes, SendOver, SendAborts,
       WorkerFails, WorkerEnds
  <2>3. QuietLost
    BY <1>a, <2>2, SendsQuiet
  <2>. QED  BY <2>0, <2>1, <2>3 DEF EndsEffect
<1>3. ASSUME MainRuns \/ AcksRuns PROVE EndsEffect /\ (quit => quit')
  BY <1>3, <1>a DEF MainRuns, AcksRuns, clientVars, connVars, EndsEffect
<1>4. ASSUME AskStep PROVE EndsEffect /\ (quit => quit')
  <2>0. UNCHANGED quit /\ Asker \in Conns
    BY <1>4, ConnNames DEF AskStep, AskConnect, AskName, AskAnswer, AskFails
  <2>1. CASE AskConnect
    BY <2>0, <2>1, Typed DEF AskConnect, EndsEffect, Kinds
  <2>2. CASE AskName \/ AskAnswer
    <3>1. \E n \in ReadSizes(toClient[Asker]) : ClientGets(Asker, n)
      BY <2>2 DEF AskName, AskAnswer
    <3>2. UNCHANGED <<listening, backlog, clientEnd, serverEnd>>
      BY <2>2 DEF AskName, AskAnswer
    <3>. QED  BY <2>0, <3>1, <3>2, GetsQuiet DEF EndsEffect
  <2>3. CASE AskFails
    BY <1>a, <2>0, <2>3 DEF AskFails, connVars, EndsEffect
  <2>. QED  BY <1>4, <2>1, <2>2, <2>3 DEF AskStep
<1>5. ASSUME NEW t \in Threads, TransferStep(t) PROVE EndsEffect /\ (quit => quit')
  <2>0. UNCHANGED quit /\ t \in Conns
    BY <1>5, ConnNames DEF clientVars, TransferStep, TransferConnect, TransferAsk, TransferSeek,
       TransferReceive, TransferOver, TransferFails
  <2>1. CASE TransferConnect(t)
    <3>1. Text("Transfer") \in Texts
      BY Typed DEF Kinds
    <3>2. Connect(t, Text("Transfer"))
      BY <2>1 DEF TransferConnect
    <3>. QED  BY <2>0, <3>1, <3>2 DEF EndsEffect
  <2>2. CASE TransferAsk(t) \/ TransferSeek(t) \/ TransferReceive(t)
    <3>1. \E n \in ReadSizes(toClient[t]) : ClientGets(t, n)
      BY <2>2 DEF TransferAsk, TransferSeek, TransferReceive
    <3>2. UNCHANGED <<listening, backlog, clientEnd, serverEnd>>
      BY <2>2 DEF TransferAsk, TransferSeek, TransferReceive
    <3>. QED  BY <2>0, <3>1, <3>2, GetsQuiet DEF EndsEffect
  <2>3. CASE TransferOver(t)
    <3>1. ClientCloses({t}) /\ UNCHANGED <<listening, backlog, serverEnd, toClient>> /\ serverEnd[t] = "closed"
      BY <2>3 DEF TransferOver, ClientAtEnd
    <3>2. \A c \in {t} : serverEnd[c] = "closed"
      BY <3>1
    <3>. QED  BY <1>a, <2>0, <3>1, <3>2 DEF EndsEffect
  <2>4. CASE TransferFails(t)
    BY <1>a, <2>0, <2>4 DEF TransferFails, connVars, EndsEffect
  <2>. QED  BY <1>5, <2>1, <2>2, <2>3, <2>4 DEF TransferStep
<1>6. ASSUME ListStep PROVE EndsEffect /\ (quit => quit')
  <2>0. UNCHANGED quit /\ Lister \in Conns
    BY <1>6, ConnNames DEF ListStep, ListConnect, ListDir, ListAnswer, ListFails
  <2>1. CASE ListConnect
    <3>1. Text("Filelist") \in Texts
      BY Typed DEF Kinds
    <3>2. Connect(Lister, Text("Filelist"))
      BY <2>1 DEF ListConnect
    <3>. QED  BY <2>0, <3>1, <3>2 DEF EndsEffect
  <2>2. CASE ListAnswer
    <3>1. ClientCloses({Lister}) /\ UNCHANGED <<listening, backlog, serverEnd>>
          /\ ClientGets(Lister, Len(toClient[Lister])) /\ serverEnd[Lister] = "closed"
      BY <2>2 DEF ListAnswer
    <3>2. QuietLost
      BY <3>1 DEF QuietLost, ClientGets, ProtocolInvariant, EndsInvariant, StreamsInvariant, Lost
    <3>3. \A c \in {Lister} : serverEnd[c] = "closed"
      BY <3>1
    <3>. QED  BY <2>0, <3>1, <3>2, <3>3 DEF EndsEffect
  <2>3. CASE ListDir \/ ListFails
    BY <1>a, <2>0, <2>3 DEF ListDir, ListFails, connVars, EndsEffect
  <2>. QED  BY <1>6, <2>1, <2>2, <2>3 DEF ListStep
<1>7. ASSUME UserStep PROVE EndsEffect /\ (quit => quit')
  <2>1. CASE StartListing
    BY <1>a, <2>1 DEF StartListing, connVars, EndsEffect
  <2>2. CASE Quit
    BY <1>a, <2>2 DEF Quit, EndsEffect
  <2>. QED  BY <1>7, <2>1, <2>2 DEF UserStep
<1>8. ASSUME Stop, UNCHANGED <<vars, clientVars>> PROVE EndsEffect /\ (quit => quit')
  BY <1>8 DEF Stop, EndsEffect, clientVars
<1>9. ASSUME NEW c \in Conns, ConnectionLost(c), UNCHANGED <<vars, serverVars, clientVars>>
      PROVE  EndsEffect /\ (quit => quit')
  BY <1>9 DEF EndsEffect, clientVars
<1>10. CASE UNCHANGED allVars
  BY <1>10, <1>a DEF allVars, connVars, clientVars, EndsEffect
<1>. QED  BY <1>1, <1>2, <1>3, <1>4, <1>5, <1>6, <1>7, <1>8, <1>9, <1>10 DEF SysNext, ClientStep

Ends == {"none", "open", "closed", "reset"}

EndsTypeOK ==
  /\ listening \in BOOLEAN
  /\ Len(backlog) <= Backlog /\ \A k \in DOMAIN backlog : serverEnd[backlog[k]] = "queued"
  /\ clientEnd \in [Conns -> Ends]
  /\ serverEnd \in [Conns -> Ends \cup {"queued"}]

(* A broken connection is empty. *)
LEMMA ResetEnds ==
  ASSUME StreamsInvariant, EndsTypeOK, EndsInvariant, NEW C, Reset(C), quit => quit'
  PROVE  /\ clientEnd' \in [Conns -> Ends]
         /\ serverEnd' \in [Conns -> Ends \cup {"queued"}]
         /\ EndsInvariant'
         /\ \A c \in Conns : IF c \in C THEN serverEnd'[c] = "reset" /\ clientEnd'[c] = "reset"
                             ELSE serverEnd'[c] = serverEnd[c] /\ clientEnd'[c] = clientEnd[c]
BY DEF Reset, EndsTypeOK, EndsInvariant, Lost, Ends

LEMMA EndsKept ==
  ASSUME ProtocolInvariant, [SysNext]_allVars
  PROVE  EndsTypeOK' /\ EndsInvariant' /\ QueueInvariant'
<1>. StreamsInvariant /\ EndsTypeOK /\ EndsInvariant /\ QueueInvariant /\ (quit => quit')
  BY EndsEffects DEF ProtocolInvariant, TypeOK, EndsTypeOK, Ends
<1>. EndsEffect
  BY EndsEffects
<1>1. CASE UNCHANGED <<listening, backlog, clientEnd, serverEnd>> /\ QuietLost
  BY <1>1 DEF EndsTypeOK, EndsInvariant, QueueInvariant, QuietLost, Lost
<1>2. ASSUME NEW c \in Conns, NEW m, Connect(c, m) PROVE EndsTypeOK' /\ EndsInvariant' /\ QueueInvariant'
  <2>1. /\ serverEnd[c] = "none" /\ Len(backlog) < Backlog
        /\ backlog' = Append(backlog, c)
        /\ clientEnd' = [clientEnd EXCEPT ![c] = "open"]
        /\ serverEnd' = [serverEnd EXCEPT ![c] = "queued"]
        /\ UNCHANGED <<listening, toClient>>
    BY <1>2 DEF Connect, EndsInvariant
  <2>2. backlog \in Seq(Conns) /\ Len(backlog) \in Nat /\ DOMAIN backlog = 1..Len(backlog)
    BY DEF QueueInvariant
  <2>3. \A k \in DOMAIN backlog : backlog[k] # c
    BY <2>1 DEF EndsTypeOK
  <2>4. /\ backlog' \in Seq(Conns) /\ Len(backlog') = Len(backlog) + 1
        /\ DOMAIN backlog' = 1..(Len(backlog) + 1)
        /\ \A k \in 1..Len(backlog) : backlog'[k] = backlog[k]
        /\ backlog'[Len(backlog) + 1] = c
    BY <2>1, <2>2
  <2>5. QueueInvariant'
    BY <2>2, <2>3, <2>4 DEF QueueInvariant
  <2>6. clientEnd' \in [Conns -> Ends] /\ serverEnd' \in [Conns -> Ends \cup {"queued"}]
    BY <2>1 DEF EndsTypeOK, Ends
  <2>7. \A k \in DOMAIN backlog' : serverEnd'[backlog'[k]] = "queued"
    BY <2>1, <2>2, <2>3, <2>4 DEF EndsTypeOK
  <2>8. Len(backlog') <= Backlog
    BY <2>1, <2>2, <2>4, ConnectionsAssumption
  <2>9. EndsInvariant'
    BY <2>1 DEF EndsInvariant, EndsTypeOK, Lost
  <2>. QED  BY <2>1, <2>5, <2>6, <2>7, <2>8, <2>9 DEF EndsTypeOK
<1>3. ASSUME NEW c \in Conns, Accept(c) PROVE EndsTypeOK' /\ EndsInvariant' /\ QueueInvariant'
  <2>1. /\ backlog # <<>> /\ c = Head(backlog) /\ backlog' = Tail(backlog)
        /\ serverEnd' = [serverEnd EXCEPT ![c] = "open"]
        /\ UNCHANGED <<listening, clientEnd, toClient>>
    BY <1>3 DEF Accept
  <2>2. backlog \in Seq(Conns) /\ Len(backlog) \in Nat \ {0} /\ DOMAIN backlog = 1..Len(backlog) /\ c = backlog[1]
    BY <2>1 DEF QueueInvariant
  <2>3. /\ backlog' \in Seq(Conns) /\ Len(backlog') = Len(backlog) - 1
        /\ DOMAIN backlog' = 1..(Len(backlog) - 1)
        /\ \A k \in 1..(Len(backlog) - 1) : backlog'[k] = backlog[k + 1]
    BY <2>1, <2>2
  <2>4. QueueInvariant'
    <3>1. ASSUME NEW j \in DOMAIN backlog', NEW k \in DOMAIN backlog', backlog'[j] = backlog'[k] PROVE j = k
      <4>1. /\ j \in Nat /\ k \in Nat /\ j + 1 \in DOMAIN backlog /\ k + 1 \in DOMAIN backlog
            /\ backlog[j + 1] = backlog[k + 1]
        BY <2>2, <2>3, <3>1
      <4>2. j + 1 = k + 1
        BY <4>1 DEF QueueInvariant
      <4>. QED  BY <4>1, <4>2
    <3>. QED  BY <2>3, <3>1 DEF QueueInvariant
  <2>5. \A k \in DOMAIN backlog' : backlog'[k] # c /\ serverEnd[backlog'[k]] = "queued"
    BY <2>2, <2>3 DEF QueueInvariant, EndsTypeOK
  <2>6. \A k \in DOMAIN backlog' : serverEnd'[backlog'[k]] = "queued"
    BY <2>1, <2>3, <2>5 DEF EndsTypeOK
  <2>7. serverEnd[c] = "queued"
    BY <2>2 DEF EndsTypeOK
  <2>8. Len(backlog') <= Backlog
    BY <2>2, <2>3, ConnectionsAssumption DEF EndsTypeOK
  <2>9. EndsInvariant'
    BY <2>1, <2>7 DEF EndsInvariant, EndsTypeOK, Lost
  <2>10. serverEnd' \in [Conns -> Ends \cup {"queued"}]
    BY <2>1 DEF EndsTypeOK, Ends
  <2>. QED  BY <2>1, <2>4, <2>6, <2>8, <2>9, <2>10 DEF EndsTypeOK
<1>4. CASE CloseListener
  <2>1. listening' = FALSE /\ backlog' = <<>> /\ \E C : Reset(C)
    BY <1>4 DEF CloseListener
  <2>2. /\ clientEnd' \in [Conns -> Ends] /\ serverEnd' \in [Conns -> Ends \cup {"queued"}]
        /\ EndsInvariant'
    BY <2>1, ResetEnds
  <2>3. Len(backlog') = 0 /\ DOMAIN backlog' = {} /\ backlog' \in Seq(Conns)
    BY <2>1
  <2>4. 0 <= Backlog
    BY ConnectionsAssumption
  <2>. QED  BY <2>1, <2>2, <2>3, <2>4 DEF EndsTypeOK, QueueInvariant
<1>5. ASSUME NEW c \in Conns, ServerCloses(c), UNCHANGED <<listening, backlog, clientEnd>>, QuietLost
      PROVE  EndsTypeOK' /\ EndsInvariant' /\ QueueInvariant'
  <2>1. serverEnd' = [serverEnd EXCEPT ![c] = IF @ = "open" THEN "closed" ELSE @]
    BY <1>5 DEF ServerCloses
  <2>2. \A d \in Conns : serverEnd'[d] = serverEnd[d] \/ (serverEnd[d] = "open" /\ serverEnd'[d] = "closed")
    BY <2>1 DEF EndsTypeOK
  <2>3. serverEnd' \in [Conns -> Ends \cup {"queued"}]
    BY <2>1 DEF EndsTypeOK, Ends
  <2>4. \A k \in DOMAIN backlog : serverEnd'[backlog[k]] = "queued"
    BY <2>2 DEF EndsTypeOK, QueueInvariant
  <2>5. EndsInvariant'
    BY <1>5, <2>2 DEF EndsInvariant, QuietLost, Lost
  <2>. QED  BY <1>5, <2>3, <2>4, <2>5 DEF EndsTypeOK, QueueInvariant
<1>6. ASSUME NEW C, ClientCloses(C), UNCHANGED <<listening, backlog, serverEnd>>, QuietLost,
             quit' \/ \A c \in C : serverEnd[c] = "closed"
      PROVE  EndsTypeOK' /\ EndsInvariant' /\ QueueInvariant'
  <2>1. clientEnd' \in [Conns -> Ends]
    BY <1>6 DEF ClientCloses, EndsTypeOK, Ends
  <2>2. \A c \in Conns : clientEnd'[c] = clientEnd[c] \/ (c \in C /\ clientEnd[c] = "open" /\ clientEnd'[c] = "closed")
    BY <1>6 DEF ClientCloses
  <2>3. EndsInvariant'
    BY <1>6, <2>2 DEF EndsInvariant, QuietLost, Lost
  <2>. QED  BY <1>6, <2>1, <2>3 DEF EndsTypeOK, QueueInvariant
<1>7. ASSUME NEW c \in Conns, ConnectionLost(c) PROVE EndsTypeOK' /\ EndsInvariant' /\ QueueInvariant'
  <2>1. Reset({c}) /\ serverEnd[c] = "open" /\ UNCHANGED <<listening, backlog>>
    BY <1>7 DEF ConnectionLost
  <2>2. /\ clientEnd' \in [Conns -> Ends] /\ serverEnd' \in [Conns -> Ends \cup {"queued"}]
        /\ EndsInvariant'
        /\ \A d \in Conns : d # c => serverEnd'[d] = serverEnd[d]
    BY <2>1, ResetEnds
  <2>3. \A k \in DOMAIN backlog : backlog[k] \in Conns /\ backlog[k] # c
    BY <2>1 DEF EndsTypeOK, QueueInvariant
  <2>. QED  BY <2>1, <2>2, <2>3 DEF EndsTypeOK, QueueInvariant
<1>. QED  BY <1>1, <1>2, <1>3, <1>4, <1>5, <1>6, <1>7 DEF EndsEffect

-----------------------------------------------------------------------------
(* The other types, the threads of the server, and what the client knows.  *)
RestTypeOK ==
  /\ size \in Sizes
  /\ accepting \in {"accept", "request", "name", "startPos", "length", "ended", "dead"}
  /\ conn \in Conns \cup {NoConn}
  /\ worker \in [Conns -> {"none", "name", "confirm", "dir", "sending", "over"}]
  /\ asking \in {"connect", "acknowledged", "answer", "over"}
  /\ transfer \in [Threads -> {"connect", "name", "startPos", "length", "seek", "receive"}]
  /\ dest \in [Positions -> Nat \cup {Hole}]
  /\ listing \in {"idle", "connect", "dir", "answer", "shown", "failed"}

LEMMA TypeParts == TypeOK <=> EndsTypeOK /\ RestTypeOK
BY DEF TypeOK, EndsTypeOK, RestTypeOK, Ends

(* What is written to the file has been received. *)
LEMMA DestKept ==
  ASSUME ProtocolInvariant, NEW t \in Threads, TransferReceive(t)
  PROVE  dest' \in [Positions -> Nat \cup {Hole}]
<1>. StreamsInvariant /\ RestTypeOK /\ t \in Conns
  BY TypeParts, ConnNames DEF ProtocolInvariant
<1>1. PICK n \in ReadSizes(toClient[t]) :
        dest' = [p \in Positions |->
                   IF p \in filePointer[t]..(filePointer[t] + n - 1)
                   THEN toClient[t][p - filePointer[t] + 1].value
                   ELSE dest[p]]
  BY DEF TransferReceive
<1>2. toClient[t] \in Seq(Answers) /\ filePointer[t] \in Nat
  BY DEF StreamsInvariant
<1>3. n \in 1..Len(toClient[t])
  BY <1>2, ReadSome
<1>4. ASSUME NEW p \in Positions, p \in filePointer[t]..(filePointer[t] + n - 1)
      PROVE  toClient[t][p - filePointer[t] + 1].value \in Nat \cup {Hole}
  <2>1. p - filePointer[t] + 1 \in 1..Len(toClient[t])
    BY <1>2, <1>3, <1>4
  <2>2. toClient[t][p - filePointer[t] + 1] \in Answers
    BY <1>2, <2>1
  <2>. QED  BY <2>2 DEF Answers
<1>. QED  BY <1>1, <1>4 DEF RestTypeOK

LEMMA RestKept ==
  ASSUME ProtocolInvariant, [SysNext]_allVars
  PROVE  RestTypeOK'
<1>. RestTypeOK /\ WorkerInvariant
  BY TypeParts DEF ProtocolInvariant
<1>. USE DEF RestTypeOK
<1>1. ASSUME AcceptorStep, UNCHANGED <<vars, clientVars>> PROVE RestTypeOK'
  <2>0. UNCHANGED <<asking, transfer, dest, listing>>
    BY <1>1 DEF clientVars
  <2>1. conn' \in Conns \cup {NoConn} /\ UNCHANGED size
    BY <1>1 DEF AcceptorStep, AcceptConnection, ReadRequest, ReadName, ReadStartPos, ReadLength,
       HandshakeFails, HandshakeAtEnd, AcceptorEnds
  <2>2. accepting' \in {"accept", "request", "name", "startPos", "length", "ended", "dead"}
    BY <1>1 DEF AcceptorStep, AcceptConnection, ReadRequest, ReadName, ReadStartPos, ReadLength,
       HandshakeFails, HandshakeAtEnd, AcceptorEnds
  <2>3. worker' \in [Conns -> {"none", "name", "confirm", "dir", "sending", "over"}]
    BY <1>1 DEF AcceptorStep, AcceptConnection, ReadRequest, ReadName, ReadStartPos, ReadLength,
       HandshakeFails, HandshakeAtEnd, AcceptorEnds
  <2>. QED  BY <2>0, <2>1, <2>2, <2>3
<1>2. ASSUME NEW c \in Conns, WorkerStep(c), UNCHANGED <<vars, clientVars>> PROVE RestTypeOK'
  BY <1>2 DEF WorkerStep, SendLength, Confirmed, SendFilelist, SendBytes, SendOver, SendAborts,
       WorkerFails, WorkerEnds, clientVars
<1>3. ASSUME MainRuns \/ AcksRuns \/ AskStep \/ ListStep \/ UserStep, UNCHANGED serverVars PROVE RestTypeOK'
  BY <1>3 DEF MainRuns, AcksRuns, AskStep, AskConnect, AskName, AskAnswer, AskFails, ListStep, ListConnect,
     ListDir, ListAnswer, ListFails, UserStep, StartListing, Quit, clientVars, serverVars
<1>4. ASSUME NEW t \in Threads, TransferStep(t), UNCHANGED serverVars PROVE RestTypeOK'
  <2>1. CASE TransferReceive(t)
    BY <1>4, <2>1, DestKept DEF TransferReceive, serverVars
  <2>2. CASE TransferAsk(t)
    BY <1>4, <2>2 DEF TransferAsk, After, serverVars
  <2>3. CASE TransferConnect(t) \/ TransferSeek(t) \/ TransferOver(t) \/ TransferFails(t)
    BY <1>4, <2>3 DEF TransferConnect, TransferSeek, TransferOver, TransferFails, serverVars, clientVars
  <2>. QED  BY <1>4, <2>1, <2>2, <2>3 DEF TransferStep
<1>5. CASE Stop /\ UNCHANGED <<vars, clientVars>>
  BY <1>5 DEF Stop, serverVars, clientVars
<1>6. ASSUME UNCHANGED <<serverVars, clientVars>> PROVE RestTypeOK'
  BY <1>6 DEF serverVars, clientVars
<1>. QED  BY <1>1, <1>2, <1>3, <1>4, <1>5, <1>6 DEF SysNext, ClientStep, allVars

(* What a step of the client or of the network does to the server's ends.  *)
LEMMA ServerEndMoves ==
  ASSUME ProtocolInvariant,
         \/ ClientStep \/ UserStep \/ Stop
         \/ \E c \in Conns : ConnectionLost(c)
  PROVE  \A c \in Conns : \/ serverEnd'[c] \in {serverEnd[c], "reset"} 
                          \/ serverEnd[c] = "none" /\ serverEnd'[c] = "queued"
<1>. serverEnd \in [Conns -> Ends \cup {"queued"}] /\ EndsInvariant
  BY TypeParts DEF ProtocolInvariant, EndsTypeOK
<1>1. ASSUME NEW C, Reset(C) PROVE \A c \in Conns : serverEnd'[c] \in {serverEnd[c], "reset"}
  BY <1>1 DEF Reset
<1>2. ASSUME NEW c, NEW m, Connect(c, m)
      PROVE  \A d \in Conns : serverEnd'[d] = serverEnd[d] \/ (serverEnd[d] = "none" /\ serverEnd'[d] = "queued")
  BY <1>2 DEF Connect, EndsInvariant
<1>3. ClientStep \/ UserStep => UNCHANGED serverEnd \/ \E c, m : Connect(c, m)
  BY DEF ClientStep, MainRuns, AcksRuns, AskStep, AskConnect, AskName, AskAnswer, AskFails, ListStep,
     ListConnect, ListDir, ListAnswer, ListFails, UserStep, StartListing, Quit, TransferStep, TransferConnect,
     TransferAsk, TransferSeek, TransferReceive, TransferOver, TransferFails, connVars
<1>4. Stop \/ (\E c \in Conns : ConnectionLost(c)) => \E C : Reset(C)
  BY DEF Stop, CloseListener, ConnectionLost
<1>. QED  BY <1>1, <1>2, <1>3, <1>4

LEMMA WorkersKept ==
  ASSUME ProtocolInvariant, [SysNext]_allVars
  PROVE  WorkerInvariant'
<1>. RestTypeOK /\ WorkerInvariant /\ EndsTypeOK /\ QueueInvariant
  BY TypeParts DEF ProtocolInvariant
<1>1. ASSUME AcceptorStep PROVE WorkerInvariant'
  <2>1. CASE AcceptConnection
    <3>1. PICK c \in Conns : Accept(c) /\ conn' = c /\ accepting' = "request" /\ UNCHANGED worker
      BY <2>1 DEF AcceptConnection
    <3>2. serverEnd[c] = "queued" /\ serverEnd' = [serverEnd EXCEPT ![c] = "open"]
      BY <3>1 DEF Accept, EndsTypeOK, QueueInvariant
    <3>. QED  BY <3>1, <3>2 DEF WorkerInvariant, EndsTypeOK
  <2>2. CASE ReadRequest \/ ReadLength
    BY <2>2 DEF ReadRequest, ReadLength, WorkerInvariant, Handshaking, RestTypeOK
  <2>3. CASE ReadName \/ ReadStartPos
    BY <2>3 DEF ReadName, ReadStartPos, WorkerInvariant, Handshaking
  <2>4. CASE HandshakeFails \/ HandshakeAtEnd \/ AcceptorEnds
    BY <2>4 DEF HandshakeFails, HandshakeAtEnd, AcceptorEnds, connVars, WorkerInvariant, Handshaking
  <2>. QED  BY <1>1, <2>1, <2>2, <2>3, <2>4 DEF AcceptorStep
<1>2. ASSUME NEW c \in Conns, WorkerStep(c) PROVE WorkerInvariant'
  <2>1. worker[c] # "none" /\ UNCHANGED <<accepting, conn>>
    BY <1>2 DEF WorkerStep, SendLength, Confirmed, SendFilelist, SendBytes, SendOver, SendAborts,
       WorkerFails, WorkerEnds
  <2>2. \A d \in Conns : d # c => worker'[d] = worker[d] /\ serverEnd'[d] = serverEnd[d]
    BY <1>2 DEF WorkerStep, SendLength, Confirmed, SendFilelist, SendBytes, SendOver, SendAborts,
       WorkerFails, WorkerEnds, ServerCloses, RestTypeOK, EndsTypeOK
  <2>3. serverEnd[c] \notin {"none", "queued"} /\ serverEnd'[c] \in {serverEnd[c], "closed"}
    <3>1. UNCHANGED serverEnd \/ ServerCloses(c)
      BY <1>2 DEF WorkerStep, SendLength, Confirmed, SendFilelist, SendBytes, SendOver, SendAborts,
         WorkerFails, WorkerEnds
    <3>. QED  BY <2>1, <3>1 DEF WorkerInvariant, ServerCloses, EndsTypeOK
  <2>. QED  BY <2>1, <2>2, <2>3 DEF WorkerInvariant, Handshaking
<1>3. ASSUME \/ ClientStep \/ UserStep \/ Stop
             \/ \E c \in Conns : ConnectionLost(c),
             UNCHANGED serverVars
      PROVE  WorkerInvariant'
  BY <1>3, ServerEndMoves DEF WorkerInvariant, Handshaking, serverVars
<1>4. CASE UNCHANGED allVars
  BY <1>4 DEF allVars, connVars, serverVars, WorkerInvariant, Handshaking
<1>. QED  BY <1>1, <1>2, <1>3, <1>4 DEF SysNext, Stop

(* A thread that is not started stays as it is.                            *)
LEMMA StartsOnce ==
  ASSUME PlanOK, MainStep
  PROVE  /\ \A t \in Threads : status'[t] = "new" => status[t] = "new"
         /\ \A t \in Threads : segment'[t] = segment[t] \/ (status[t] = "new" /\ status'[t] = "running")
         /\ \A t \in Threads : status'[t] = status[t] \/ (status[t] = "new" /\ status'[t] = "running")
         /\ UNCHANGED fileLength
<1>. /\ status \in [Threads -> {"new", "running", "ended", "failed"}]
     /\ segment \in [Threads -> [startPos : Nat, transferLength : Nat]]
     /\ i \in Slots
  BY PlanTypes
<1>1. /\ main = "split" => i \notin Started
      /\ main = "create" => Started = {}
  <2>1. /\ main = "split" => threads = 0..(i - 1) /\ Started = threads
        /\ main = "create" => Started = {}
    BY DEF PlanOK, Plan!PlanOK, Plan!PlanInvariant, Started, Plan!Started, Threads, Plan!Threads,
           Slots, Plan!Slots, Single, Plan!Single
  <2>2. i \in Nat
    BY NumberOfThreadsAssumption DEF Slots
  <2>. QED  BY <2>1, <2>2
<1>2. ASSUME NEW t \in Threads, NEW p, NEW l, Start(t, p, l), t \notin Started
      PROVE  /\ \A u \in Threads : status'[u] = "new" => status[u] = "new"
             /\ \A u \in Threads : segment'[u] = segment[u] \/ (status[u] = "new" /\ status'[u] = "running")
             /\ \A u \in Threads : status'[u] = status[u] \/ (status[u] = "new" /\ status'[u] = "running")
  BY <1>2 DEF Start, Started
<1>3. UNCHANGED fileLength
  BY DEF MainStep, BeginSplit, StartNext, StartLast, StartSingle, JoinReturns, mainVars
<1>4. CASE UNCHANGED <<status, segment>>
  BY <1>3, <1>4
<1>5. CASE StartNext \/ StartLast
  <2>1. i \in Threads /\ i \notin Started
    BY <1>1, <1>5 DEF StartNext, StartLast, Threads
  <2>2. UNCHANGED <<status, segment>> \/ \E p, l : Start(i, p, l)
    BY <1>5 DEF StartNext, StartLast
  <2>. QED  BY <1>2, <1>3, <1>4, <2>1, <2>2
<1>6. CASE StartSingle
  <2>1. Single \in Threads /\ Single \notin Started
    BY <1>1, <1>6 DEF StartSingle, Threads
  <2>2. \E p, l : Start(Single, p, l)
    BY <1>6 DEF StartSingle
  <2>. QED  BY <1>2, <1>3, <2>1, <2>2
<1>. QED  BY <1>4, <1>5, <1>6 DEF MainStep, BeginSplit, JoinReturns, planVars

(* What any step does to the client's own variables.                       *)
LEMMA ClientMoves ==
  ASSUME ProtocolInvariant, [SysNext]_allVars
  PROVE  /\ \A t \in Threads : status'[t] = "new" => status[t] = "new"
         /\ \A t \in Threads : segment'[t] = segment[t] \/ (status[t] = "new" /\ status'[t] = "running")
         /\ UNCHANGED size
<1>. PlanOK /\ status \in [Threads -> {"new", "running", "ended", "failed"}]
  BY PlanTypes DEF ProtocolInvariant
<1>1. CASE MainStep /\ UNCHANGED size
  BY <1>1, StartsOnce
<1>2. CASE UNCHANGED <<status, segment, size>>
  BY <1>2
<1>3. ASSUME NEW t \in Threads, \E how \in {"ended", "failed"} : ThreadEnds(t, how), UNCHANGED size
      PROVE  /\ \A u \in Threads : status'[u] = "new" => status[u] = "new"
             /\ UNCHANGED segment
  BY <1>3 DEF ThreadEnds, planVars
<1>4. UNCHANGED size
  BY DEF SysNext, serverVars, allVars, AcceptorStep, AcceptConnection, ReadRequest, ReadName, ReadStartPos,
     ReadLength, HandshakeFails, HandshakeAtEnd, AcceptorEnds, WorkerStep, SendLength, Confirmed, SendFilelist,
     SendBytes, SendOver, SendAborts, WorkerFails, WorkerEnds, Stop
<1>5. \/ MainStep \/ UNCHANGED <<status, segment>>
      \/ \E t \in Threads, how \in {"ended", "failed"} : ThreadEnds(t, how)
  <2>1. UNCHANGED vars => UNCHANGED <<status, segment>>
    BY DEF vars, planVars
  <2>2. MainRuns \/ AcksRuns => MainStep \/ UNCHANGED <<status, segment>>
    BY DEF MainRuns, AcksRuns, AcksStep, AcksLook, AcksPassOver, planVars
  <2>3. AskStep => UNCHANGED <<status, segment>>
    BY <2>1 DEF AskStep, AskConnect, AskName, AskAnswer, AskFails, LengthReceived, LengthFailed, planVars
  <2>4. ASSUME NEW t \in Threads, TransferStep(t)
        PROVE  UNCHANGED <<status, segment>> \/ \E how \in {"ended", "failed"} : ThreadEnds(t, how)
    BY <2>1, <2>4 DEF TransferStep, TransferConnect, TransferAsk, TransferSeek, TransferReceive,
       TransferOver, TransferFails
  <2>5. ListStep \/ UserStep => UNCHANGED vars
    BY DEF ListStep, ListConnect, ListDir, ListAnswer, ListFails, UserStep, StartListing, Quit
  <2>. QED  BY <2>1, <2>2, <2>3, <2>4, <2>5 DEF SysNext, ClientStep, allVars
<1>. QED  BY <1>1, <1>2, <1>3, <1>4, <1>5

(* The length that the main thread knows.                                  *)
LEMMA LengthMoves ==
  ASSUME ProtocolInvariant, [SysNext]_allVars
  PROVE  \/ UNCHANGED fileLength /\ (main \in {"length", "threw"} => main' \in {"length", "threw"})
         \/ fileLength' = size
<1>1. UNCHANGED <<main, fileLength>> \/ MainStep \/ AskAnswer \/ LengthFailed
  <2>1. UNCHANGED vars => UNCHANGED <<main, fileLength>>
    BY DEF vars, mainVars
  <2>2. MainRuns \/ AcksRuns => MainStep \/ UNCHANGED <<main, fileLength>>
    BY DEF MainRuns, AcksRuns, AcksStep, AcksLook, AcksPassOver, mainVars
  <2>3. AskStep => UNCHANGED vars \/ AskAnswer \/ LengthFailed
    BY DEF AskStep, AskConnect, AskName, AskFails
  <2>4. ASSUME NEW t \in Threads, TransferStep(t) PROVE UNCHANGED <<main, fileLength>>
    BY <2>1, <2>4 DEF TransferStep, TransferConnect, TransferAsk, TransferSeek, TransferReceive,
       TransferOver, TransferFails, ThreadEnds, mainVars
  <2>5. ListStep \/ UserStep => UNCHANGED vars
    BY DEF ListStep, ListConnect, ListDir, ListAnswer, ListFails, UserStep, StartListing, Quit
  <2>. QED  BY <2>1, <2>2, <2>3, <2>4, <2>5 DEF SysNext, ClientStep, allVars
<1>2. CASE MainStep
  BY <1>2 DEF MainStep, BeginSplit, StartNext, StartLast, StartSingle, JoinReturns, mainVars
<1>3. CASE AskAnswer
  BY <1>3, LengthAnswered DEF LengthReceived
<1>4. CASE LengthFailed
  BY <1>4 DEF LengthFailed
<1>. QED  BY <1>1, <1>2, <1>3, <1>4

LEMMA ClientKept ==
  ASSUME ProtocolInvariant, [SysNext]_allVars
  PROVE  ClientInvariant'
<1>. ClientInvariant /\ RestTypeOK
  BY TypeParts DEF ProtocolInvariant
<1>1. (main \notin {"length", "threw"} => fileLength = size)'
  BY LengthMoves, ClientMoves DEF ClientInvariant
<1>2. ASSUME NEW t \in Threads, status'[t] = "new" PROVE transfer'[t] = "connect"
  <2>1. status[t] = "new" /\ transfer[t] = "connect"
    BY <1>2, ClientMoves DEF ClientInvariant
  <2>2. UNCHANGED transfer \/ \E u \in Threads : status[u] = "running" /\
          \E step : transfer' = [transfer EXCEPT ![u] = step]
    <3>1. ClientStep => UNCHANGED transfer \/ \E u \in Threads : TransferStep(u)
      BY DEF ClientStep, MainRuns, AcksRuns, AskStep, AskConnect, AskName, AskAnswer, AskFails, ListStep,
         ListConnect, ListDir, ListAnswer, ListFails, clientVars
    <3>2. ASSUME NEW u \in Threads, TransferStep(u)
          PROVE  UNCHANGED transfer \/ (status[u] = "running" /\ \E step : transfer' = [transfer EXCEPT ![u] = step])
      BY <3>2 DEF TransferStep, TransferConnect, TransferAsk, TransferSeek, TransferReceive, TransferOver,
         TransferFails, Running, clientVars
    <3>. QED  BY <3>1, <3>2 DEF SysNext, UserStep, StartListing, Quit, clientVars, allVars
  <2>. QED  BY <2>1, <2>2 DEF RestTypeOK
<1>. QED  BY <1>1, <1>2 DEF ClientInvariant

-----------------------------------------------------------------------------
(* The handshake.                                                          *)

(* A step leaves connection c alone. *)
Same(c) ==
  /\ toServer'[c] = toServer[c] /\ toClient'[c] = toClient[c]
  /\ serverEnd'[c] = serverEnd[c] /\ worker'[c] = worker[c]
  /\ clientEnd'[c] = clientEnd[c] \/ clientEnd[c] # "none"

OnHand(c) == conn = c /\ accepting \in {"request", "name", "startPos", "length", "dead"}

SameAcceptor(c) == UNCHANGED <<conn, accepting, startPos>> \/ ~OnHand(c)

LEMMA StageFrame ==
  ASSUME NEW t \in Threads, Stage(t), Same(t), SameAcceptor(t), transfer'[t] = transfer[t],
         segment'[t] = segment[t] \/ transfer[t] = "connect"
  PROVE  Stage(t)'
<1>1. \A step \in {"request", "name", "startPos", "length"} : At(t, step) => At(t, step)' /\ UNCHANGED startPos
  BY DEF At, SameAcceptor, OnHand
<1>2. Untouched(t) => Untouched(t)'
  BY DEF Same, Untouched, Streams
<1>3. \A kind : Requested(t, kind) => Requested(t, kind)'
  BY <1>1 DEF Same, Requested, Streams
<1>4. \A step \in {"name", "startPos", "length"} : \A m : Asked(t, step, m) => Asked(t, step, m)' /\ UNCHANGED startPos
  BY <1>1 DEF Same, Asked, Streams
<1>5. \A step \in {"name", "startPos", "length"} :
        Acknowledged(t, step) => Acknowledged(t, step)' /\ UNCHANGED startPos
  BY <1>1 DEF Same, Acknowledged, Streams
<1>6. Handed(t) => Handed(t)'
  BY DEF Same, Handed
<1>7. segment'[t] = segment[t] => StartMessage(t)' = StartMessage(t) /\ LengthMessage(t)' = LengthMessage(t)
  BY DEF StartMessage, LengthMessage
<1>. QED  BY <1>2, <1>3, <1>4, <1>5, <1>6, <1>7 DEF Stage

LEMMA AskFrame ==
  ASSUME AskStage, Same(Asker), SameAcceptor(Asker), UNCHANGED <<asking, size>>
  PROVE  AskStage'
<1>1. At(Asker, "request") => At(Asker, "request")'
  BY DEF At, SameAcceptor, OnHand
<1>. QED  BY <1>1 DEF AskStage, Same, Untouched, Requested, Streams

(* A broken connection stays broken. *)
LEMMA LostStays ==
  ASSUME ProtocolInvariant, [SysNext]_allVars
  PROVE  \A c \in Conns : Lost(c) => Lost(c)'
<1>. EndsEffect /\ EndsTypeOK /\ QueueInvariant /\ EndsInvariant
  BY EndsEffects, TypeParts DEF ProtocolInvariant
<1>1. ASSUME NEW C, Reset(C) PROVE \A c \in Conns : Lost(c) => Lost(c)'
  BY <1>1 DEF Reset, Lost
<1>2. ASSUME NEW c \in Conns, NEW m, Connect(c, m) PROVE \A d \in Conns : Lost(d) => Lost(d)'
  BY <1>2 DEF Connect, Lost, EndsTypeOK, EndsInvariant
<1>3. ASSUME NEW c \in Conns, Accept(c) PROVE \A d \in Conns : Lost(d) => Lost(d)'
  <2>1. serverEnd[c] = "queued" /\ serverEnd' = [serverEnd EXCEPT ![c] = "open"]
    BY <1>3 DEF Accept, EndsTypeOK, QueueInvariant
  <2>. QED  BY <2>1 DEF Lost, EndsTypeOK
<1>4. ASSUME NEW c \in Conns, ServerCloses(c) PROVE \A d \in Conns : Lost(d) => Lost(d)'
  BY <1>4 DEF ServerCloses, Lost, EndsTypeOK
<1>5. UNCHANGED serverEnd => \A d \in Conns : Lost(d) => Lost(d)'
  BY DEF Lost
<1>. QED  BY <1>1, <1>2, <1>3, <1>4, <1>5 DEF EndsEffect, CloseListener, ConnectionLost

(* The acceptor leaves the other connections alone, and a worker all but   *)
(* its own.                                                                *)
LEMMA AcceptorFrame ==
  ASSUME ProtocolInvariant, AcceptorStep, NEW c \in Conns, c # conn, c # conn'
  PROVE  Same(c) /\ SameAcceptor(c)
<1>. StreamsInvariant /\ RestTypeOK /\ EndsTypeOK
  BY TypeParts DEF ProtocolInvariant
<1>1. ~OnHand(c)
  BY DEF OnHand
<1>2. CASE AcceptConnection
  BY <1>1, <1>2 DEF AcceptConnection, Accept, Same, SameAcceptor, EndsTypeOK
<1>3. CASE ReadRequest
  BY <1>1, <1>3 DEF ReadRequest, ServerGets, ServerSends, Same, SameAcceptor, StreamsInvariant, RestTypeOK
<1>4. CASE ReadName \/ ReadLength
  BY <1>1, <1>4 DEF ReadName, ReadLength, ServerGets, ServerSends, Same, SameAcceptor,
     StreamsInvariant, RestTypeOK
<1>5. CASE ReadStartPos
  BY <1>1, <1>5 DEF ReadStartPos, ServerGets, ServerSends, Same, SameAcceptor, StreamsInvariant
<1>. QED  BY <1>1, <1>2, <1>3, <1>4, <1>5 DEF AcceptorStep, HandshakeFails, HandshakeAtEnd, AcceptorEnds,
          connVars, Same, SameAcceptor

LEMMA WorkerFrame ==
  ASSUME ProtocolInvariant, NEW c \in Conns, WorkerStep(c)
  PROVE  /\ UNCHANGED <<conn, accepting, startPos>>
         /\ \A d \in Conns : d # c => Same(d)
<1>. StreamsInvariant /\ RestTypeOK /\ EndsTypeOK
  BY TypeParts DEF ProtocolInvariant
<1>1. UNCHANGED <<conn, accepting, startPos, clientEnd>>
  BY DEF WorkerStep, SendLength, Confirmed, SendFilelist, SendBytes, SendOver, SendAborts, WorkerFails, WorkerEnds
<1>2. UNCHANGED serverEnd \/ ServerCloses(c)
  BY DEF WorkerStep, SendLength, Confirmed, SendFilelist, SendBytes, SendOver, SendAborts, WorkerFails, WorkerEnds
<1>3. UNCHANGED toServer \/ \E n : ServerGets(c, n)
  BY DEF WorkerStep, SendLength, Confirmed, SendFilelist, SendBytes, SendOver, SendAborts, WorkerFails, WorkerEnds
<1>4. UNCHANGED toClient \/ \E q : ServerSends(c, q)
  BY DEF WorkerStep, SendLength, Confirmed, SendFilelist, SendBytes, SendOver, SendAborts, WorkerFails, WorkerEnds
<1>5. UNCHANGED worker \/ worker' = [worker EXCEPT ![c] = "confirm"] \/ worker' = [worker EXCEPT ![c] = "over"]
  BY DEF WorkerStep, SendLength, Confirmed, SendFilelist, SendBytes, SendOver, SendAborts, WorkerFails, WorkerEnds
<1>6. ASSUME NEW d \in Conns, d # c PROVE Same(d)
  <2>1. serverEnd'[d] = serverEnd[d]
    BY <1>2, <1>6 DEF ServerCloses, EndsTypeOK
  <2>2. toServer'[d] = toServer[d]
    BY <1>3, <1>6 DEF ServerGets, StreamsInvariant
  <2>3. toClient'[d] = toClient[d]
    BY <1>4, <1>6 DEF ServerSends, StreamsInvariant
  <2>4. worker'[d] = worker[d]
    BY <1>5, <1>6 DEF RestTypeOK
  <2>. QED  BY <1>1, <2>1, <2>2, <2>3, <2>4 DEF Same
<1>. QED  BY <1>1, <1>6

(* A client does something with its own connection only. *)
LEMMA ClientFrame ==
  ASSUME ProtocolInvariant, UNCHANGED serverVars,
         NEW c \in Conns,
         \/ c = Asker /\ AskStep
         \/ c = Lister /\ ListStep
         \/ c \in Threads /\ TransferStep(c)
  PROVE  /\ UNCHANGED <<conn, accepting, startPos, worker, size>>
         /\ \A d \in Conns : d # c => Same(d)
<1>. StreamsInvariant /\ RestTypeOK /\ EndsTypeOK
  BY TypeParts DEF ProtocolInvariant
<1>1. UNCHANGED <<conn, accepting, startPos, worker, size>>
  BY DEF serverVars
<1>2. UNCHANGED serverEnd \/ serverEnd' = [serverEnd EXCEPT ![c] = "queued"]
  BY DEF AskStep, AskConnect, AskName, AskAnswer, AskFails, ListStep, ListConnect, ListDir, ListAnswer, ListFails,
     TransferStep, TransferConnect, TransferAsk, TransferSeek, TransferReceive, TransferOver, TransferFails,
     Connect, connVars
<1>3. UNCHANGED toServer \/ \E m : ClientSends(c, m)
  BY DEF AskStep, AskConnect, AskName, AskAnswer, AskFails, ListStep, ListConnect, ListDir, ListAnswer, ListFails,
     TransferStep, TransferConnect, TransferAsk, TransferSeek, TransferReceive, TransferOver, TransferFails,
     Connect, connVars
<1>4. UNCHANGED toClient \/ \E n : ClientGets(c, n)
  BY DEF AskStep, AskConnect, AskName, AskAnswer, AskFails, ListStep, ListConnect, ListDir, ListAnswer, ListFails,
     TransferStep, TransferConnect, TransferAsk, TransferSeek, TransferReceive, TransferOver, TransferFails,
     Connect, connVars
<1>5. UNCHANGED clientEnd \/ clientEnd' = [clientEnd EXCEPT ![c] = "open"] \/ ClientCloses({c})
  BY DEF AskStep, AskConnect, AskName, AskAnswer, AskFails, ListStep, ListConnect, ListDir, ListAnswer, ListFails,
     TransferStep, TransferConnect, TransferAsk, TransferSeek, TransferReceive, TransferOver, TransferFails,
     Connect, connVars
<1>6. ASSUME NEW d \in Conns, d # c PROVE Same(d)
  <2>1. serverEnd'[d] = serverEnd[d]
    BY <1>2, <1>6 DEF EndsTypeOK
  <2>2. toServer'[d] = toServer[d]
    BY <1>3, <1>6 DEF ClientSends, StreamsInvariant
  <2>3. toClient'[d] = toClient[d]
    BY <1>4, <1>6 DEF ClientGets, StreamsInvariant
  <2>4. clientEnd'[d] = clientEnd[d]
    BY <1>5, <1>6 DEF ClientCloses, EndsTypeOK
  <2>. QED  BY <1>1, <2>1, <2>2, <2>3, <2>4 DEF Same
<1>. QED  BY <1>1, <1>6

(* The users and the network: the connections that do not break. *)
LEMMA UserFrame ==
  ASSUME ProtocolInvariant, UNCHANGED serverVars,
         UserStep \/ Stop \/ MainRuns \/ AcksRuns \/ \E d \in Conns : ConnectionLost(d)
  PROVE  /\ UNCHANGED <<conn, accepting, startPos, worker, size>>
         /\ \A c \in Conns : Same(c) \/ Lost(c)'
<1>1. UNCHANGED <<conn, accepting, startPos, worker, size>>
  BY DEF serverVars
<1>2. ASSUME NEW C, Reset(C) PROVE \A c \in Conns : Same(c) \/ Lost(c)'
  BY <1>1, <1>2 DEF Reset, Same, Lost
<1>3. CASE UserStep
  BY <1>1, <1>3 DEF UserStep, StartListing, Quit, ClientCloses, connVars, Same
<1>4. CASE MainRuns \/ AcksRuns
  BY <1>1, <1>4 DEF MainRuns, AcksRuns, connVars, Same
<1>. QED  BY <1>1, <1>2, <1>3, <1>4 DEF Stop, CloseListener, ConnectionLost

(* The acceptor's step on the connection of a transfer thread. *)
LEMMA AcceptorStage ==
  ASSUME ProtocolInvariant, AcceptorStep, UNCHANGED <<vars, clientVars>>,
         NEW t \in Threads, t = conn \/ t = conn', ~Lost(t), Stage(t)
  PROVE  Stage(t)'
<1>. /\ StreamsInvariant /\ RestTypeOK /\ EndsTypeOK /\ WorkerInvariant /\ QueueInvariant /\ EndsInvariant
     /\ t \in Conns /\ UNCHANGED <<transfer, segment>>
  BY TypeParts, ConnNames DEF ProtocolInvariant, vars, planVars, clientVars
<1>1. CASE AcceptConnection
  <2>1. PICK c \in Conns : Accept(c) /\ conn' = c /\ accepting = "accept" /\ accepting' = "request" /\ UNCHANGED worker
    BY <1>1 DEF AcceptConnection
  <2>2. serverEnd[c] = "queued" /\ serverEnd' = [serverEnd EXCEPT ![c] = "open"]
        /\ UNCHANGED <<toServer, toClient, clientEnd>>
    BY <2>1 DEF Accept, EndsTypeOK, QueueInvariant
  <2>3. CASE t = c
    <3>1. transfer[t] = "name" /\ Requested(t, "Transfer")
      BY <2>2, <2>3 DEF Stage, Untouched, Acknowledged, Asked, Handed
    <3>2. Requested(t, "Transfer")'
      BY <2>1, <2>2, <2>3, <3>1 DEF Requested, Streams, At, EndsTypeOK
    <3>. QED  BY <3>1, <3>2 DEF Stage
  <2>4. CASE t # c
    <3>1. Same(t) /\ SameAcceptor(t)
      BY <2>1, <2>2, <2>4 DEF Same, SameAcceptor, OnHand, EndsTypeOK
    <3>. QED  BY <3>1, StageFrame
  <2>. QED  BY <2>3, <2>4
<1>2. CASE ReadRequest
  <2>1. /\ conn = t /\ accepting = "request" /\ serverEnd[t] = "open" /\ worker[t] = "none"
        /\ conn' = t /\ serverEnd'[t] = "open"
    BY <1>2 DEF ReadRequest, WorkerInvariant, Handshaking
  <2>2. transfer[t] = "name" /\ Streams(t, <<Text("Transfer")>>, <<>>)
    BY <1>2, <2>1, ReadNone DEF Stage, Untouched, Acknowledged, Asked, Handed, Requested, At, ReadRequest
  <2>3. PICK n \in ReadSizes(toServer[t]) :
          LET request == IF n = 1 THEN toServer[conn][1].kind ELSE "unknown" IN
          /\ ServerGets(conn, n)
          /\ \/ request = "GetFileLength"
             \/ /\ request = "Transfer"
                /\ ServerSends(conn, <<Text("done")>>)
                /\ accepting' = "name"
                /\ UNCHANGED worker
             \/ request = "Filelist"
             \/ request \notin {"GetFileLength", "Transfer", "Filelist"}
    BY <1>2, <2>1 DEF ReadRequest
  <2>4. n = 1 /\ Left(toServer[t], n) = <<>> /\ toServer[t][1].kind = "Transfer"
    <3>1. PICK m \in Texts : m = Text("Transfer")
      BY Typed DEF Kinds
    <3>2. toServer[t] = <<m>>
      BY <2>2, <3>1 DEF Streams
    <3>3. n = 1 /\ Left(toServer[t], n) = <<>> /\ toServer[t][1] = m
      BY <3>2, ReadOne
    <3>. QED  BY <3>1, <3>3 DEF Text, Message
  <2>5. /\ ServerGets(t, n) /\ ServerSends(t, <<Text("done")>>) /\ accepting' = "name" /\ UNCHANGED worker
    BY <2>1, <2>3, <2>4
  <2>6. toServer'[t] = <<>> /\ toClient'[t] = Done
    BY <2>2, <2>4, <2>5, SendOne DEF ServerGets, ServerSends, Streams, Done, StreamsInvariant
  <2>7. Acknowledged(t, "name")'
    BY <2>1, <2>5, <2>6 DEF Acknowledged, Streams, At, Done, Text, Message
  <2>. QED  BY <2>2, <2>7 DEF Stage
<1>3. CASE ReadName \/ ReadStartPos \/ ReadLength
  <2>1. /\ conn = t /\ accepting \in {"name", "startPos", "length"} /\ serverEnd[t] = "open" /\ worker[t] = "none"
        /\ conn' = t /\ serverEnd'[t] = "open"
    BY <1>3 DEF ReadName, ReadStartPos, ReadLength, WorkerInvariant, Handshaking
  <2>2. PICK n \in ReadSizes(toServer[t]) : ServerGets(t, n) /\ ServerSends(t, <<Text("done")>>)
    BY <1>3, <2>1 DEF ReadName, ReadStartPos, ReadLength
  <2>3. /\ transfer[t] = (CASE accepting = "name" -> "startPos" [] accepting = "startPos" -> "length"
                            [] accepting = "length" -> "seek")
        /\ \E m : Asked(t, accepting, m) /\ m \in Texts
        /\ accepting = "startPos" => Asked(t, accepting, StartMessage(t))
        /\ accepting = "length" => startPos = segment[t].startPos
    <3>1. /\ StartMessage(t) \in Texts /\ LengthMessage(t) \in Texts /\ Text("name") \in Texts
      <4>1. segment[t].startPos \in Nat /\ segment[t].transferLength \in Nat
        BY PlanTypes DEF ProtocolInvariant
      <4>. QED  BY <4>1, Typed DEF StartMessage, LengthMessage, Kinds
    <3>2. toServer[t] # <<>>
      BY <2>2, ReadNone
    <3>. QED  BY <2>1, <3>1, <3>2 DEF Stage, Untouched, Acknowledged, Asked, Handed, Requested, At, Streams
  <2>4. PICK m \in Texts : toServer[t] = <<m>> /\ toClient[t] = <<>> /\ (accepting = "startPos" => m = StartMessage(t))
    <3>1. PICK m \in Texts : toServer[t] = <<m>> /\ toClient[t] = <<>>
      BY <2>3 DEF Asked, Streams
    <3>2. accepting = "startPos" => toServer[t] = <<StartMessage(t)>>
      BY <2>3 DEF Asked, Streams
    <3>3. accepting = "startPos" => m = StartMessage(t)
      BY <3>1, <3>2
    <3>. QED  BY <3>1, <3>3
  <2>5. Left(toServer[t], n) = <<>> /\ toServer[t][1] = m
    BY <2>4, ReadOne
  <2>6. toServer'[t] = <<>> /\ toClient'[t] = Done
    BY <2>2, <2>4, <2>5, SendOne DEF ServerGets, ServerSends, Done, StreamsInvariant
  <2>7. CASE ReadName
    <3>1. transfer[t] = "startPos" /\ accepting' = "startPos" /\ UNCHANGED worker
      BY <2>3, <2>7 DEF ReadName
    <3>2. Acknowledged(t, "startPos")'
      BY <2>1, <2>6, <3>1 DEF Acknowledged, Streams, At, Done, Text, Message
    <3>. QED  BY <3>1, <3>2 DEF Stage
  <2>8. CASE ReadStartPos
    <3>1. transfer[t] = "length" /\ accepting' = "length" /\ UNCHANGED worker /\ startPos' = m.value
          /\ m = StartMessage(t)
      BY <2>1, <2>3, <2>4, <2>5, <2>8 DEF ReadStartPos
    <3>2. Acknowledged(t, "length")'
      BY <2>1, <2>6, <3>1 DEF Acknowledged, Streams, At, Done, Text, Message
    <3>3. startPos' = segment'[t].startPos
      BY <3>1 DEF StartMessage, Message
    <3>. QED  BY <3>1, <3>2, <3>3 DEF Stage
  <2>9. CASE ReadLength
    <3>1. transfer[t] = "seek" /\ worker' = [worker EXCEPT ![t] = "sending"]
      BY <2>1, <2>3, <2>9 DEF ReadLength
    <3>2. Handed(t)'
      BY <2>1, <2>6, <3>1 DEF Handed, RestTypeOK
    <3>. QED  BY <3>1, <3>2 DEF Stage
  <2>. QED  BY <1>3, <2>7, <2>8, <2>9
<1>4. CASE HandshakeFails
  <2>1. Lost(t) \/ (conn # t /\ conn' = conn)
    BY <1>4 DEF HandshakeFails, Lost
  <2>. QED  BY <2>1
<1>5. CASE HandshakeAtEnd
  <2>1. \A c, step : At(c, step) => At(c, step)'
    BY <1>5 DEF HandshakeAtEnd, At
  <2>2. UNCHANGED <<startPos, toServer, toClient, serverEnd, clientEnd, worker>>
    BY <1>5 DEF HandshakeAtEnd, connVars
  <2>. QED  BY <2>1, <2>2 DEF Stage, Untouched, Requested, Asked, Acknowledged, Handed, Streams, Done,
            StartMessage, LengthMessage
<1>6. CASE AcceptorEnds
  <2>1. Same(t) /\ SameAcceptor(t)
    BY <1>6 DEF AcceptorEnds, connVars, Same, SameAcceptor, OnHand
  <2>. QED  BY <2>1, StageFrame
<1>. QED  BY <1>1, <1>2, <1>3, <1>4, <1>5, <1>6 DEF AcceptorStep

(* A step of the thread that answers a transfer thread. *)
LEMMA WorkerStage ==
  ASSUME ProtocolInvariant, NEW t \in Threads, WorkerStep(t), UNCHANGED <<vars, clientVars>>, ~Lost(t), Stage(t)
  PROVE  Stage(t)'
<1>. RestTypeOK /\ EndsTypeOK /\ t \in Conns /\ UNCHANGED <<transfer, segment>>
  BY TypeParts, ConnNames DEF ProtocolInvariant, vars, planVars, clientVars
<1>1. worker[t] # "none"
  BY DEF WorkerStep, SendLength, Confirmed, SendFilelist, SendBytes, SendOver, SendAborts, WorkerFails
<1>2. Handed(t) /\ transfer[t] \in {"seek", "receive"}
  BY <1>1 DEF Stage, Untouched, Requested, Asked, Acknowledged
<1>3. SendBytes(t) \/ WorkerEnds(t)
  BY <1>2 DEF Handed, WorkerStep, SendLength, Confirmed, SendFilelist, SendOver, SendAborts, WorkerFails
<1>4. Handed(t)'
  BY <1>2, <1>3 DEF Handed, SendBytes, WorkerEnds, ServerCloses, RestTypeOK, EndsTypeOK
<1>. QED  BY <1>2, <1>4 DEF Stage

(* A step of the transfer thread itself. *)
LEMMA ThreadStage ==
  ASSUME ProtocolInvariant, NEW t \in Threads, TransferStep(t), UNCHANGED serverVars, ~Lost(t), Stage(t)
  PROVE  Stage(t)'
<1>. /\ StreamsInvariant /\ RestTypeOK /\ EndsTypeOK /\ t \in Conns
     /\ UNCHANGED <<conn, accepting, startPos, worker>>
  BY TypeParts, ConnNames DEF ProtocolInvariant, serverVars
<1>a. UNCHANGED segment
  BY DEF TransferStep, TransferConnect, TransferAsk, TransferSeek, TransferReceive, TransferOver, TransferFails,
     ThreadEnds, vars, planVars
<1>b. Done = <<Text("done")>> /\ Text("done") \in Answers
  BY Typed DEF Done, Kinds
<1>1. CASE TransferConnect(t)
  <2>1. /\ transfer[t] = "connect" /\ transfer' = [transfer EXCEPT ![t] = "name"]
        /\ ClientSends(t, Text("Transfer")) /\ UNCHANGED toClient
        /\ serverEnd' = [serverEnd EXCEPT ![t] = "queued"]
    BY <1>1 DEF TransferConnect, Connect
  <2>2. Untouched(t)
    BY <2>1 DEF Stage
  <2>3. toServer'[t] = <<Text("Transfer")>>
    BY <2>1, <2>2, SendOne DEF ClientSends, Untouched, Streams, StreamsInvariant
  <2>4. Requested(t, "Transfer")'
    BY <2>1, <2>2, <2>3 DEF Requested, Untouched, Streams, EndsTypeOK, Text, Message
  <2>5. transfer'[t] = "name"
    BY <2>1 DEF RestTypeOK
  <2>. QED  BY <2>4, <2>5 DEF Stage
<1>2. CASE TransferAsk(t)
  <2>1. PICK n \in ReadSizes(toClient[t]) : ClientGets(t, n)
    BY <1>2 DEF TransferAsk
  <2>2. /\ transfer[t] \in {"name", "startPos", "length"} /\ transfer' = [transfer EXCEPT ![t] = After(@)]
        /\ ClientSends(t, Reply(t)) /\ UNCHANGED <<serverEnd, clientEnd>>
    BY <1>2 DEF TransferAsk
  <2>3. /\ Acknowledged(t, transfer[t])
        /\ transfer[t] = "length" => startPos = segment[t].startPos
    <3>1. toClient[t] # <<>>
      BY <2>1, ReadNone
    <3>. QED  BY <2>2, <3>1 DEF Stage, Requested, Asked, Streams
  <2>4. toClient[t] = <<Text("done")>> /\ toServer[t] = <<>>
    BY <2>3 DEF Acknowledged, Streams, Done
  <2>5. Left(toClient[t], n) = <<>>
    <3>1. PICK m \in Answers : m = Text("done")
      BY <1>b
    <3>2. toClient[t] = <<m>>
      BY <2>4, <3>1
    <3>. QED  BY <3>2, ReadOne
  <2>6. toClient'[t] = <<>> /\ toServer'[t] = <<Reply(t)>>
    BY <2>1, <2>2, <2>4, <2>5, SendOne DEF ClientGets, ClientSends, StreamsInvariant
  <2>7. transfer'[t] = After(transfer[t])
    BY <2>2 DEF RestTypeOK
  <2>8. \A step : (At(t, step))' = At(t, step)
    BY DEF At
  <2>9. PICK step, m : step = transfer[t] /\ m = Reply(t)
    OBVIOUS
  <2>10. Asked(t, step, m)'
    <3>1. /\ serverEnd'[t] = "open" /\ worker'[t] = "none" /\ At(t, step)
      BY <2>2, <2>3, <2>9 DEF Acknowledged
    <3>. QED  BY <2>6, <2>8, <2>9, <3>1 DEF Asked, Streams
  <2>11. CASE step = "name"
    <3>1. m = Text("name") /\ transfer'[t] = "startPos"
      BY <2>7, <2>9, <2>11 DEF Reply, After
    <3>. QED  BY <2>10, <2>11, <3>1 DEF Stage, Text, Message
  <2>12. CASE step = "startPos"
    <3>1. m = StartMessage(t)' /\ transfer'[t] = "length"
      BY <1>a, <2>7, <2>9, <2>12 DEF Reply, After, StartMessage, Message
    <3>. QED  BY <2>10, <2>12, <3>1 DEF Stage
  <2>13. CASE step = "length"
    <3>1. m = LengthMessage(t)' /\ transfer'[t] = "seek" /\ startPos' = segment'[t].startPos
      BY <1>a, <2>3, <2>7, <2>9, <2>13 DEF Reply, After, LengthMessage, Message
    <3>. QED  BY <2>10, <2>13, <3>1 DEF Stage
  <2>. QED  BY <2>2, <2>9, <2>11, <2>12, <2>13
<1>3. CASE TransferSeek(t) \/ TransferReceive(t)
  <2>1. toClient[t] # <<>> /\ transfer[t] \in {"seek", "receive"} /\ transfer'[t] = "receive"
        /\ UNCHANGED <<serverEnd, toServer>>
    BY <1>3, ReadNone DEF TransferSeek, TransferReceive, RestTypeOK
  <2>2. Handed(t)
    BY <2>1 DEF Stage, Asked, Streams
  <2>3. Handed(t)'
    BY <2>1, <2>2 DEF Handed
  <2>. QED  BY <2>1, <2>3 DEF Stage
<1>4. CASE TransferOver(t)
  <2>1. transfer[t] = "receive" /\ UNCHANGED <<transfer, serverEnd, toServer>>
    BY <1>4 DEF TransferOver, clientVars
  <2>2. Handed(t)'
    BY <2>1 DEF Stage, Handed
  <2>. QED  BY <2>1, <2>2 DEF Stage
<1>5. CASE TransferFails(t)
  <2>1. Same(t) /\ UNCHANGED transfer
    BY <1>5 DEF TransferFails, connVars, clientVars, Same
  <2>2. SameAcceptor(t)
    BY DEF SameAcceptor
  <2>. QED  BY <1>a, <2>1, <2>2, StageFrame
<1>. QED  BY <1>1, <1>2, <1>3, <1>4, <1>5 DEF TransferStep

(* The connection that asks for the length: the acceptor, ...  *)
LEMMA AcceptorAsk ==
  ASSUME ProtocolInvariant, AcceptorStep, UNCHANGED <<vars, clientVars>>,
         Asker = conn \/ Asker = conn', ~Lost(Asker), AskStage
  PROVE  AskStage'
<1>. /\ StreamsInvariant /\ RestTypeOK /\ EndsTypeOK /\ WorkerInvariant /\ QueueInvariant /\ EndsInvariant
     /\ Asker \in Conns /\ UNCHANGED <<asking, quit>>
  BY TypeParts, ConnNames DEF ProtocolInvariant, clientVars
<1>0. CASE asking = "over"
  BY <1>0 DEF AskStage
<1>1. CASE AcceptConnection /\ asking # "over"
  <2>1. PICK c \in Conns : Accept(c) /\ conn' = c /\ accepting = "accept" /\ accepting' = "request"
                           /\ UNCHANGED <<worker, size>>
    BY <1>1 DEF AcceptConnection
  <2>2. serverEnd[c] = "queued" /\ serverEnd' = [serverEnd EXCEPT ![c] = "open"]
        /\ UNCHANGED <<toServer, toClient, clientEnd>>
    BY <2>1 DEF Accept, EndsTypeOK, QueueInvariant
  <2>3. CASE Asker = c
    <3>1. asking = "acknowledged" /\ Requested(Asker, "GetFileLength")
      BY <1>1, <2>2, <2>3 DEF AskStage, Untouched
    <3>2. Requested(Asker, "GetFileLength")'
      BY <2>1, <2>2, <2>3, <3>1 DEF Requested, Streams, At, EndsTypeOK
    <3>. QED  BY <3>1, <3>2 DEF AskStage
  <2>4. CASE Asker # c
    <3>1. Same(Asker) /\ SameAcceptor(Asker)
      BY <2>1, <2>2, <2>4 DEF Same, SameAcceptor, OnHand, EndsTypeOK
    <3>. QED  BY <2>1, <3>1, AskFrame
  <2>. QED  BY <2>3, <2>4
<1>2. CASE ReadRequest /\ asking # "over"
  <2>1. /\ conn = Asker /\ accepting = "request" /\ serverEnd[Asker] = "open" /\ worker[Asker] = "none"
        /\ serverEnd'[Asker] = "open" /\ UNCHANGED size
    BY <1>2 DEF ReadRequest, WorkerInvariant, Handshaking
  <2>2. asking = "acknowledged" /\ Streams(Asker, <<Text("GetFileLength")>>, <<>>)
    BY <1>2, <2>1 DEF AskStage, Untouched, Requested
  <2>3. PICK n \in ReadSizes(toServer[Asker]) :
          LET request == IF n = 1 THEN toServer[conn][1].kind ELSE "unknown" IN
          /\ ServerGets(conn, n)
          /\ \/ /\ request = "GetFileLength"
                /\ ServerSends(conn, <<Text("done")>>)
                /\ worker' = [worker EXCEPT ![conn] = "name"]
             \/ request = "Transfer"
             \/ request = "Filelist"
             \/ request \notin {"GetFileLength", "Transfer", "Filelist"}
    BY <1>2, <2>1 DEF ReadRequest
  <2>4. n = 1 /\ Left(toServer[Asker], n) = <<>> /\ toServer[Asker][1].kind = "GetFileLength"
    <3>1. PICK m \in Texts : m = Text("GetFileLength")
      BY Typed DEF Kinds
    <3>2. toServer[Asker] = <<m>>
      BY <2>2, <3>1 DEF Streams
    <3>3. n = 1 /\ Left(toServer[Asker], n) = <<>> /\ toServer[Asker][1] = m
      BY <3>2, ReadOne
    <3>. QED  BY <3>1, <3>3 DEF Text, Message
  <2>5. ServerGets(Asker, n) /\ ServerSends(Asker, <<Text("done")>>) /\ worker'[Asker] = "name"
    BY <2>1, <2>3, <2>4 DEF RestTypeOK
  <2>6. toServer'[Asker] = <<>> /\ toClient'[Asker] = Done
    BY <2>2, <2>4, <2>5, SendOne DEF ServerGets, ServerSends, Streams, Done, StreamsInvariant
  <2>. QED  BY <2>1, <2>2, <2>5, <2>6 DEF AskStage, Streams, Done, Text, Message
<1>3. CASE (ReadName \/ ReadStartPos \/ ReadLength) /\ asking # "over"
  <2>1. /\ conn = Asker /\ accepting \in {"name", "startPos", "length"}
        /\ serverEnd[Asker] = "open" /\ worker[Asker] = "none"
    BY <1>3 DEF ReadName, ReadStartPos, ReadLength, WorkerInvariant, Handshaking
  <2>. QED  BY <1>3, <2>1 DEF AskStage, Untouched, Requested, At
<1>4. CASE HandshakeFails
  <2>1. Lost(Asker) \/ (conn # Asker /\ conn' = conn)
    BY <1>4 DEF HandshakeFails, Lost
  <2>. QED  BY <2>1
<1>5. CASE HandshakeAtEnd
  <2>1. \A c, step : At(c, step) => At(c, step)'
    BY <1>5 DEF HandshakeAtEnd, At
  <2>2. UNCHANGED <<toServer, toClient, serverEnd, clientEnd, worker, size>>
    BY <1>5 DEF HandshakeAtEnd, connVars
  <2>. QED  BY <2>1, <2>2 DEF AskStage, Untouched, Requested, Streams, Done
<1>6. CASE AcceptorEnds
  <2>1. Same(Asker) /\ SameAcceptor(Asker) /\ UNCHANGED size
    BY <1>6 DEF AcceptorEnds, connVars, Same, SameAcceptor, OnHand
  <2>. QED  BY <2>1, AskFrame
<1>. QED  BY <1>0, <1>1, <1>2, <1>3, <1>4, <1>5, <1>6 DEF AcceptorStep

(* ... the thread that answers, ...  *)
LEMMA WorkerAsk ==
  ASSUME ProtocolInvariant, WorkerStep(Asker), UNCHANGED <<vars, clientVars>>, ~quit, ~Lost(Asker), AskStage
  PROVE  AskStage'
<1>. /\ StreamsInvariant /\ RestTypeOK /\ EndsTypeOK /\ EndsInvariant
     /\ Asker \in Conns /\ UNCHANGED <<asking, quit>>
  BY TypeParts, ConnNames DEF ProtocolInvariant, clientVars
<1>0. CASE asking = "over"
  BY <1>0 DEF AskStage
<1>1. worker[Asker] # "none" /\ UNCHANGED size
  BY DEF WorkerStep, SendLength, Confirmed, SendFilelist, SendBytes, SendOver, SendAborts, WorkerFails, WorkerEnds
<1>2. asking # "over" => /\ serverEnd[Asker] = "open" /\ asking \in {"acknowledged", "answer"}
                         /\ \/ worker[Asker] = "name"
                            \/ worker[Asker] = "confirm" /\ toServer[Asker] = <<>>
                         /\ asking = "acknowledged" => toServer[Asker] = <<>>
  BY <1>1 DEF AskStage, Untouched, Requested, Streams
<1>3. clientEnd[Asker] = "closed" => serverEnd[Asker] = "closed"
  BY DEF EndsInvariant
<1>4. CASE asking # "over"
  <2>1. SendLength(Asker) /\ toServer[Asker] # <<>>
    BY <1>2, <1>3, <1>4, ReadNone DEF WorkerStep, SendLength, Confirmed, SendFilelist, SendBytes, SendOver,
       SendAborts, WorkerFails, ServerAtEnd
  <2>2. asking = "answer" /\ Streams(Asker, <<Text("name")>>, <<>>)
    BY <1>2, <1>4, <2>1 DEF AskStage, Streams
  <2>3. PICK n \in ReadSizes(toServer[Asker]) : ServerGets(Asker, n)
    BY <2>1 DEF SendLength
  <2>4. Left(toServer[Asker], n) = <<>>
    <3>1. PICK m \in Texts : m = Text("name")
      BY Typed DEF Kinds
    <3>2. toServer[Asker] = <<m>>
      BY <2>2, <3>1 DEF Streams
    <3>. QED  BY <3>2, ReadOne
  <2>5. ServerSends(Asker, <<Message("length", size)>>) /\ worker'[Asker] = "confirm" /\ serverEnd'[Asker] = "open"
    BY <1>2, <1>4, <2>1 DEF SendLength, RestTypeOK
  <2>6. toServer'[Asker] = <<>> /\ toClient'[Asker] = <<Message("length", size)>>
    BY <2>2, <2>3, <2>4, <2>5, SendOne DEF ServerGets, ServerSends, Streams, StreamsInvariant
  <2>. QED  BY <1>1, <2>2, <2>5, <2>6 DEF AskStage, Streams, Message
<1>. QED  BY <1>0, <1>4

(* ... and the main thread of the client. *)
LEMMA MainAsk ==
  ASSUME ProtocolInvariant, AskStep, UNCHANGED serverVars, ~Lost(Asker), AskStage
  PROVE  AskStage'
<1>. /\ StreamsInvariant /\ RestTypeOK /\ EndsTypeOK
     /\ Asker \in Conns /\ UNCHANGED <<conn, accepting, startPos, worker, size>>
  BY TypeParts, ConnNames DEF ProtocolInvariant, serverVars
<1>1. CASE AskConnect
  <2>1. /\ asking = "connect" /\ asking' = "acknowledged"
        /\ ClientSends(Asker, Text("GetFileLength")) /\ UNCHANGED toClient
        /\ serverEnd' = [serverEnd EXCEPT ![Asker] = "queued"]
    BY <1>1 DEF AskConnect, Connect
  <2>2. Untouched(Asker)
    BY <2>1 DEF AskStage
  <2>3. toServer'[Asker] = <<Text("GetFileLength")>>
    BY <2>1, <2>2, SendOne DEF ClientSends, Untouched, Streams, StreamsInvariant
  <2>4. Requested(Asker, "GetFileLength")'
    BY <2>1, <2>2, <2>3 DEF Requested, Untouched, Streams, EndsTypeOK, Text, Message
  <2>. QED  BY <2>1, <2>4 DEF AskStage
<1>2. CASE AskName
  <2>1. PICK n \in ReadSizes(toClient[Asker]) : ClientGets(Asker, n)
    BY <1>2 DEF AskName
  <2>2. /\ asking = "acknowledged" /\ asking' = "answer" /\ ClientSends(Asker, Text("name"))
        /\ UNCHANGED serverEnd /\ toClient[Asker] # <<>>
    BY <1>2, ReadNone DEF AskName
  <2>3. serverEnd[Asker] = "open" /\ worker[Asker] = "name" /\ Streams(Asker, <<>>, Done)
    BY <2>2 DEF AskStage, Requested, Streams
  <2>4. Left(toClient[Asker], n) = <<>>
    <3>1. PICK m \in Answers : m = Text("done")
      BY Typed DEF Kinds
    <3>2. toClient[Asker] = <<m>>
      BY <2>3, <3>1 DEF Streams, Done
    <3>. QED  BY <3>2, ReadOne
  <2>5. toClient'[Asker] = <<>> /\ toServer'[Asker] = <<Text("name")>>
    BY <2>1, <2>2, <2>3, <2>4, SendOne DEF ClientGets, ClientSends, Streams, StreamsInvariant
  <2>. QED  BY <2>2, <2>3, <2>5 DEF AskStage, Streams, Text, Message
<1>3. CASE AskAnswer \/ AskFails
  BY <1>3 DEF AskAnswer, AskFails, AskStage
<1>. QED  BY <1>1, <1>2, <1>3 DEF AskStep

LEMMA HandshakeKept ==
  ASSUME ProtocolInvariant, [SysNext]_allVars
  PROVE  HandshakeInvariant'
<1>. HandshakeInvariant /\ ClientInvariant /\ Threads \subseteq Conns /\ Asker \in Conns
  BY ConnNames DEF ProtocolInvariant
<1>0. /\ \A c \in Conns : Lost(c) => Lost(c)'
      /\ quit => quit'
  BY LostStays, EndsEffects
<1>a. ASSUME NEW t \in Threads, Stage(t) PROVE segment'[t] = segment[t] \/ transfer[t] = "connect"
  BY ClientMoves DEF ClientInvariant
<1>b. ASSUME NEW t \in Threads, Stage(t), Same(t), SameAcceptor(t), transfer'[t] = transfer[t] PROVE Stage(t)'
  BY <1>a, <1>b, StageFrame
<1>1. ASSUME NEW t \in Threads, ~Lost(t), ~Lost(t)', Stage(t) PROVE Stage(t)'
  <2>1. ASSUME AcceptorStep, UNCHANGED <<vars, clientVars>> PROVE Stage(t)'
    <3>1. CASE t = conn \/ t = conn'
      BY <1>1, <2>1, <3>1, AcceptorStage
    <3>2. CASE t # conn /\ t # conn'
      BY <1>1, <1>b, <2>1, <3>2, AcceptorFrame DEF clientVars
    <3>. QED  BY <3>1, <3>2
  <2>2. ASSUME NEW c \in Conns, WorkerStep(c), UNCHANGED <<vars, clientVars>> PROVE Stage(t)'
    <3>1. CASE c = t
      BY <1>1, <2>2, <3>1, WorkerStage
    <3>2. CASE c # t
      BY <1>1, <1>b, <2>2, <3>2, WorkerFrame DEF SameAcceptor, clientVars
    <3>. QED  BY <3>1, <3>2
  <2>3. ASSUME ClientStep \/ UserStep, UNCHANGED serverVars PROVE Stage(t)'
    <3>0. SameAcceptor(t)
      BY <2>3 DEF SameAcceptor, serverVars
    <3>1. CASE AskStep
      BY <1>1, <1>b, <2>3, <3>0, <3>1, ClientFrame, ConnNames DEF AskStep, AskConnect, AskName, AskAnswer, AskFails
    <3>2. CASE ListStep
      BY <1>1, <1>b, <2>3, <3>0, <3>2, ClientFrame, ConnNames
         DEF ListStep, ListConnect, ListDir, ListAnswer, ListFails
    <3>3. CASE TransferStep(t)
      BY <1>1, <2>3, <3>3, ThreadStage
    <3>4. ASSUME NEW u \in Threads, u # t, TransferStep(u) PROVE Stage(t)'
      <4>1. transfer'[t] = transfer[t]
        <5>1. UNCHANGED transfer \/ \E step : transfer' = [transfer EXCEPT ![u] = step]
          BY <3>4 DEF TransferStep, TransferConnect, TransferAsk, TransferSeek, TransferReceive, TransferOver,
             TransferFails, clientVars
        <5>. QED  BY <3>4, <5>1, TypeParts DEF ProtocolInvariant, RestTypeOK
      <4>2. Same(t)
        BY <2>3, <3>4, ClientFrame
      <4>. QED  BY <1>1, <1>b, <3>0, <4>1, <4>2
    <3>5. CASE MainRuns \/ AcksRuns \/ UserStep
      <4>1. UNCHANGED transfer
        BY <3>5 DEF MainRuns, AcksRuns, UserStep, StartListing, Quit, clientVars
      <4>2. Same(t)
        BY <1>1, <2>3, <3>5, UserFrame
      <4>. QED  BY <1>1, <1>b, <3>0, <4>1, <4>2
    <3>. QED  BY <2>3, <3>1, <3>2, <3>3, <3>4, <3>5 DEF ClientStep
  <2>4. ASSUME Stop \/ (\E c \in Conns : ConnectionLost(c)), UNCHANGED <<serverVars, vars, clientVars>> PROVE Stage(t)'
    <3>1. Same(t)
      BY <1>1, <2>4, UserFrame
    <3>. QED  BY <1>1, <1>b, <2>4, <3>1 DEF SameAcceptor, serverVars, clientVars
  <2>5. CASE UNCHANGED allVars
    BY <1>1, <1>b, <2>5 DEF Same, SameAcceptor, allVars, connVars, serverVars, clientVars
  <2>. QED  BY <2>1, <2>2, <2>3, <2>4, <2>5 DEF SysNext, Stop
<1>2. ASSUME ~quit', ~Lost(Asker)', AskStage PROVE AskStage'
  <2>0. ~quit /\ ~Lost(Asker)
    BY <1>0, <1>2
  <2>1. ASSUME AcceptorStep, UNCHANGED <<vars, clientVars>> PROVE AskStage'
    <3>1. CASE Asker = conn \/ Asker = conn'
      BY <1>2, <2>0, <2>1, <3>1, AcceptorAsk
    <3>2. CASE Asker # conn /\ Asker # conn'
      BY <1>2, <2>1, <3>2, AcceptorFrame, AskFrame, ClientMoves DEF clientVars
    <3>. QED  BY <3>1, <3>2
  <2>2. ASSUME NEW c \in Conns, WorkerStep(c), UNCHANGED <<vars, clientVars>> PROVE AskStage'
    <3>1. CASE c = Asker
      BY <1>2, <2>0, <2>2, <3>1, WorkerAsk
    <3>2. CASE c # Asker
      BY <1>2, <2>2, <3>2, WorkerFrame, AskFrame, ClientMoves DEF SameAcceptor, clientVars
    <3>. QED  BY <3>1, <3>2
  <2>3. ASSUME ClientStep \/ UserStep, UNCHANGED serverVars PROVE AskStage'
    <3>0. SameAcceptor(Asker) /\ UNCHANGED size
      BY <2>3 DEF SameAcceptor, serverVars
    <3>1. CASE AskStep
      BY <1>2, <2>0, <2>3, <3>1, MainAsk
    <3>2. CASE ListStep
      BY <1>2, <2>3, <3>0, <3>2, ClientFrame, AskFrame, ConnNames
         DEF ListStep, ListConnect, ListDir, ListAnswer, ListFails
    <3>3. ASSUME NEW u \in Threads, TransferStep(u) PROVE AskStage'
      <4>1. UNCHANGED asking
        BY <3>3 DEF TransferStep, TransferConnect, TransferAsk, TransferSeek, TransferReceive, TransferOver,
           TransferFails, clientVars
      <4>2. Same(Asker)
        BY <2>3, <3>3, ClientFrame, ConnNames
      <4>. QED  BY <1>2, <3>0, <4>1, <4>2, AskFrame
    <3>4. CASE MainRuns \/ AcksRuns \/ UserStep
      <4>1. UNCHANGED asking
        BY <3>4 DEF MainRuns, AcksRuns, UserStep, StartListing, Quit, clientVars
      <4>2. Same(Asker)
        BY <1>2, <2>3, <3>4, UserFrame
      <4>. QED  BY <1>2, <3>0, <4>1, <4>2, AskFrame
    <3>. QED  BY <2>3, <3>1, <3>2, <3>3, <3>4 DEF ClientStep
  <2>4. ASSUME Stop \/ (\E c \in Conns : ConnectionLost(c)), UNCHANGED <<serverVars, vars, clientVars>> PROVE AskStage'
    <3>1. Same(Asker)
      BY <1>2, <2>4, UserFrame
    <3>. QED  BY <1>2, <2>4, <3>1, AskFrame DEF SameAcceptor, serverVars, clientVars
  <2>5. CASE UNCHANGED allVars
    BY <1>2, <2>5, AskFrame DEF Same, SameAcceptor, allVars, connVars, serverVars, clientVars
  <2>. QED  BY <2>1, <2>2, <2>3, <2>4, <2>5 DEF SysNext, Stop
<1>. QED  BY <1>0, <1>1, <1>2 DEF HandshakeInvariant

-----------------------------------------------------------------------------
LEMMA ProtocolInit == SysInit => ProtocolInvariant
<1>. SUFFICES ASSUME SysInit PROVE ProtocolInvariant
  OBVIOUS
<1>. USE DEF SysInit, ConnInit, ServerInit, ClientInit, Init
<1>0. \A S : <<>> \in Seq(S) /\ Len(<<>>) = 0 /\ DOMAIN <<>> = {}
  OBVIOUS
<1>1. PlanOK
  BY PlanInit
<1>2. EndsTypeOK /\ QueueInvariant /\ EndsInvariant
  BY <1>0, ConnectionsAssumption DEF EndsTypeOK, QueueInvariant, EndsInvariant, Ends, Lost
<1>3. RestTypeOK
  BY FileServerAssumption DEF RestTypeOK
<1>4. StreamsInvariant
  BY <1>0 DEF StreamsInvariant
<1>5. WorkerInvariant
  BY DEF WorkerInvariant, Handshaking
<1>6. HandshakeInvariant
  <2>1. \A c \in Conns : Untouched(c)
    BY DEF Untouched, Streams
  <2>. QED  BY <2>1, ConnNames DEF HandshakeInvariant, Stage, AskStage
<1>7. ClientInvariant
  BY DEF ClientInvariant
<1>. QED  BY <1>1, <1>2, <1>3, <1>4, <1>5, <1>6, <1>7, TypeParts DEF ProtocolInvariant

(* The protocol, whatever breaks and whoever quits.                        *)
THEOREM ProtocolCorrect == Spec => []ProtocolInvariant
<1>1. ProtocolInvariant /\ [SysNext]_allVars => ProtocolInvariant'
  <2>. SUFFICES ASSUME ProtocolInvariant, [SysNext]_allVars PROVE ProtocolInvariant'
    OBVIOUS
  <2>1. PlanOK' /\ StreamsInvariant' /\ EndsTypeOK' /\ EndsInvariant' /\ QueueInvariant'
    BY PlanKept, StreamsKept, EndsKept
  <2>2. RestTypeOK' /\ WorkerInvariant' /\ ClientInvariant' /\ HandshakeInvariant'
    BY RestKept, WorkersKept, ClientKept, HandshakeKept
  <2>3. TypeOK'
    BY <2>1, <2>2 DEF TypeOK, EndsTypeOK, RestTypeOK, Ends
  <2>. QED  BY <2>1, <2>2, <2>3 DEF ProtocolInvariant
<1>. QED  BY <1>1, ProtocolInit, PTL DEF Spec

(* Type correctness of the whole system: among other things, the server    *)
(* socket never queues more than it may, nor what is not to be accepted.   *)
THEOREM TypeCorrect == Spec => []TypeOK
<1>1. ProtocolInvariant => TypeOK
  BY DEF ProtocolInvariant
<1>. QED  BY ProtocolCorrect, <1>1, PTL

(* The acceptor never takes one message of a transfer thread for another,  *)
(* even where a read may return more than one message.                     *)
THEOREM HandshakeCorrect == Spec => []HandshakeInStep
<1>1. ProtocolInvariant => HandshakeInStep
  <2>. SUFFICES ASSUME ProtocolInvariant,
                       NEW t \in Threads, conn = t, serverEnd[t] = "open", toServer[t] # <<>>
                PROVE  CASE accepting = "request"  -> toServer[t][1].kind = "Transfer"
                         [] accepting = "name"     -> toServer[t][1].kind = "name"
                         [] accepting = "startPos" -> toServer[t][1].kind = "startPos"
                         [] accepting = "length"   -> toServer[t][1].kind = "length"
                         [] OTHER -> TRUE
    BY DEF HandshakeInStep
  <2>1. Stage(t)
    BY DEF ProtocolInvariant, HandshakeInvariant, Lost
  <2>2. Handshaking => worker[t] = "none"
    BY DEF ProtocolInvariant, WorkerInvariant
  <2>3. accepting = "request" => toServer[t] = <<Text("Transfer")>>
    BY <2>1, <2>2 DEF Stage, Untouched, Requested, Asked, Acknowledged, Handed, At, Streams, Handshaking
  <2>4. accepting = "name" => toServer[t] = <<Text("name")>>
    BY <2>1, <2>2 DEF Stage, Untouched, Requested, Asked, Acknowledged, Handed, At, Streams, Handshaking
  <2>5. accepting = "startPos" => toServer[t] = <<StartMessage(t)>>
    BY <2>1, <2>2 DEF Stage, Untouched, Requested, Asked, Acknowledged, Handed, At, Streams, Handshaking
  <2>6. accepting = "length" => toServer[t] = <<LengthMessage(t)>>
    BY <2>1, <2>2 DEF Stage, Untouched, Requested, Asked, Acknowledged, Handed, At, Streams, Handshaking
  <2>. QED  BY <2>3, <2>4, <2>5, <2>6 DEF Text, StartMessage, LengthMessage, Message
<1>. QED  BY ProtocolCorrect, <1>1, PTL

(* Nothing but the user's closing the client in the middle of a handshake  *)
(* kills the accepting thread: no broken connection, and no answer that    *)
(* comes late.                                                             *)
THEOREM AcceptorCorrect == Spec => []AcceptorDiesOfQuit
<1>1. SysInit => AcceptorDiesOfQuit
  BY DEF SysInit, ServerInit, AcceptorDiesOfQuit
<1>2. ProtocolInvariant /\ AcceptorDiesOfQuit /\ [SysNext]_allVars => AcceptorDiesOfQuit'
  <2>. SUFFICES ASSUME ProtocolInvariant, AcceptorDiesOfQuit, [SysNext]_allVars, accepting' = "dead" PROVE quit'
    BY DEF AcceptorDiesOfQuit
  <2>1. quit => quit'
    BY EndsEffects
  <2>2. CASE accepting = "dead"
    BY <2>1, <2>2 DEF AcceptorDiesOfQuit
  <2>3. CASE HandshakeAtEnd
    <3>1. conn \in Conns /\ clientEnd[conn] = "closed" /\ serverEnd[conn] = "open"
      BY <2>3 DEF HandshakeAtEnd, ServerAtEnd, ProtocolInvariant, WorkerInvariant
    <3>. QED  BY <2>1, <3>1 DEF ProtocolInvariant, EndsInvariant
  <2>4. accepting # "dead" => HandshakeAtEnd
    BY DEF SysNext, serverVars, allVars, AcceptorStep, AcceptConnection, ReadRequest, ReadName, ReadStartPos,
       ReadLength, HandshakeFails, AcceptorEnds, WorkerStep, SendLength, Confirmed, SendFilelist,
       SendBytes, SendOver, SendAborts, WorkerFails, WorkerEnds, Stop
  <2>. QED  BY <2>2, <2>3, <2>4
<1>. QED  BY <1>1, <1>2, ProtocolCorrect, PTL DEF Spec

-----------------------------------------------------------------------------
(* The copy.                                                               *)
LEMMA Concatenated ==
  ASSUME NEW S, NEW q \in Seq(S), NEW r \in Seq(S)
  PROVE  /\ Len(q \o r) = Len(q) + Len(r)
         /\ \A k \in 1..Len(q) : (q \o r)[k] = q[k]
         /\ \A k \in 1..Len(r) : (q \o r)[Len(q) + k] = r[k]
<1>. Len(q) \in Nat /\ Len(r) \in Nat
  OBVIOUS
<1>1. Len(q \o r) = Len(q) + Len(r)
  OBVIOUS
<1>2. ASSUME NEW k \in 1..Len(q) PROVE (q \o r)[k] = q[k]
  OBVIOUS
<1>3. ASSUME NEW k \in 1..Len(r) PROVE (q \o r)[Len(q) + k] = r[k]
  OBVIOUS
<1>. QED  BY <1>1, <1>2, <1>3

LEMMA FlowFrame ==
  ASSUME NEW t \in Threads, Flow(t),
         Len(toClient'[t]) = Len(toClient[t]), toClient'[t] = toClient[t], unsent'[t] = unsent[t],
         transfer'[t] = transfer[t], filePointer'[t] = filePointer[t], segment'[t] = segment[t],
         unsent[t] = <<>> \/ (worker'[t] = worker[t] /\ serverEnd'[t] = serverEnd[t])
  PROVE  Flow(t)'
BY DEF Flow, Ahead, NextByte, SegmentEnd

(* The bytes that a TransferThreadServer has to write. *)
LEMMA SegmentRead ==
  ASSUME NEW p \in Nat, NEW l \in Nat, size = 0 => l = 0, size = 0 \/ l >= BUFFERSIZE
  PROVE  /\ Len(SegmentBytes(p, l)) = l
         /\ \A k \in 1..l : SegmentBytes(p, l)[k] = Byte(p + k - 1)
<1>. DEFINE segm == [k \in 1..l |-> Byte(p + k - 1)]
<1>1. segm \in Seq(Texts)
  <2>1. \A k \in 1..l : Byte(p + k - 1) \in Texts
    BY Typed
  <2>2. segm \in [1..l -> Texts]
    BY <2>1
  <2>. QED  BY <2>2, SeqDef
<1>2. Len(segm) = l /\ \A k \in 1..l : segm[k] = Byte(p + k - 1)
  <2>1. DOMAIN segm = 1..l /\ \A k \in 1..l : segm[k] = Byte(p + k - 1)
    OBVIOUS
  <2>. HIDE DEF segm
  <2>2. Len(segm) \in Nat /\ DOMAIN segm = 1..Len(segm)
    BY <1>1
  <2>. QED  BY <2>1, <2>2
<1>. HIDE DEF segm
<1>3. size # 0 => SegmentBytes(p, l) = segm
  BY ConnectionsAssumption DEF SegmentBytes, segm
<1>4. size = 0 => SegmentBytes(p, l) = <<>> /\ l = 0
  BY DEF SegmentBytes
<1>. QED  BY <1>2, <1>3, <1>4

(* A buffer of bytes is put on the connection. *)
LEMMA FlowSent ==
  ASSUME ProtocolInvariant, NEW t \in Threads, Flow(t), SendBytes(t), UNCHANGED <<vars, clientVars>>
  PROVE  Flow(t)'
<1>. StreamsInvariant /\ RestTypeOK /\ t \in Conns
  BY TypeParts, ConnNames DEF ProtocolInvariant
<1>0. /\ toClient[t] \in Seq(Answers) /\ unsent[t] \in Seq(Texts)
      /\ filePointer[t] \in Nat /\ segment[t].startPos \in Nat
      /\ UNCHANGED <<transfer, filePointer, segment, worker, serverEnd>> /\ worker[t] = "sending"
      /\ serverEnd[t] = "open"
  BY PlanTypes DEF StreamsInvariant, clientVars, vars, planVars, SendBytes, ProtocolInvariant
<1>1. PICK n : /\ n = (IF Len(unsent[t]) < BUFFERSIZE THEN Len(unsent[t]) ELSE BUFFERSIZE)
               /\ ServerSends(t, Taken(unsent[t], n))
               /\ unsent' = [unsent EXCEPT ![t] = Left(@, n)]
  BY DEF SendBytes
<1>2. n \in Nat /\ n <= Len(unsent[t])
  BY <1>0, <1>1, ConnectionsAssumption
<1>3. PICK q, r : q = Taken(unsent[t], n) /\ r = Left(unsent[t], n)
  OBVIOUS
<1>4. /\ q \in Seq(Texts) /\ Len(q) = n /\ \A k \in 1..n : q[k] = unsent[t][k]
      /\ r \in Seq(Texts) /\ Len(r) = Len(unsent[t]) - n /\ \A k \in 1..(Len(unsent[t]) - n) : r[k] = unsent[t][n + k]
  <2>1. PICK u, l : u = unsent[t] /\ l = Len(u)
    OBVIOUS
  <2>2. u \in Seq(Texts) /\ l \in Nat /\ n \in Nat /\ n <= l
    BY <1>0, <1>2, <2>1
  <2>3. q = SubSeq(u, 1, n) /\ r = SubSeq(u, n + 1, l)
    BY <1>3, <2>1 DEF Taken, Left
  <2>4. q \in Seq(Texts) /\ Len(q) = n /\ \A k \in 1..n : q[k] = u[k]
    BY <2>1, <2>2, <2>3
  <2>5. r \in Seq(Texts) /\ Len(r) = l - n /\ \A k \in 1..(l - n) : r[k] = u[n + k]
    BY <2>1, <2>2, <2>3
  <2>. QED  BY <2>1, <2>4, <2>5
<1>5. /\ toClient'[t] = toClient[t] \o q /\ unsent'[t] = r
  BY <1>1, <1>3 DEF ServerSends, StreamsInvariant
<1>6. /\ Len(toClient'[t]) = Len(toClient[t]) + n
      /\ \A k \in 1..Len(toClient[t]) : toClient'[t][k] = toClient[t][k]
      /\ \A k \in 1..n : toClient'[t][Len(toClient[t]) + k] = unsent[t][k]
  <2>1. q \in Seq(Answers)
    BY <1>4, Typed
  <2>2. /\ Len(toClient[t] \o q) = Len(toClient[t]) + Len(q)
        /\ \A k \in 1..Len(toClient[t]) : (toClient[t] \o q)[k] = toClient[t][k]
        /\ \A k \in 1..Len(q) : (toClient[t] \o q)[Len(toClient[t]) + k] = q[k]
    BY <1>0, <2>1, Concatenated
  <2>. QED  BY <1>4, <1>5, <2>2
<1>a. PICK held, base : held = Len(toClient[t]) - Ahead(t) /\ base = NextByte(t)
  OBVIOUS
<1>7. /\ Ahead(t)' = Ahead(t) /\ NextByte(t)' = base /\ SegmentEnd(t)' = SegmentEnd(t)
      /\ Ahead(t) \in {0, 1} /\ base \in Nat /\ held \in Nat
      /\ Len(toClient[t]) = held + Ahead(t)
      /\ Len(toClient'[t]) - Ahead(t)' = held + n
  <2>1. Ahead(t)' = Ahead(t) /\ NextByte(t)' = NextByte(t) /\ SegmentEnd(t)' = SegmentEnd(t)
    BY <1>0 DEF Ahead, NextByte, SegmentEnd
  <2>2. Ahead(t) \in {0, 1} /\ NextByte(t) \in Nat
    BY <1>0 DEF Ahead, NextByte
  <2>3. Len(toClient[t]) - Ahead(t) \in Nat
    BY DEF Flow
  <2>4. Len(toClient[t]) \in Nat
    BY <1>0
  <2>5. held \in Nat /\ base \in Nat
    BY <1>a, <2>2, <2>3
  <2>6. Len(toClient[t]) = held + Ahead(t)
    BY <1>a, <2>2, <2>4
  <2>7. Len(toClient'[t]) - Ahead(t)' = held + n
    BY <1>2, <1>6, <2>1, <2>2, <2>5, <2>6
  <2>. QED  BY <1>a, <2>1, <2>2, <2>5, <2>6, <2>7
<1>8. Ahead(t) = 1 <=> transfer[t] = "seek"
  BY DEF Ahead
<1>9. /\ transfer[t] = "seek" => toClient[t][1] = Text("done")
      /\ \A k \in 1..held : toClient[t][Ahead(t) + k] = Byte(base + k - 1)
      /\ \A k \in 1..Len(unsent[t]) : unsent[t][k] = Byte(base + held + k - 1)
      /\ base + held + Len(unsent[t]) = SegmentEnd(t)
  BY <1>a DEF Flow
<1>10. transfer[t] = "seek" => toClient'[t][1] = Text("done")
  BY <1>0, <1>6, <1>7, <1>8, <1>9
<1>11. ASSUME NEW k \in 1..(held + n) PROVE toClient'[t][Ahead(t) + k] = Byte(base + k - 1)
  <2>1. CASE k <= held
    <3>1. k \in 1..held /\ Ahead(t) + k \in 1..Len(toClient[t])
      BY <1>0, <1>7, <2>1
    <3>. QED  BY <1>6, <1>9, <3>1
  <2>2. CASE k > held
    <3>1. PICK j \in 1..n : k = held + j
      BY <1>2, <1>7, <2>2
    <3>2. Ahead(t) + k = Len(toClient[t]) + j /\ base + k - 1 = base + held + j - 1 /\ j \in 1..Len(unsent[t])
      BY <1>0, <1>2, <1>7, <3>1
    <3>. QED  BY <1>6, <1>9, <3>1, <3>2
  <2>. QED  BY <1>7, <2>1, <2>2
<1>12. ASSUME NEW k \in 1..Len(r) PROVE r[k] = Byte(base + held + n + k - 1)
  <2>1. n + k \in 1..Len(unsent[t]) /\ k \in 1..(Len(unsent[t]) - n) /\ base + held + (n + k) - 1 = base + held + n + k - 1
    BY <1>0, <1>2, <1>4, <1>7
  <2>. QED  BY <1>4, <1>9, <2>1
<1>13. base + (held + n) + Len(r) = SegmentEnd(t)
  <2>1. Len(unsent[t]) \in Nat /\ Len(r) = Len(unsent[t]) - n
    BY <1>0, <1>4
  <2>2. PICK e : e = SegmentEnd(t) /\ base + held + Len(unsent[t]) = e
    BY <1>9
  <2>3. PICK u \in Nat : u = Len(unsent[t])
    BY <2>1
  <2>4. base + held + u = e /\ Len(r) = u - n
    BY <2>1, <2>2, <2>3
  <2>a. base \in Nat /\ held \in Nat /\ n \in Nat /\ u \in Nat
    BY <1>2, <1>7, <2>3
  <2>5. base + (held + n) + (u - n) = e
    BY <2>a, <2>4
  <2>6. base + (held + n) + Len(r) = e
    BY <2>4, <2>5
  <2>. QED  BY <2>2, <2>6
<1>14. held + n \in Nat
  BY <1>2, <1>7
<1>15. PICK held2, base2 : held2 = Len(toClient'[t]) - Ahead(t)' /\ base2 = NextByte(t)'
  OBVIOUS
<1>16. held2 = held + n /\ base2 = base /\ transfer'[t] = transfer[t]
  BY <1>0, <1>7, <1>15
<1>17. \A k \in 1..Len(unsent'[t]) : unsent'[t][k] = Byte(base2 + held2 + k - 1)
  <2>1. ASSUME NEW k \in 1..Len(r) PROVE r[k] = Byte(base + (held + n) + k - 1)
    <3>1. base + held + n + k - 1 = base + (held + n) + k - 1
      BY <1>2, <1>7
    <3>. QED  BY <1>12, <3>1
  <2>. QED  BY <1>5, <1>16, <2>1
<1>18. base2 + held2 + Len(unsent'[t]) = SegmentEnd(t)'
  BY <1>5, <1>7, <1>13, <1>16
<1>19. \A k \in 1..held2 : toClient'[t][Ahead(t)' + k] = Byte(base2 + k - 1)
  BY <1>7, <1>11, <1>16
<1>20. transfer'[t] = "seek" => toClient'[t][1] = Text("done")
  BY <1>10, <1>16
<1>21. held2 \in Nat /\ worker'[t] = "sending" /\ serverEnd'[t] = "open"
  BY <1>0, <1>14, <1>16
<1>. QED  BY <1>15, <1>17, <1>18, <1>19, <1>20, <1>21 DEF Flow, Text, Message, Byte

(* The acceptor starts a TransferThreadServer. *)
LEMMA FlowStarts ==
  ASSUME ProtocolInvariant, BoundInvariant, NoShortSegment,
         NEW t \in Threads, conn = t, ReadLength, UNCHANGED <<vars, clientVars>>, ~Lost(t), ~Lost(t)'
  PROVE  Flow(t)'
<1>. /\ StreamsInvariant /\ RestTypeOK /\ t \in Conns /\ UNCHANGED <<transfer, segment, filePointer>>
  BY TypeParts, ConnNames DEF ProtocolInvariant, vars, planVars, clientVars
<1>1. segment[t].startPos \in Nat /\ segment[t].transferLength \in Nat
  BY PlanTypes DEF ProtocolInvariant
<1>2. /\ transfer[t] = "seek" /\ toServer[t] = <<LengthMessage(t)>> /\ toClient[t] = <<>>
      /\ startPos = segment[t].startPos /\ serverEnd[t] = "open"
  <2>1. accepting = "length" /\ worker[t] = "none" /\ toServer[t] # <<>> /\ serverEnd[t] = "open"
    BY ReadNone DEF ReadLength, ProtocolInvariant, WorkerInvariant, Handshaking
  <2>2. Stage(t)
    BY DEF ProtocolInvariant, HandshakeInvariant
  <2>. QED  BY <2>1, <2>2 DEF Stage, Untouched, Requested, Asked, Acknowledged, Handed, At, Streams
<1>3. toServer[t][1].value = segment[t].transferLength
  BY <1>2 DEF LengthMessage, Message
<1>4. /\ unsent'[t] = SegmentBytes(segment[t].startPos, segment[t].transferLength)
      /\ toClient'[t] = <<Text("done")>> /\ worker'[t] = "sending" /\ serverEnd'[t] = "open"
  BY <1>2, <1>3, SendOne DEF ReadLength, ServerSends, StreamsInvariant, RestTypeOK
<1>5. t \in Started
  BY <1>2 DEF ProtocolInvariant, ClientInvariant, Started
<1>6. PICK p \in Nat, l \in Nat : p = segment[t].startPos /\ l = segment[t].transferLength
  BY <1>1
<1>7. SegmentEnd(t) = p + l /\ p + l <= size
  BY <1>5, <1>6 DEF BoundInvariant, SegmentEnd
<1>8. (size = 0 => l = 0) /\ (size = 0 \/ l >= BUFFERSIZE)
  BY <1>5, <1>6, <1>7 DEF NoShortSegment
<1>9. /\ Len(unsent'[t]) = l
      /\ \A k \in 1..l : unsent'[t][k] = Byte(p + k - 1)
  <2>1. PICK b : b = SegmentBytes(p, l)
    OBVIOUS
  <2>2. Len(b) = l /\ \A k \in 1..l : b[k] = Byte(p + k - 1)
    <3>1. /\ Len(SegmentBytes(p, l)) = l
          /\ \A k \in 1..l : SegmentBytes(p, l)[k] = Byte(p + k - 1)
      BY ONLY <1>8, SegmentRead, p \in Nat, l \in Nat
    <3>. QED  BY <2>1, <3>1
  <2>3. unsent'[t] = b
    BY <1>4, <1>6, <2>1
  <2>. QED  BY <2>2, <2>3
<1>10. /\ Ahead(t)' = 1 /\ NextByte(t)' = p /\ SegmentEnd(t)' = p + l /\ transfer'[t] = "seek"
  BY <1>2, <1>6, <1>7 DEF Ahead, NextByte, SegmentEnd
<1>11. Len(toClient'[t]) = 1 /\ toClient'[t][1] = Text("done")'
  BY <1>4 DEF Text, Message
<1>12. PICK h, e : h = Len(toClient'[t]) - Ahead(t)' /\ e = SegmentEnd(t)'
  OBVIOUS
<1>13. h = 0 /\ e = p + l
  BY <1>10, <1>11, <1>12
<1>14. \A k \in 1..Len(unsent'[t]) : unsent'[t][k] = Byte(p + h + k - 1)
  <2>1. ASSUME NEW k \in 1..l PROVE p + 0 + k - 1 = p + k - 1
    OBVIOUS
  <2>. QED  BY <1>9, <1>13, <2>1
<1>15. p + h + Len(unsent'[t]) = e
  BY <1>9, <1>13
<1>16. \A k \in 1..h : toClient'[t][Ahead(t)' + k] = Byte(p + k - 1)
  BY <1>13
<1>17. h \in Nat
  BY <1>13
<1>. QED  BY <1>4, <1>10, <1>11, <1>12, <1>14, <1>15, <1>16, <1>17 DEF Flow, Byte, Message, Text

(* The thread reads the acknowledgement and nothing more. *)
LEMMA FlowSeeks ==
  ASSUME ProtocolInvariant, ~Coalesce, NEW t \in Threads, Flow(t), TransferSeek(t), UNCHANGED serverVars
  PROVE  Flow(t)'
<1>. StreamsInvariant /\ RestTypeOK /\ t \in Conns
  BY TypeParts, ConnNames DEF ProtocolInvariant
<1>1. PICK n \in ReadSizes(toClient[t]) : ClientGets(t, n)
  BY DEF TransferSeek
<1>2. /\ toClient[t] \in Seq(Answers) /\ segment[t].startPos \in Nat /\ transfer[t] = "seek"
      /\ UNCHANGED <<segment, worker, serverEnd, unsent>>
      /\ transfer'[t] = "receive" /\ filePointer'[t] = segment[t].startPos
  BY PlanTypes DEF StreamsInvariant, RestTypeOK, TransferSeek, vars, planVars, serverVars, ProtocolInvariant
<1>3. n = 1
  <2>1. toClient[t] # <<>> /\ Head(toClient[t]).kind = "done"
    <3>1. toClient[t] # <<>>
      BY <1>1, ReadNone
    <3>2. Head(toClient[t]) = toClient[t][1]
      BY <1>2, <3>1
    <3>3. toClient[t][1] = Text("done")
      BY <1>2 DEF Flow
    <3>. QED  BY <3>1, <3>2, <3>3 DEF Text, Message
  <2>. QED  BY <1>1, <2>1 DEF ReadSizes
<1>4. PICK q, r, p, l : q = toClient[t] /\ r = toClient'[t] /\ p = segment[t].startPos /\ l = Len(q)
  OBVIOUS
<1>5. /\ l \in Nat \ {0} /\ Len(r) = l - 1 /\ \A k \in 1..(l - 1) : r[k] = q[1 + k]
  <2>1. r = Left(q, 1)
    BY <1>1, <1>3, <1>4 DEF ClientGets, StreamsInvariant
  <2>. QED  BY <1>1, <1>2, <1>3, <1>4, <2>1, ReadSome
<1>6. /\ Ahead(t) = 1 /\ Ahead(t)' = 0 /\ NextByte(t) = p /\ NextByte(t)' = p /\ SegmentEnd(t)' = SegmentEnd(t)
  BY <1>2, <1>4 DEF Ahead, NextByte, SegmentEnd
<1>7. /\ l - 1 \in Nat
      /\ \A k \in 1..(l - 1) : q[1 + k] = Byte(p + k - 1)
      /\ \A k \in 1..Len(unsent[t]) : unsent[t][k] = Byte(p + (l - 1) + k - 1)
      /\ p + (l - 1) + Len(unsent[t]) = SegmentEnd(t)
      /\ (worker[t] = "over" \/ serverEnd[t] = "closed") => unsent[t] = <<>>
  BY <1>4, <1>6 DEF Flow
<1>8. PICK h : h = Len(toClient'[t]) - Ahead(t)'
  OBVIOUS
<1>9. h = l - 1
  BY <1>4, <1>5, <1>6, <1>8
<1>10. \A k \in 1..h : toClient'[t][Ahead(t)' + k] = Byte(p + k - 1)
  <2>1. ASSUME NEW k \in 1..h PROVE toClient'[t][Ahead(t)' + k] = Byte(p + k - 1)
    <3>1. Ahead(t)' + k = k /\ k \in 1..(l - 1)
      BY <1>5, <1>6, <1>9
    <3>2. toClient'[t][k] = q[1 + k]
      BY <1>4, <1>5, <3>1
    <3>. QED  BY <1>7, <3>1, <3>2
  <2>. QED  BY <2>1
<1>11. /\ \A k \in 1..Len(unsent'[t]) : unsent'[t][k] = Byte(p + h + k - 1)
       /\ p + h + Len(unsent'[t]) = SegmentEnd(t)'
       /\ (worker'[t] = "over" \/ serverEnd'[t] = "closed") => unsent'[t] = <<>>
       /\ h \in Nat
  BY <1>2, <1>6, <1>7, <1>9
<1>. QED  BY <1>2, <1>6, <1>8, <1>10, <1>11 DEF Flow, Byte, Message

(* A buffer full is received: what it is. *)
LEMMA FlowReceives ==
  ASSUME ProtocolInvariant, NEW t \in Threads, Flow(t), TransferReceive(t), UNCHANGED serverVars
  PROVE  /\ Flow(t)'
         /\ \E n \in Nat :
              /\ filePointer' = [filePointer EXCEPT ![t] = @ + n] /\ filePointer[t] + n <= SegmentEnd(t)
              /\ dest' = [p \in Positions |-> IF filePointer[t] <= p /\ p < filePointer[t] + n THEN p ELSE dest[p]]
<1>. StreamsInvariant /\ RestTypeOK /\ t \in Conns
  BY TypeParts, ConnNames DEF ProtocolInvariant
<1>1. PICK n \in ReadSizes(toClient[t]) :
        /\ ClientGets(t, n) /\ filePointer' = [filePointer EXCEPT ![t] = @ + n]
        /\ dest' = [p \in Positions |->
                     IF p \in filePointer[t]..(filePointer[t] + n - 1)
                     THEN toClient[t][p - filePointer[t] + 1].value
                     ELSE dest[p]]
  BY DEF TransferReceive
<1>2. /\ toClient[t] \in Seq(Answers) /\ filePointer[t] \in Nat /\ transfer[t] = "receive"
      /\ UNCHANGED <<segment, worker, serverEnd, unsent, transfer>>
      /\ unsent[t] \in Seq(Texts)
  BY DEF StreamsInvariant, RestTypeOK, TransferReceive, vars, planVars, serverVars
<1>4. PICK q, r, f, l : q = toClient[t] /\ r = toClient'[t] /\ f = filePointer[t] /\ l = Len(q)
  OBVIOUS
<1>5. /\ l \in Nat \ {0} /\ n \in 1..l /\ Len(r) = l - n /\ \A k \in 1..(l - n) : r[k] = q[n + k]
  <2>1. r = Left(q, n)
    BY <1>1, <1>4 DEF ClientGets, StreamsInvariant
  <2>. QED  BY <1>1, <1>2, <1>4, <2>1, ReadSome
<1>6. /\ Ahead(t) = 0 /\ Ahead(t)' = 0 /\ NextByte(t) = f /\ NextByte(t)' = f + n /\ SegmentEnd(t)' = SegmentEnd(t)
      /\ filePointer'[t] = f + n
  <2>1. filePointer'[t] = filePointer[t] + n
    BY <1>1 DEF StreamsInvariant
  <2>. QED  BY <1>2, <1>4, <2>1 DEF Ahead, NextByte, SegmentEnd
<1>7. /\ \A k \in 1..l : q[k] = Byte(f + k - 1)
      /\ \A k \in 1..Len(unsent[t]) : unsent[t][k] = Byte(f + l + k - 1)
      /\ f + l + Len(unsent[t]) = SegmentEnd(t)
      /\ (worker[t] = "over" \/ serverEnd[t] = "closed") => unsent[t] = <<>>
  <2>1. Len(toClient[t]) - Ahead(t) = l
    BY <1>4, <1>5, <1>6
  <2>2. \A k \in 1..l : Ahead(t) + k = k
    BY <1>5, <1>6
  <2>3. \A k \in 1..l : toClient[t][Ahead(t) + k] = Byte(f + k - 1)
    BY <1>6, <2>1 DEF Flow
  <2>4. /\ \A k \in 1..Len(unsent[t]) : unsent[t][k] = Byte(f + l + k - 1)
        /\ f + l + Len(unsent[t]) = SegmentEnd(t)
        /\ (worker[t] = "over" \/ serverEnd[t] = "closed") => unsent[t] = <<>>
    BY <1>6, <2>1 DEF Flow
  <2>. QED  BY <1>4, <2>2, <2>3, <2>4
<1>8. PICK h, b, u, e : h = Len(toClient'[t]) - Ahead(t)' /\ b = NextByte(t)' /\ u = Len(unsent[t]) /\ e = SegmentEnd(t)
  OBVIOUS
<1>9. /\ h = l - n /\ b = f + n /\ f \in Nat /\ l \in Nat /\ n \in Nat /\ n <= l /\ u \in Nat /\ f + l + u = e
      /\ h \in Nat
  BY <1>2, <1>4, <1>5, <1>6, <1>7, <1>8
<1>10. ASSUME NEW k \in 1..h PROVE toClient'[t][Ahead(t)' + k] = Byte(b + k - 1)
  <2>1. Ahead(t)' + k = k /\ n + k \in 1..l /\ k \in 1..(l - n) /\ f + (n + k) - 1 = b + k - 1
    BY <1>6, <1>9
  <2>2. toClient'[t][k] = Byte(f + (n + k) - 1)
    BY <1>4, <1>5, <1>7, <2>1
  <2>. QED  BY <2>1, <2>2
<1>11. \A k \in 1..Len(unsent'[t]) : unsent'[t][k] = Byte(b + h + k - 1)
  <2>1. ASSUME NEW k \in 1..u PROVE f + l + k - 1 = b + h + k - 1
    BY <1>9
  <2>. QED  BY <1>2, <1>7, <1>8, <2>1
<1>12. b + h + Len(unsent'[t]) = SegmentEnd(t)'
  <2>1. b + h + u = e
    BY <1>9
  <2>. QED  BY <1>2, <1>6, <1>8, <2>1
<1>13. Flow(t)'
  <2>1. (worker'[t] = "over" \/ serverEnd'[t] = "closed") => unsent'[t] = <<>>
    BY <1>2, <1>7
  <2>2. h \in Nat /\ transfer'[t] = "receive"
    BY <1>2, <1>9
  <2>. QED  BY <1>8, <1>10, <1>11, <1>12, <2>1, <2>2 DEF Flow, Byte, Message
<1>14. f + n <= e
  BY <1>9
<1>15. ASSUME NEW p \in Positions
       PROVE  dest'[p] = IF f <= p /\ p < f + n THEN p ELSE dest[p]
  <2>0. p \in Nat
    BY FileClientAssumption
  <2>1. CASE f <= p /\ p < f + n
    <3>1. p \in f..(f + n - 1) /\ p - f + 1 \in 1..l /\ f + (p - f + 1) - 1 = p
      BY <1>9, <2>0, <2>1
    <3>2. dest'[p] = toClient[t][p - f + 1].value
      BY <1>1, <1>4, <3>1
    <3>3. toClient[t][p - f + 1] = Byte(p)
      BY <1>4, <1>7, <3>1
    <3>. QED  BY <2>1, <3>2, <3>3 DEF Byte, Message
  <2>2. CASE ~(f <= p /\ p < f + n)
    <3>1. p \notin f..(f + n - 1)
      BY <1>9, <2>0, <2>2
    <3>. QED  BY <1>1, <1>4, <2>2, <3>1
  <2>. QED  BY <2>1, <2>2
<1>16. dest' = [p \in Positions |-> IF f <= p /\ p < f + n THEN p ELSE dest[p]]
  BY <1>1, <1>15
<1>. QED  BY <1>1, <1>4, <1>8, <1>9, <1>13, <1>14, <1>16

(* A thread of the client starts once and ends once.                       *)
LEMMA StatusMoves ==
  ASSUME ProtocolInvariant, [SysNext]_allVars, NEW t \in Threads
  PROVE  \/ status'[t] = status[t]
         \/ status[t] = "new" /\ status'[t] = "running" /\ main' \in {"split", "join"}
         \/ status[t] = "running" /\ status'[t] = "ended" /\ TransferOver(t) /\ UNCHANGED serverVars
         \/ status[t] = "running" /\ status'[t] = "failed"
<1>. PlanOK /\ status \in [Threads -> {"new", "running", "ended", "failed"}]
  BY PlanTypes DEF ProtocolInvariant
<1>1. ASSUME MainStep
      PROVE  status'[t] = status[t] \/ (status[t] = "new" /\ status'[t] = "running" /\ main' \in {"split", "join"})
  <2>1. UNCHANGED status \/ main' \in {"split", "join"}
    BY <1>1 DEF MainStep, BeginSplit, StartNext, StartLast, StartSingle, JoinReturns, mainVars
  <2>. QED  BY <1>1, <2>1, StartsOnce
<1>2. ASSUME NEW u \in Threads, TransferOver(u), UNCHANGED serverVars
      PROVE  status'[t] = status[t] \/ (u = t /\ status[t] = "running" /\ status'[t] = "ended")
  BY <1>2 DEF TransferOver, ThreadEnds
<1>3. ASSUME NEW u \in Threads, TransferFails(u)
      PROVE  status'[t] = status[t] \/ (status[t] = "running" /\ status'[t] = "failed")
  BY <1>3 DEF TransferFails, ThreadEnds
<1>4. \/ MainStep \/ UNCHANGED status
      \/ \E u \in Threads : (TransferOver(u) \/ TransferFails(u)) /\ UNCHANGED serverVars
  <2>1. UNCHANGED vars => UNCHANGED status
    BY DEF vars
  <2>2. MainRuns \/ AcksRuns => MainStep \/ UNCHANGED status
    BY DEF MainRuns, AcksRuns, AcksStep, AcksLook, AcksPassOver
  <2>3. AskStep => UNCHANGED status
    BY <2>1 DEF AskStep, AskConnect, AskName, AskAnswer, AskFails, LengthReceived, LengthFailed
  <2>4. ASSUME NEW u \in Threads, TransferStep(u)
        PROVE  UNCHANGED status \/ TransferOver(u) \/ TransferFails(u)
    BY <2>1, <2>4 DEF TransferStep, TransferConnect, TransferAsk, TransferSeek, TransferReceive
  <2>5. ListStep \/ UserStep => UNCHANGED vars
    BY DEF ListStep, ListConnect, ListDir, ListAnswer, ListFails, UserStep, StartListing, Quit
  <2>. QED  BY <2>1, <2>2, <2>3, <2>4, <2>5 DEF SysNext, ClientStep, allVars
<1>. QED  BY <1>1, <1>2, <1>3, <1>4

(* The server gives a transfer thread's connection a thread of its own in  *)
(* one way only.                                                           *)
LEMMA SenderStarts ==
  ASSUME ProtocolInvariant, [SysNext]_allVars, NEW t \in Threads, ~Lost(t), ~Lost(t)',
         worker[t] \notin {"sending", "over"}, worker'[t] \in {"sending", "over"}
  PROVE  conn = t /\ ReadLength /\ UNCHANGED <<vars, clientVars>>
<1>. RestTypeOK /\ WorkerInvariant /\ t \in Conns
  BY TypeParts, ConnNames DEF ProtocolInvariant
<1>1. worker[t] = "none"
  <2>1. Stage(t)
    BY DEF ProtocolInvariant, HandshakeInvariant
  <2>. QED  BY <2>1 DEF Stage, Untouched, Requested, Acknowledged, Asked, Handed
<1>2. ASSUME NEW c \in Conns, WorkerStep(c) PROVE FALSE
  <2>1. worker[c] # "none"
    BY <1>2 DEF WorkerStep, SendLength, Confirmed, SendFilelist, SendBytes, SendOver, SendAborts, WorkerFails
  <2>. QED  BY <1>1, <1>2, <2>1, WorkerFrame DEF Same
<1>3. ASSUME AcceptorStep, ~ReadLength PROVE FALSE
  <2>1. worker'[t] \in {worker[t], "name", "dir"}
    BY <1>3 DEF AcceptorStep, AcceptConnection, ReadRequest, ReadName, ReadStartPos, HandshakeFails, HandshakeAtEnd,
       AcceptorEnds, RestTypeOK
  <2>. QED  BY <1>1, <2>1
<1>4. ReadLength => conn = t
  BY <1>1 DEF ReadLength, RestTypeOK
<1>5. ~UNCHANGED worker
  BY <1>1
<1>. QED  BY <1>2, <1>3, <1>4, <1>5 DEF SysNext, serverVars, allVars, Stop

(* The acceptor is done with a connection that has a thread. *)
LEMMA AcceptorLeaves ==
  ASSUME ProtocolInvariant, AcceptorStep, NEW t \in Threads, Handed(t)
  PROVE  Same(t) /\ unsent'[t] = unsent[t]
<1>. /\ RestTypeOK /\ WorkerInvariant /\ EndsTypeOK /\ StreamsInvariant /\ QueueInvariant
     /\ t \in Conns /\ worker[t] # "none" /\ serverEnd[t] # "queued"
  BY TypeParts, ConnNames DEF ProtocolInvariant, Handed
<1>1. CASE AcceptConnection
  <2>1. PICK c \in Conns : Accept(c) /\ UNCHANGED <<worker, unsent>>
    BY <1>1 DEF AcceptConnection
  <2>2. serverEnd[c] = "queued" /\ serverEnd' = [serverEnd EXCEPT ![c] = "open"]
    BY <2>1 DEF Accept, EndsTypeOK, QueueInvariant
  <2>. QED  BY <2>1, <2>2 DEF Accept, Same, EndsTypeOK
<1>2. CASE AcceptorEnds
  BY <1>2 DEF AcceptorEnds, connVars, Same
<1>3. CASE Handshaking
  <2>1. conn # t /\ ~AcceptConnection
    BY <1>3 DEF WorkerInvariant, AcceptConnection, Handshaking
  <2>2. UNCHANGED conn /\ (UNCHANGED unsent \/ \E q : unsent' = [unsent EXCEPT ![conn] = q])
    BY <2>1 DEF AcceptorStep, ReadRequest, ReadName, ReadStartPos, ReadLength, HandshakeFails, HandshakeAtEnd,
       AcceptorEnds
  <2>3. unsent'[t] = unsent[t]
    BY <2>1, <2>2 DEF StreamsInvariant
  <2>. QED  BY <2>1, <2>2, <2>3, AcceptorFrame
<1>. QED  BY <1>1, <1>2, <1>3 DEF AcceptorStep, ReadRequest, ReadName, ReadStartPos, ReadLength, HandshakeFails,
          HandshakeAtEnd, Handshaking

(* A TransferThreadServer ends with nothing unsent, if it can read the file. *)
LEMMA SenderFlow ==
  ASSUME ProtocolInvariant, ~ReadErrors, NEW t \in Threads, Live(t), Handed(t), Flow(t),
         WorkerStep(t), UNCHANGED <<vars, clientVars>>
  PROVE  Flow(t)'
<1>. StreamsInvariant /\ RestTypeOK /\ EndsInvariant /\ t \in Conns
  BY TypeParts, ConnNames DEF ProtocolInvariant
<1>1. CASE SendBytes(t)
  BY <1>1, FlowSent
<1>2. ASSUME WorkerEnds(t), unsent[t] = <<>> PROVE Flow(t)'
  <2>1. unsent'[t] = unsent[t]
    BY <1>2 DEF WorkerEnds, StreamsInvariant
  <2>2. toClient'[t] = toClient[t] /\ UNCHANGED <<transfer, filePointer, segment>>
    BY <1>2 DEF WorkerEnds, clientVars, vars, planVars
  <2>. QED  BY <1>2, <2>1, <2>2, FlowFrame
<1>3. CASE SendOver(t)
  BY <1>2, <1>3 DEF SendOver
<1>4. CASE WorkerFails(t)
  <2>1. ServerAtEnd(t)
    BY <1>4 DEF WorkerFails, Live, Lost
  <2>2. serverEnd[t] = "closed"
    BY <2>1 DEF ServerAtEnd, EndsInvariant, Live
  <2>3. unsent[t] = <<>>
    BY <2>2 DEF Flow
  <2>. QED  BY <1>2, <1>4, <2>3 DEF WorkerFails
<1>. QED  BY <1>1, <1>3, <1>4 DEF WorkerStep, SendLength, Confirmed, SendFilelist, SendAborts, Handed

(* The bytes of a thread, whatever step is taken.                          *)
LEMMA FlowKept ==
  ASSUME ProtocolInvariant, CopyInvariant, NoShortSegment, ~Coalesce, ~ReadErrors, [SysNext]_allVars
  PROVE  FlowInvariant'
<1>. /\ StreamsInvariant /\ RestTypeOK /\ EndsInvariant /\ Threads \subseteq Conns
     /\ ClientInvariant /\ FlowInvariant /\ BoundInvariant
  BY TypeParts, ConnNames DEF ProtocolInvariant, CopyInvariant
<1>. SUFFICES ASSUME NEW t \in Threads, Live(t)', worker'[t] \in {"sending", "over"} PROVE Flow(t)'
  BY DEF FlowInvariant
<1>1. ~quit /\ ~Lost(t) /\ ~Lost(t)' /\ ~quit' /\ status'[t] = "running"
  BY LostStays, EndsEffects DEF Live
<1>2. CASE worker[t] \notin {"sending", "over"}
  BY <1>1, <1>2, SenderStarts, FlowStarts
<1>3. ASSUME worker[t] \in {"sending", "over"} PROVE Flow(t)'
  <2>1. Handed(t) /\ transfer[t] \in {"seek", "receive"}
    <3>1. Stage(t)
      BY <1>1 DEF ProtocolInvariant, HandshakeInvariant
    <3>. QED  BY <1>3, <3>1 DEF Stage, Untouched, Requested, Acknowledged, Asked
  <2>2. status[t] = "running" /\ Live(t) /\ Flow(t)
    <3>1. status[t] # "new"
      BY <2>1 DEF ClientInvariant
    <3>2. status[t] = "running"
      BY <1>1, <3>1, StatusMoves
    <3>. QED  BY <1>1, <1>3, <3>2 DEF FlowInvariant, Live
  <2>3. segment'[t] = segment[t]
    BY <2>2, ClientMoves
  <2>4. ASSUME Same(t), unsent'[t] = unsent[t], transfer'[t] = transfer[t], filePointer'[t] = filePointer[t]
        PROVE  Flow(t)'
    BY <2>2, <2>3, <2>4, FlowFrame DEF Same
  <2>5. ASSUME AcceptorStep, UNCHANGED <<vars, clientVars>> PROVE Flow(t)'
    BY <2>1, <2>4, <2>5, AcceptorLeaves DEF clientVars
  <2>6. ASSUME NEW c \in Conns, WorkerStep(c), UNCHANGED <<vars, clientVars>> PROVE Flow(t)'
    <3>1. CASE c = t
      BY <2>1, <2>2, <2>6, <3>1, SenderFlow
    <3>2. ASSUME c # t PROVE Flow(t)'
      <4>1. UNCHANGED unsent \/ \E q : unsent' = [unsent EXCEPT ![c] = q]
        BY <2>6 DEF WorkerStep, SendLength, Confirmed, SendFilelist, SendBytes, SendOver, SendAborts,
           WorkerFails, WorkerEnds
      <4>2. unsent'[t] = unsent[t]
        BY <3>2, <4>1 DEF StreamsInvariant
      <4>. QED  BY <2>4, <2>6, <3>2, <4>2, WorkerFrame DEF clientVars
    <3>. QED  BY <3>1, <3>2
  <2>7. ASSUME ClientStep \/ UserStep, UNCHANGED serverVars PROVE Flow(t)'
    <3>0. unsent'[t] = unsent[t]
      BY <2>7 DEF serverVars
    <3>1. CASE AskStep
      BY <2>4, <2>7, <3>0, <3>1, ClientFrame, ConnNames DEF AskStep, AskConnect, AskName, AskAnswer, AskFails
    <3>2. CASE ListStep
      BY <2>4, <2>7, <3>0, <3>2, ClientFrame, ConnNames
         DEF ListStep, ListConnect, ListDir, ListAnswer, ListFails
    <3>3. ASSUME TransferStep(t) PROVE Flow(t)'
      <4>1. CASE TransferSeek(t)
        BY <2>2, <2>7, <4>1, FlowSeeks
      <4>2. CASE TransferReceive(t)
        BY <2>2, <2>7, <4>2, FlowReceives
      <4>3. ~TransferOver(t) /\ ~TransferFails(t)
        BY <1>1, PlanTypes DEF TransferOver, TransferFails, ThreadEnds, ProtocolInvariant
      <4>. QED  BY <2>1, <3>3, <4>1, <4>2, <4>3 DEF TransferStep, TransferConnect, TransferAsk
    <3>4. ASSUME NEW u \in Threads, u # t, TransferStep(u) PROVE Flow(t)'
      <4>1. /\ UNCHANGED transfer \/ \E step : transfer' = [transfer EXCEPT ![u] = step]
            /\ UNCHANGED filePointer \/ \E p : filePointer' = [filePointer EXCEPT ![u] = p]
        BY <3>4 DEF TransferStep, TransferConnect, TransferAsk, TransferSeek, TransferReceive, TransferOver,
           TransferFails, clientVars
      <4>2. transfer'[t] = transfer[t] /\ filePointer'[t] = filePointer[t]
        BY <3>4, <4>1 DEF RestTypeOK, StreamsInvariant
      <4>. QED  BY <2>4, <2>7, <3>0, <3>4, <4>2, ClientFrame
    <3>5. CASE MainRuns \/ AcksRuns \/ UserStep
      <4>1. UNCHANGED <<transfer, filePointer>>
        BY <3>5 DEF MainRuns, AcksRuns, UserStep, StartListing, Quit, clientVars
      <4>. QED  BY <1>1, <2>4, <2>7, <3>0, <3>5, <4>1, UserFrame
    <3>. QED  BY <2>7, <3>1, <3>2, <3>3, <3>4, <3>5 DEF ClientStep
  <2>8. ASSUME Stop \/ (\E c \in Conns : ConnectionLost(c)), UNCHANGED <<serverVars, vars, clientVars>> PROVE Flow(t)'
    <3>1. Same(t)
      BY <1>1, <2>8, UserFrame
    <3>. QED  BY <2>4, <2>8, <3>1 DEF serverVars, clientVars
  <2>9. CASE UNCHANGED allVars
    BY <2>4, <2>9 DEF Same, allVars, connVars, serverVars, clientVars
  <2>. QED  BY <2>5, <2>6, <2>7, <2>8, <2>9 DEF SysNext, Stop
<1>. QED  BY <1>2, <1>3

(* No thread is ever asked for what is not in the file.                    *)
LEMMA BoundKept ==
  ASSUME ProtocolInvariant, BoundInvariant, ProtocolInvariant', [SysNext]_allVars
  PROVE  BoundInvariant'
<1>. SUFFICES ASSUME NEW t \in Threads, t \in Started' PROVE SegmentEnd(t)' <= size'
  BY DEF BoundInvariant, Started
<1>1. CASE status[t] # "new"
  <2>1. t \in Started /\ segment'[t] = segment[t] /\ size' = size
    BY <1>1, ClientMoves DEF Started
  <2>. QED  BY <2>1 DEF BoundInvariant, SegmentEnd
<1>2. CASE status[t] = "new"
  <2>1. main' \in {"split", "join"}
    BY <1>2, StatusMoves DEF Started
  <2>2. fileLength' = size'
    BY <2>1 DEF ProtocolInvariant, ClientInvariant
  <2>3. t \in Plan!Started'
    BY DEF Started, Plan!Started, Threads, Plan!Threads, Slots, Plan!Slots, Single, Plan!Single
  <2>4. PICK p \in Nat, l \in Nat : p = segment'[t].startPos /\ l = segment'[t].transferLength
    <3>1. segment' \in [Threads -> [startPos : Nat, transferLength : Nat]]
      BY DEF ProtocolInvariant, PlanOK, Plan!PlanOK, Plan!TypeOK, Threads, Plan!Threads, Slots, Plan!Slots,
             Single, Plan!Single
    <3>. QED  BY <3>1
  <2>5. PICK n : p + l <= n /\ (main' = "split" => n = tempstart') /\ (main' = "join" => n = fileLength')
    <3>1. CASE main' = "split"
      <4>1. Plan!CoveredOnce(tempstart)'
        BY <3>1 DEF ProtocolInvariant, PlanOK, Plan!PlanOK, Plan!PlanInvariant
      <4>. QED  BY <2>3, <2>4, <3>1, <4>1 DEF Plan!CoveredOnce
    <3>2. CASE main' = "join"
      <4>1. Plan!CoveredOnce(fileLength)'
        BY <3>2 DEF ProtocolInvariant, PlanOK, Plan!PlanOK, Plan!PlanInvariant
      <4>. QED  BY <2>3, <2>4, <3>2, <4>1 DEF Plan!CoveredOnce
    <3>. QED  BY <2>1, <3>1, <3>2
  <2>6. n <= fileLength'
    <3>1. CASE main' = "split"
      <4>1. tempstart' + remainLen' = fileLength' /\ tempstart' \in Nat /\ remainLen' \in Nat
        BY <3>1 DEF ProtocolInvariant, PlanOK, Plan!PlanOK, Plan!PlanInvariant, Plan!TypeOK
      <4>. QED  BY <2>5, <3>1, <4>1
    <3>2. CASE main' = "join"
      <4>1. fileLength' \in Nat \cup {Plan!FileNotExist}
        BY DEF ProtocolInvariant, PlanOK, Plan!PlanOK, Plan!TypeOK
      <4>. QED  BY <2>5, <3>2, <4>1 DEF Plan!FileNotExist
    <3>. QED  BY <2>1, <3>1, <3>2
  <2>7. n \in Int /\ fileLength' \in Int
    BY <2>1, <2>5 DEF ProtocolInvariant, PlanOK, Plan!PlanOK, Plan!TypeOK, Plan!FileNotExist
  <2>. QED  BY <2>2, <2>4, <2>5, <2>6, <2>7 DEF SegmentEnd
<1>. QED  BY <1>1, <1>2

(* What any step does to the destination file and its writers.             *)
LEMMA CopyMoves ==
  ASSUME ProtocolInvariant, [SysNext]_allVars
  PROVE  \/ /\ UNCHANGED <<dest, filePointer>>
            /\ \A t \in Threads : transfer'[t] = "receive" <=> transfer[t] = "receive"
         \/ \E t \in Threads : TransferSeek(t) /\ UNCHANGED serverVars
         \/ \E t \in Threads : TransferReceive(t) /\ UNCHANGED serverVars
<1>. RestTypeOK
  BY TypeParts DEF ProtocolInvariant
<1>1. CASE UNCHANGED <<dest, filePointer, transfer>>
  BY <1>1
<1>2. UNCHANGED clientVars => UNCHANGED <<dest, filePointer, transfer>>
  BY DEF clientVars
<1>3. MainRuns \/ AcksRuns \/ AskStep \/ ListStep \/ UserStep => UNCHANGED <<dest, filePointer, transfer>>
  BY DEF MainRuns, AcksRuns, AskStep, AskConnect, AskName, AskAnswer, AskFails, ListStep, ListConnect, ListDir,
     ListAnswer, ListFails, UserStep, StartListing, Quit, clientVars
<1>4. ASSUME NEW t \in Threads, TransferConnect(t) \/ TransferAsk(t)
      PROVE  /\ UNCHANGED <<dest, filePointer>>
             /\ \A u \in Threads : transfer'[u] = "receive" <=> transfer[u] = "receive"
  <2>1. UNCHANGED <<dest, filePointer>>
    BY <1>4 DEF TransferConnect, TransferAsk
  <2>2. CASE TransferConnect(t)
    BY <2>1, <2>2 DEF TransferConnect, RestTypeOK
  <2>3. CASE TransferAsk(t)
    <3>1. transfer[t] \in {"name", "startPos", "length"} /\ transfer' = [transfer EXCEPT ![t] = After(@)]
      BY <2>3 DEF TransferAsk
    <3>2. After(transfer[t]) # "receive"
      BY <3>1 DEF After
    <3>. QED  BY <2>1, <3>1, <3>2 DEF RestTypeOK
  <2>. QED  BY <1>4, <2>2, <2>3
<1>5. ASSUME NEW t \in Threads, TransferOver(t) \/ TransferFails(t) PROVE UNCHANGED <<dest, filePointer, transfer>>
  BY <1>5, <1>2 DEF TransferOver, TransferFails
<1>. QED  BY <1>1, <1>2, <1>3, <1>4, <1>5 DEF SysNext, ClientStep, TransferStep, Stop, allVars

(* A thread that receives, or sees the end of the stream, has a connection *)
(* that is not broken and a TransferThreadServer at its other end.         *)
LEMMA ReceiverLives ==
  ASSUME ProtocolInvariant, FlowInvariant, NEW t \in Threads, TransferReceive(t) \/ TransferOver(t)
  PROVE  Live(t) /\ Flow(t) /\ status[t] = "running"
<1>. EndsInvariant /\ t \in Conns
  BY ConnNames DEF ProtocolInvariant
<1>1. ~quit /\ status[t] = "running" /\ transfer[t] = "receive"
  BY DEF TransferReceive, TransferOver, Running
<1>2. ~Lost(t)
  <2>1. TransferReceive(t) => toClient[t] # <<>>
    BY ReadNone DEF TransferReceive
  <2>2. TransferOver(t) => serverEnd[t] = "closed"
    BY DEF TransferOver, ClientAtEnd
  <2>. QED  BY <2>1, <2>2 DEF EndsInvariant, Lost
<1>3. Handed(t)
  <2>1. Stage(t)
    BY <1>2 DEF ProtocolInvariant, HandshakeInvariant
  <2>. QED  BY <1>1, <2>1 DEF Stage
<1>. QED  BY <1>1, <1>2, <1>3 DEF Live, Handed, FlowInvariant

(* What has been written is the file, and a thread that has ended has      *)
(* written all of its segment.                                             *)
LEMMA WrittenKept ==
  ASSUME ProtocolInvariant, CopyInvariant, [SysNext]_allVars
  PROVE  WrittenInvariant'
<1>. /\ StreamsInvariant /\ RestTypeOK /\ ClientInvariant /\ FlowInvariant /\ WrittenInvariant /\ BoundInvariant
     /\ status \in [Threads -> {"new", "running", "ended", "failed"}]
     /\ segment \in [Threads -> [startPos : Nat, transferLength : Nat]]
  BY TypeParts, PlanTypes DEF ProtocolInvariant, CopyInvariant
<1>1. size' = size /\ \A t \in Threads : status[t] # "new" => segment'[t] = segment[t]
  BY ClientMoves
<1>2. \A t \in Threads : transfer[t] = "receive" => status[t] # "new"
  BY DEF ClientInvariant
<1>3. ASSUME NEW t \in Threads, status'[t] = "ended"
      PROVE  /\ transfer[t] = "receive" /\ filePointer[t] = SegmentEnd(t) /\ segment'[t] = segment[t]
             /\ status[t] = "ended" \/ TransferOver(t)
  <2>1. CASE status[t] = "ended"
    BY <1>1, <2>1 DEF WrittenInvariant
  <2>2. CASE TransferOver(t) /\ status[t] = "running"
    <3>1. Flow(t) /\ Live(t)
      BY <2>2, ReceiverLives
    <3>2. toClient[t] = <<>> /\ serverEnd[t] = "closed" /\ transfer[t] = "receive"
      BY <2>2 DEF TransferOver, ClientAtEnd
    <3>3. unsent[t] = <<>>
      BY <3>1, <3>2 DEF Flow
    <3>4. Len(toClient[t]) - Ahead(t) = 0 /\ Len(unsent[t]) = 0 /\ NextByte(t) = filePointer[t]
      BY <3>2, <3>3 DEF Ahead, NextByte
    <3>5. filePointer[t] + 0 + 0 = SegmentEnd(t)
      BY <3>1, <3>4 DEF Flow
    <3>6. filePointer[t] = SegmentEnd(t)
      BY <3>5 DEF StreamsInvariant
    <3>. QED  BY <1>1, <2>2, <3>2, <3>6
  <2>. QED  BY <1>3, <2>1, <2>2, StatusMoves
<1>4. ASSUME UNCHANGED <<dest, filePointer>>,
             \A t \in Threads : transfer'[t] = "receive" <=> transfer[t] = "receive"
      PROVE  WrittenInvariant'
  <2>1. \A p \in Positions : dest'[p] # Hole => dest'[p] = p /\ p < size'
    BY <1>1, <1>4 DEF WrittenInvariant
  <2>2. ASSUME NEW t \in Threads, transfer'[t] = "receive"
        PROVE  \A p \in Positions : (segment'[t].startPos <= p /\ p < filePointer'[t]) => dest'[p] = p
    BY <1>1, <1>2, <1>4, <2>2 DEF WrittenInvariant
  <2>3. ASSUME NEW t \in Threads, status'[t] = "ended"
        PROVE  transfer'[t] = "receive" /\ filePointer'[t] = SegmentEnd(t)'
    BY <1>3, <1>4, <2>3 DEF SegmentEnd
  <2>. QED  BY <2>1, <2>2, <2>3 DEF WrittenInvariant
<1>5. ASSUME NEW t \in Threads, TransferSeek(t) PROVE WrittenInvariant'
  <2>0. /\ UNCHANGED <<dest, segment, status>> /\ status[t] = "running"
        /\ filePointer' = [filePointer EXCEPT ![t] = segment[t].startPos]
        /\ transfer' = [transfer EXCEPT ![t] = "receive"]
    BY <1>5 DEF TransferSeek, Running, vars, planVars
  <2>1. \A p \in Positions : dest'[p] # Hole => dest'[p] = p /\ p < size'
    BY <1>1, <2>0 DEF WrittenInvariant
  <2>2. ASSUME NEW u \in Threads, transfer'[u] = "receive",
               NEW p \in Positions, segment'[u].startPos <= p, p < filePointer'[u]
        PROVE  dest'[p] = p
    <3>1. CASE u = t
      <4>1. filePointer'[t] = segment'[t].startPos /\ segment'[t].startPos \in Nat /\ p \in Nat
        BY <2>0, FileClientAssumption DEF StreamsInvariant
      <4>. QED  BY <2>2, <3>1, <4>1
    <3>2. CASE u # t
      BY <2>0, <2>2, <3>2 DEF WrittenInvariant, StreamsInvariant, RestTypeOK
    <3>. QED  BY <3>1, <3>2
  <2>3. ASSUME NEW u \in Threads, status'[u] = "ended"
        PROVE  transfer'[u] = "receive" /\ filePointer'[u] = SegmentEnd(u)'
    <3>1. u # t
      BY <2>0, <2>3
    <3>2. transfer'[u] = transfer[u] /\ filePointer'[u] = filePointer[u]
      BY <2>0, <3>1 DEF StreamsInvariant, RestTypeOK
    <3>. QED  BY <1>3, <2>3, <3>2 DEF SegmentEnd
  <2>. QED  BY <2>1, <2>2, <2>3 DEF WrittenInvariant
<1>6. ASSUME NEW t \in Threads, TransferReceive(t), UNCHANGED serverVars PROVE WrittenInvariant'
  <2>0. /\ UNCHANGED <<segment, status, transfer>> /\ status[t] = "running" /\ transfer[t] = "receive"
    BY <1>6 DEF TransferReceive, Running, vars, planVars
  <2>1. Flow(t) /\ SegmentEnd(t) <= size
    <3>1. t \in Started
      BY <2>0 DEF Started
    <3>. QED  BY <1>6, <3>1, ReceiverLives DEF BoundInvariant
  <2>2. PICK n \in Nat :
          /\ filePointer' = [filePointer EXCEPT ![t] = @ + n] /\ filePointer[t] + n <= SegmentEnd(t)
          /\ dest' = [p \in Positions |-> IF filePointer[t] <= p /\ p < filePointer[t] + n THEN p ELSE dest[p]]
    BY <1>6, <2>1, FlowReceives
  <2>3. PICK f \in Nat : f = filePointer[t] /\ filePointer'[t] = f + n
    BY <2>2 DEF StreamsInvariant
  <2>4. f + n <= size
    <3>1. PICK e : e = SegmentEnd(t)
      OBVIOUS
    <3>2. e \in Nat
      BY <3>1 DEF SegmentEnd
    <3>3. size \in Int
      BY FileServerAssumption DEF RestTypeOK, Missing
    <3>. QED  BY <2>1, <2>2, <2>3, <3>1, <3>2, <3>3
  <2>5. \A p \in Positions : dest'[p] = IF f <= p /\ p < f + n THEN p ELSE dest[p]
    BY <2>2, <2>3
  <2>6. ASSUME NEW p \in Positions, dest'[p] # Hole PROVE dest'[p] = p /\ p < size'
    <3>1. p \in Nat /\ size \in Int
      BY FileClientAssumption, FileServerAssumption DEF RestTypeOK, Missing
    <3>2. CASE f <= p /\ p < f + n
      BY <1>1, <2>4, <2>5, <3>1, <3>2
    <3>3. CASE ~(f <= p /\ p < f + n)
      BY <1>1, <2>5, <2>6, <3>3 DEF WrittenInvariant
    <3>. QED  BY <3>2, <3>3
  <2>7. ASSUME NEW u \in Threads, transfer'[u] = "receive",
               NEW p \in Positions, segment'[u].startPos <= p, p < filePointer'[u]
        PROVE  dest'[p] = p
    <3>0. p \in Nat
      BY FileClientAssumption
    <3>1. CASE f <= p /\ p < f + n
      BY <2>5, <3>1
    <3>2. ASSUME ~(f <= p /\ p < f + n) PROVE dest[p] = p
      <4>1. CASE u = t
        <5>1. p < f
          BY <2>3, <2>7, <3>0, <3>2, <4>1
        <5>. QED  BY <2>0, <2>3, <2>7, <4>1, <5>1 DEF WrittenInvariant
      <4>2. CASE u # t
        <5>1. filePointer'[u] = filePointer[u]
          BY <2>2, <4>2 DEF StreamsInvariant
        <5>. QED  BY <2>0, <2>7, <5>1 DEF WrittenInvariant
      <4>. QED  BY <4>1, <4>2
    <3>. QED  BY <2>5, <3>1, <3>2
  <2>8. ASSUME NEW u \in Threads, status'[u] = "ended"
        PROVE  transfer'[u] = "receive" /\ filePointer'[u] = SegmentEnd(u)'
    <3>1. u # t
      BY <2>0, <2>8
    <3>2. transfer'[u] = transfer[u] /\ filePointer'[u] = filePointer[u]
      BY <2>0, <2>2, <3>1 DEF StreamsInvariant
    <3>. QED  BY <1>3, <2>8, <3>2 DEF SegmentEnd
  <2>. QED  BY <2>6, <2>7, <2>8 DEF WrittenInvariant
<1>. QED  BY <1>4, <1>5, <1>6, CopyMoves

LEMMA CopyInit == SysInit => CopyInvariant
<1>. SUFFICES ASSUME SysInit PROVE CopyInvariant
  OBVIOUS
<1>. USE DEF SysInit, ConnInit, ServerInit, ClientInit, Init
<1>1. FlowInvariant
  BY ConnNames DEF FlowInvariant
<1>2. WrittenInvariant
  BY DEF WrittenInvariant
<1>3. BoundInvariant
  BY DEF BoundInvariant, Started
<1>. QED  BY <1>1, <1>2, <1>3 DEF CopyInvariant

(* A client that reads one text at a time, from a server that can read its *)
(* file and is asked for no short segment, has what CopyInvariant says.    *)
LEMMA CopyInvariantCorrect ==
  ASSUME ~Coalesce, ~ReadErrors
  PROVE  Spec /\ []NoShortSegment => []CopyInvariant
<1>1. ProtocolInvariant /\ ProtocolInvariant' /\ NoShortSegment /\ CopyInvariant /\ [SysNext]_allVars => CopyInvariant'
  <2>. SUFFICES ASSUME ProtocolInvariant, ProtocolInvariant', NoShortSegment, CopyInvariant, [SysNext]_allVars
                PROVE  CopyInvariant'
    OBVIOUS
  <2>1. FlowInvariant'
    BY FlowKept
  <2>2. WrittenInvariant'
    BY WrittenKept
  <2>3. BoundInvariant'
    BY BoundKept DEF CopyInvariant
  <2>. QED  BY <2>1, <2>2, <2>3 DEF CopyInvariant
<1>. QED  BY <1>1, CopyInit, ProtocolCorrect, PTL DEF Spec

(* Every byte in the destination file is the byte of the file that belongs *)
(* there, however the threads interleave and whatever breaks.              *)
THEOREM DestCorrect ==
  ASSUME ~Coalesce, ~ReadErrors
  PROVE  Spec /\ []NoShortSegment => []DestIsFile
<1>1. CopyInvariant => DestIsFile
  BY DEF CopyInvariant, WrittenInvariant, DestIsFile
<1>. QED  BY <1>1, CopyInvariantCorrect, PTL

(* If all threads ended of themselves, the whole file is there: the        *)
(* segments cover the file, and each thread has written its own.           *)
CompleteIsFile == Outcome = "complete" => dest = Download!File

LEMMA CompleteCorrect == ProtocolInvariant /\ CopyInvariant => CompleteIsFile
<1>. SUFFICES ASSUME ProtocolInvariant, CopyInvariant, Outcome = "complete" PROVE dest = Download!File
  BY DEF CompleteIsFile
<1>1. /\ main = "returned" /\ fileLength # FileNotExist
      /\ \A t \in Started : status[t] = "ended"
  BY DEF Outcome
<1>2. fileLength = size /\ size \in Nat
  BY <1>1, FileServerAssumption DEF ProtocolInvariant, ClientInvariant, TypeOK, Missing, FileNotExist
<1>3. \A p \in 0..(size - 1) : \E t \in Started : Plan!InSegment(p, t)
  <2>1. Plan!CoveredOnce(fileLength)
    BY <1>1 DEF ProtocolInvariant, PlanOK, Plan!PlanOK, Plan!PlanInvariant, FileNotExist, Plan!FileNotExist
  <2>2. Plan!Started = Started
    BY DEF Started, Plan!Started, Threads, Plan!Threads, Slots, Plan!Slots, Single, Plan!Single
  <2>3. \A p \in 0..(fileLength - 1) : \E t \in Plan!Started : Plan!InSegment(p, t)
    BY <2>1 DEF Plan!CoveredOnce
  <2>. QED  BY <1>2, <2>2, <2>3
<1>4. ASSUME NEW p \in Positions, p < size PROVE dest[p] = p
  <2>1. p \in 0..(size - 1)
    BY <1>2, <1>4, FileClientAssumption
  <2>2. PICK t \in Started : Plan!InSegment(p, t)
    BY <1>3, <2>1
  <2>3. t \in Threads /\ status[t] = "ended"
    BY <1>1, <2>2 DEF Started
  <2>4. transfer[t] = "receive" /\ filePointer[t] = SegmentEnd(t)
    BY <2>3 DEF CopyInvariant, WrittenInvariant
  <2>. QED  BY <2>2, <2>3, <2>4 DEF CopyInvariant, WrittenInvariant, Plan!InSegment, SegmentEnd
<1>5. ASSUME NEW p \in Positions, ~(p < size) PROVE dest[p] = Hole
  BY <1>5 DEF CopyInvariant, WrittenInvariant
<1>6. dest \in [Positions -> Nat \cup {Hole}]
  BY DEF ProtocolInvariant, TypeOK
<1>. QED  BY <1>4, <1>5, <1>6 DEF Download!File

(* A download that is over stays as it is.                                 *)
LEMMA OverStays ==
  ASSUME ProtocolInvariant, [SysNext]_allVars, Outcome # "running"
  PROVE  Outcome' = Outcome
<1>. PlanOK /\ status \in [Threads -> {"new", "running", "ended", "failed"}]
  BY PlanTypes DEF ProtocolInvariant
<1>1. main = "returned" /\ fileLength # FileNotExist /\ Alive = {}
  BY DEF Outcome
<1>2. UNCHANGED <<main, fileLength>>
  <2>1. ~MainStep
    BY <1>1 DEF MainStep, BeginSplit, StartNext, StartLast, StartSingle, JoinReturns
  <2>2. UNCHANGED vars => UNCHANGED <<main, fileLength>>
    BY DEF vars, mainVars
  <2>3. MainRuns \/ AcksRuns => UNCHANGED <<main, fileLength>>
    BY <2>1 DEF MainRuns, AcksRuns, AcksStep, AcksLook, AcksPassOver, mainVars
  <2>4. AskStep => UNCHANGED vars
    BY <1>1 DEF AskStep, AskConnect, AskName, AskAnswer, AskFails, LengthReceived, LengthFailed
  <2>5. ASSUME NEW t \in Threads, TransferStep(t) PROVE UNCHANGED <<main, fileLength>>
    BY <2>2, <2>5 DEF TransferStep, TransferConnect, TransferAsk, TransferSeek, TransferReceive,
       TransferOver, TransferFails, ThreadEnds, mainVars
  <2>6. ListStep \/ UserStep => UNCHANGED vars
    BY DEF ListStep, ListConnect, ListDir, ListAnswer, ListFails, UserStep, StartListing, Quit
  <2>. QED  BY <2>2, <2>3, <2>4, <2>5, <2>6 DEF SysNext, ClientStep, allVars
<1>3. \A t \in Threads : status'[t] = status[t]
  BY <1>1, <1>2, StatusMoves DEF Alive
<1>4. Started' = Started /\ Alive' = Alive
  BY <1>3 DEF Started, Alive
<1>5. (\A t \in Started : status[t] = "ended") <=> (\A t \in Started' : status'[t] = "ended")
  BY <1>3, <1>4 DEF Started
<1>. QED  BY <1>1, <1>2, <1>4, <1>5 DEF Outcome

(* A step that receives bytes copies them to where they belong.            *)
LEMMA ReceiveCopies ==
  ASSUME ProtocolInvariant, CopyInvariant, NEW t \in Threads, TransferReceive(t), UNCHANGED serverVars
  PROVE  Download!Copy
<1>. FlowInvariant /\ BoundInvariant /\ StreamsInvariant /\ RestTypeOK
  BY TypeParts DEF ProtocolInvariant, CopyInvariant
<1>1. UNCHANGED <<main, fileLength, status, segment, size>>
  BY DEF TransferReceive, vars, mainVars, planVars, serverVars
<1>2. Flow(t) /\ status[t] = "running"
  BY ReceiverLives
<1>3. Outcome = "running" /\ Outcome' = "running"
  BY <1>1, <1>2 DEF Outcome, Alive
<1>4. PICK n \in Nat :
        /\ filePointer[t] + n <= SegmentEnd(t)
        /\ dest' = [p \in Positions |-> IF filePointer[t] <= p /\ p < filePointer[t] + n THEN p ELSE dest[p]]
  BY <1>2, FlowReceives
<1>5. filePointer[t] + n <= size
  <2>1. SegmentEnd(t) <= size
    BY <1>2 DEF BoundInvariant, Started
  <2>2. PICK e : e = SegmentEnd(t)
    OBVIOUS
  <2>3. e \in Nat
    BY <2>2, PlanTypes DEF SegmentEnd, ProtocolInvariant
  <2>4. PICK f \in Nat : f = filePointer[t]
    BY DEF StreamsInvariant
  <2>5. size \in Int
    BY FileServerAssumption DEF RestTypeOK, Missing
  <2>. QED  BY <1>4, <2>1, <2>2, <2>3, <2>4, <2>5
<1>6. PICK P \in SUBSET Positions : P = {p \in Positions : filePointer[t] <= p /\ p < filePointer[t] + n}
  OBVIOUS
<1>7. ASSUME NEW p \in P PROVE Download!File[p] = p
  <2>1. p \in Positions /\ p < size
    <3>1. p \in Nat /\ p < filePointer[t] + n
      BY <1>6, FileClientAssumption
    <3>2. filePointer[t] + n \in Nat /\ size \in Int
      BY FileServerAssumption DEF StreamsInvariant, RestTypeOK, Missing
    <3>. QED  BY <1>5, <1>6, <3>1, <3>2
  <2>. QED  BY <2>1 DEF Download!File
<1>8. dest' = [p \in Positions |-> IF p \in P THEN Download!File[p] ELSE dest[p]]
  BY <1>4, <1>6, <1>7
<1>. QED  BY <1>1, <1>3, <1>8 DEF Download!Copy

(* Client, server and network together are a copy of the file, for every   *)
(* number of threads, size of the file and size of the buffer.             *)
THEOREM CopyCorrect ==
  ASSUME ~Coalesce, ~ReadErrors
  PROVE  Spec /\ []NoShortSegment => ImplementsCopy
<1>1. SysInit => Download!Init
  BY DEF SysInit, ClientInit, Init, Outcome, Download!Init
<1>2. ProtocolInvariant /\ CopyInvariant /\ CompleteIsFile' /\ [SysNext]_allVars => [Download!Next]_(Download!vars)
  <2>. SUFFICES ASSUME ProtocolInvariant, CopyInvariant, CompleteIsFile', [SysNext]_allVars
                PROVE  Download!Next \/ UNCHANGED Download!vars
    OBVIOUS
  <2>1. ASSUME NEW t \in Threads, TransferReceive(t), UNCHANGED serverVars PROVE Download!Next
    BY <2>1, ReceiveCopies DEF Download!Next
  <2>2. ASSUME UNCHANGED dest PROVE Download!Next \/ UNCHANGED Download!vars
    <3>1. UNCHANGED size
      BY ClientMoves
    <3>2. CASE Outcome' = Outcome
      BY <2>2, <3>1, <3>2 DEF Download!vars
    <3>3. ASSUME Outcome = "running", Outcome' = "complete" PROVE Download!Complete
      <4>1. dest = Download!File
        BY <2>2, <3>1, <3>3 DEF CompleteIsFile, Download!File
      <4>. QED  BY <2>2, <3>1, <3>3, <4>1 DEF Download!Complete
    <3>4. ASSUME Outcome = "running", Outcome' = "incomplete" PROVE Download!GiveUp
      BY <2>2, <3>1, <3>4 DEF Download!GiveUp
    <3>5. Outcome' \in {"running", "complete", "incomplete"}
      BY DEF Outcome
    <3>. QED  BY <3>2, <3>3, <3>4, <3>5, OverStays DEF Download!Next
  <2>3. ASSUME NEW t \in Threads, TransferSeek(t) PROVE UNCHANGED dest
    BY <2>3 DEF TransferSeek
  <2>. QED  BY <2>1, <2>2, <2>3, CopyMoves
<1>. QED  BY <1>1, <1>2, ProtocolCorrect, CopyInvariantCorrect, CompleteCorrect, PTL DEF Spec, ImplementsCopy, Download!Spec
=============================================================================
