-------------------------- MODULE LighttpdWaitProofs --------------------------
(***************************************************************************)
(* Proofs about LighttpdServer, on top of the invariant of                 *)
(* LighttpdServerProofs: every field of every struct keeps its type, and   *)
(* no connection is forgotten.                                             *)
(***************************************************************************)
EXTENDS LighttpdServerProofs

(* What the fields of a struct have to do with each other besides Struct:  *)
(* an answer without an end has a backend that is read from, and one with  *)
(* an end has something to send, unless an authorizer has approved.        *)
Sound(k) ==
  /\ k.state = "connect" => ~k.open
  /\ k.state = "read_post" => k.body > 0
  /\ k.state \in {"req_start", "read", "req_end", "read_post"} => k.mode = "direct"
  /\ k.state \in {"handle", "resp_start"} /\ k.mode # "direct" /\ k.hctx = "none" => k.finished
  /\ k.state = "write" => IF k.finished THEN k.out \/ Stranded(k) ELSE k.hctx = "reading"
Fine(k) == k \in Connection /\ Sound(k)

(* A connection that something will wake, as NothingForgotten says it;     *)
(* queued tells whether it is in the fdwaitqueue.                          *)
Reads(k) ==
  \/ k.state = "read" /\ Headers(k.rq) = {}
  \/ k.state = "read_post" /\ k.rq = <<>> /\ k.body > 0
Writes(k) ==
  \/ k.state = "write" /\ k.out /\ ~k.writable
  \/ k.state = "write" /\ ~k.out /\ ~k.finished /\ k.hctx = "reading"
  \/ Stranded(k)
Stands(k, queued) == Reads(k) \/ Writes(k) \/ (k.state = "handle" /\ (BackendFds(k) = 1 \/ queued))
Rests(k, queued) == k.events = Waits(k) /\ Stands(k, queued)

-----------------------------------------------------------------------------
(* What the functions of connections.c and mod_fastcgi.c make of a struct. *)
Packets == {"part", "end"}

\* The first end of a header is one of the packets.
LEMMA FirstHeader ==
  ASSUME NEW rq \in Seq(Packets), Headers(rq) # {}
  PROVE  (CHOOSE i \in Headers(rq) : \A j \in Headers(rq) : i <= j) \in 1 .. Len(rq)
<1>1. Headers(rq) \subseteq 1 .. Len(rq)
  BY DEF Headers
<1>. DEFINE S == Headers(rq)
<1>2. S \in SUBSET Nat /\ S # {}
  BY <1>1
<1>. HIDE DEF S
<1>3. PICK x \in S : \A y \in S : ~ (<<y, x>> \in OpToRel(<, Nat))
  BY <1>2, NatLessThanWellFounded, WFMin, Zenon
<1>4. \A a, b \in Nat : a < b => <<a, b>> \in OpToRel(<, Nat)
  BY SMT DEF OpToRel
<1>5. \A y \in S : ~ (y < x)
  BY <1>2, <1>3, <1>4, Zenon
<1>6. \A y \in S : x <= y
  BY <1>2, <1>5, SMT
<1>7. (CHOOSE i \in S : \A j \in S : i <= j) \in S
  BY <1>6, Zenon
<1>. QED  BY <1>1, <1>7 DEF S

\* A read appends to the read queue and leaves everything else that matters.
LEMMA ReceivedFine ==
  ASSUME NEW k \in Connection, NEW packets \in Seq(Packets), NEW left \in Int
  PROVE  LET m == Received(k, packets, left) IN
         /\ m \in Connection /\ m.state = k.state /\ m.mode = k.mode /\ m.body = k.body /\ m.open = k.open
<1>1. k.rq \o packets \in Seq(Packets)
  BY DEF Connection, Packets
<1>2. (left > 0) \in BOOLEAN
  OBVIOUS
<1>. QED  BY <1>1, <1>2 DEF Connection, Received, Packets

\* connection_handle_read: what it returns, and in which state.
LEMMA HandleReadFine ==
  ASSUME NEW k \in Connection, NEW ready, NEW r \in connection_handle_read(k, ready)
  PROVE  /\ r.k \in Connection /\ r.k.mode = k.mode /\ r.k.body = k.body /\ r.k.open = k.open
         /\ r.k.state \in {k.state, "error"}
<1>1. <<>> \in Seq(Packets) /\ <<"part">> \in Seq(Packets) /\ <<"end">> \in Seq(Packets)
      /\ <<"end", "end">> \in Seq(Packets)
  BY DEF Packets
<1>2. ASSUME NEW m \in Connection
      PROVE  LET e == [m EXCEPT !.state = "error"] IN
             e \in Connection /\ e.state = "error" /\ e.mode = m.mode /\ e.body = m.body /\ e.open = m.open
  BY DEF Connection
<1>3. \E packets \in Seq(Packets), left \in Int :
         r.k \in {Received(k, packets, left), [Received(k, packets, left) EXCEPT !.state = "error"]}
  <2>1. ASSUME NEW m, NEW code PROVE Returned(m, code).k = m
    BY DEF Returned
  <2>2. \/ \E packets \in {<<"part">>, <<"end">>, <<"end", "end">>}, left \in 0 .. 1 :
              r = Returned(Received(k, packets, left), 0)
        \/ r = Returned([Received(k, <<>>, 0) EXCEPT !.state = "error"], -1)
        \/ \E code : r = Returned(Received(k, <<>>, 0), code)
    BY SMT DEF connection_handle_read
  <2>3. CASE \E packets \in {<<"part">>, <<"end">>, <<"end", "end">>}, left \in 0 .. 1 :
               r = Returned(Received(k, packets, left), 0)
    <3>1. PICK packets \in {<<"part">>, <<"end">>, <<"end", "end">>}, left \in 0 .. 1 :
             r = Returned(Received(k, packets, left), 0)
      BY <2>3
    <3>2. r.k = Received(k, packets, left)
      BY <2>1, <3>1
    <3>3. packets \in Seq(Packets)
      BY <1>1, <3>1, Zenon
    <3>4. left \in Int
      BY <3>1, SMT
    <3>. QED  BY <3>2, <3>3, <3>4, Zenon
  <2>4. CASE ~ \E packets \in {<<"part">>, <<"end">>, <<"end", "end">>}, left \in 0 .. 1 :
                 r = Returned(Received(k, packets, left), 0)
    <3>1. r.k = Received(k, <<>>, 0) \/ r.k = [Received(k, <<>>, 0) EXCEPT !.state = "error"]
      BY <2>1, <2>2, <2>4
    <3>2. <<>> \in Seq(Packets) /\ 0 \in Int
      BY <1>1
    <3>. QED  BY <3>1, <3>2, Zenon
  <2>. QED  BY <2>3, <2>4
<1>4. PICK packets \in Seq(Packets), left \in Int :
         r.k \in {Received(k, packets, left), [Received(k, packets, left) EXCEPT !.state = "error"]}
  BY <1>3
<1>. DEFINE m == Received(k, packets, left)
<1>5. /\ m \in Connection /\ m.state = k.state /\ m.mode = k.mode /\ m.body = k.body /\ m.open = k.open
  BY ReceivedFine
<1>6. r.k = m \/ r.k = [m EXCEPT !.state = "error"]
  BY <1>4
<1>. HIDE DEF m
<1>. QED  BY <1>2, <1>5, <1>6

\* A request that is refused while it is received is decided.
LEMMA DeniedFine ==
  ASSUME NEW k \in Connection, k.mode = "direct"
  PROVE  Fine(Denied(k)) /\ Denied(k).state = "handle"
BY DEF Connection, Denied, Fine, Sound, Stranded

\* The parser leaves nothing lying that it could take, or changes the state.
LEMMA ParsedFine ==
  ASSUME NEW k \in Connection, k.mode = "direct", k.state \in {"read", "read_post", "error"}, Sound(k),
         NEW j \in Parsed(k)
  PROVE  Fine(j) /\ (j.state = k.state => k.state = "error" \/ Reads(j))
<1>1. k.rq \in Seq(Packets) /\ k.body \in Nat
  BY DEF Connection, Packets
<1>2. CASE k.state = "read" /\ Headers(k.rq) # {}
  <2>. DEFINE i == CHOOSE i \in Headers(k.rq) : \A l \in Headers(k.rq) : i <= l
  <2>1. i \in 1 .. Len(k.rq)
    BY <1>1, <1>2, FirstHeader
  <2>2. j = [k EXCEPT !.rq = From(k.rq, i + 1), !.state = "req_end"]
    BY <1>2 DEF Parsed
  <2>. HIDE DEF i
  <2>3. From(k.rq, i + 1) \in Seq(Packets)
    BY <1>1, <2>1 DEF From
  <2>. QED  BY <1>2, <2>2, <2>3 DEF Connection, Fine, Sound, Stranded, Packets
<1>3. CASE k.state = "read" /\ Headers(k.rq) = {} /\ Len(k.rq) > HeaderLimit
  BY <1>3, DeniedFine DEF Parsed
<1>4. CASE k.state = "read_post" /\ k.rq # <<>>
  <2>. DEFINE n == IF Len(k.rq) < k.body THEN Len(k.rq) ELSE k.body
              m == [k EXCEPT !.rq = From(k.rq, n + 1), !.body = k.body - n]
  <2>1. n \in 0 .. Len(k.rq) /\ n \in 0 .. k.body
    BY <1>1
  <2>2. From(k.rq, n + 1) \in Seq(Packets) /\ k.body - n \in Nat
        /\ (k.body - n # 0 => From(k.rq, n + 1) = <<>>)
    BY <1>1, <2>1 DEF From
  <2>3. j = (IF m.body = 0 THEN [m EXCEPT !.state = "handle"] ELSE m) \/ j = Denied(k)
    BY <1>4 DEF Parsed
  <2>. HIDE DEF n
  <2>4. /\ m \in Connection /\ m.state = "read_post" /\ m.mode = "direct" /\ m.body = k.body - n
        /\ m.rq = From(k.rq, n + 1)
    BY <1>4, <2>2 DEF Connection, Packets
  <2>. HIDE DEF m
  <2>5. CASE m.body = 0 /\ j = [m EXCEPT !.state = "handle"]
    BY <1>4, <2>4, <2>5 DEF Connection, Fine, Sound, Stranded
  <2>6. CASE m.body # 0 /\ j = m
    <3>1. m.body > 0 /\ m.rq = <<>>
      BY <2>2, <2>4, <2>6
    <3>. QED  BY <2>4, <2>6, <3>1 DEF Fine, Sound, Stranded, Reads
  <2>7. CASE j = Denied(k)
    BY <1>4, <2>7, DeniedFine
  <2>. QED  BY <2>3, <2>5, <2>6, <2>7
<1>5. CASE /\ ~(k.state = "read" /\ Headers(k.rq) # {})
           /\ ~(k.state = "read" /\ Headers(k.rq) = {} /\ Len(k.rq) > HeaderLimit)
           /\ ~(k.state = "read_post" /\ k.rq # <<>>)
  <2>1. j = k
    BY <1>5 DEF Parsed
  <2>. QED  BY <1>5, <2>1 DEF Fine, Sound, Stranded, Reads
<1>. QED  BY <1>2, <1>3, <1>4, <1>5

\* A connection in error needs nothing.
LEMMA ErrorFine ==
  ASSUME NEW k \in Connection
  PROVE  Fine([k EXCEPT !.state = "error"]) /\ [k EXCEPT !.state = "error"].state = "error"
BY DEF Connection, Fine, Sound, Stranded

\* connection_handle_read_state leaves the state that reads, or waits for
\* more to read.
LEMMA ReadFine ==
  ASSUME NEW k, Fine(k), k.state \in {"read", "read_post"}, NEW ready,
         NEW j \in connection_handle_read_state(k, ready)
  PROVE  Fine(j) /\ (j.state = k.state => Reads(j))
<1>1. PICK r, p : /\ r = Returned(k, 0) \/ r \in connection_handle_read(k, ready)
                  /\ p \in Parsed(r.k)
                  /\ j = p \/ j = [p EXCEPT !.state = "error"]
  BY DEF connection_handle_read_state
<1>2. /\ r.k \in Connection /\ r.k.mode = "direct" /\ r.k.body = k.body /\ r.k.open = k.open
      /\ r.k.state \in {k.state, "error"}
  <2>1. k \in Connection /\ k.mode = "direct"
    BY DEF Fine, Sound, Stranded
  <2>2. CASE r = Returned(k, 0)
    BY <2>1, <2>2 DEF Returned
  <2>. QED  BY <1>1, <2>1, <2>2, HandleReadFine
<1>3. Sound(r.k) /\ r.k.state \in {"read", "read_post", "error"}
  BY <1>2 DEF Fine, Sound, Stranded
<1>4. Fine(p) /\ (p.state = r.k.state => r.k.state = "error" \/ Reads(p))
  BY <1>1, <1>2, <1>3, ParsedFine
<1>5. CASE j = [p EXCEPT !.state = "error"]
  BY <1>4, <1>5, ErrorFine DEF Fine
<1>6. CASE j = p
  <2>1. r.k.state # "error" => r.k.state = k.state
    BY <1>2
  <2>2. r.k.state = "error" => p = r.k
    BY <1>1 DEF Parsed
  <2>. QED  BY <1>4, <1>6, <2>1, <2>2
<1>. QED  BY <1>1, <1>5, <1>6

\* connection_handle_write: what it leaves in the state that writes waits for
\* the socket or for the backend.
LEMMA WriteFine ==
  ASSUME NEW k, Fine(k), k.state = "write", k.out, NEW r \in connection_handle_write(k)
  PROVE  Fine(r.k) /\ (r.k.state = "write" => Writes(r.k)) /\ r.jobs \in Nat
<1>1. k \in Connection /\ k.out = TRUE /\ k.finished \in BOOLEAN
  BY DEF Fine, Connection
<1>2. Fine(AllSent(k)) /\ (AllSent(k).state = "write" => Writes(AllSent(k)))
  <2>1. CASE k.finished
    BY <1>1, <2>1 DEF Connection, Fine, Sound, Stranded, AllSent
  <2>2. CASE ~k.finished
    BY <1>1, <2>2 DEF Connection, Fine, Sound, AllSent, Writes, Stranded
  <2>. QED  BY <2>1, <2>2
<1>3. Fine(Blocked(k)) /\ Writes(Blocked(k))
  BY <1>1 DEF Connection, Fine, Sound, Blocked, Writes, Stranded
<1>4. ASSUME NEW m, Fine(m), m.state = "write" => Writes(m)
      PROVE  LET l == [m EXCEPT !.limited = TRUE] IN Fine(l) /\ (l.state = "write" => Writes(l))
  <2>. DEFINE l == [m EXCEPT !.limited = TRUE]
  <2>1. /\ l \in Connection /\ l.state = m.state /\ l.open = m.open /\ l.body = m.body /\ l.mode = m.mode
        /\ l.hctx = m.hctx /\ l.finished = m.finished /\ l.out = m.out /\ l.writable = m.writable
    BY <1>4 DEF Fine, Connection
  <2>. HIDE DEF l
  <2>2. Fine(l) /\ (l.state = "write" => Writes(l))
    BY <1>4, <2>1 DEF Fine, Sound, Writes, Stranded
  <2>. QED  BY <2>2 DEF l
<1>5. ASSUME NEW s PROVE Limited(s).k = [s.k EXCEPT !.limited = TRUE]
  BY DEF Limited
<1>6. \/ r.k \in {AllSent(k), Blocked(k), [k EXCEPT !.state = "error"]}
      \/ \E m \in {AllSent(k), Blocked(k)} : r.k = [m EXCEPT !.limited = TRUE]
  BY <1>5 DEF connection_handle_write
<1>7. r.jobs \in Nat
  <2>1. ASSUME NEW s, s.jobs \in Nat PROVE Limited(s).jobs \in Nat
    BY <2>1 DEF Limited
  <2>. QED  BY <2>1 DEF connection_handle_write
<1>8. CASE r.k \in {AllSent(k), Blocked(k), [k EXCEPT !.state = "error"]}
  BY <1>1, <1>2, <1>3, <1>7, <1>8, ErrorFine
<1>9. CASE \E m \in {AllSent(k), Blocked(k)} : r.k = [m EXCEPT !.limited = TRUE]
  <2>1. PICK m : /\ m = AllSent(k) \/ m = Blocked(k)
                 /\ r.k = [m EXCEPT !.limited = TRUE]
    BY <1>9
  <2>2. Fine(m) /\ (m.state = "write" => Writes(m))
    BY <1>2, <1>3, <2>1
  <2>. QED  BY <1>4, <1>7, <2>1, <2>2
<1>. QED  BY <1>6, <1>8, <1>9

(* What the plugin returns of a request that is being decided or failing:  *)
(* an answer that may be sent has an end or a backend; who waits for an    *)
(* event has a descriptor; and who has no job either waits for one or, in  *)
(* the fdwaitqueue if the machine runs, for a descriptor.                  *)
Outcome(r) ==
  /\ Fine(r.k)
  /\ r.result \in {"FINISHED", "ERROR", "WAIT_FOR_FD", "WAIT_FOR_EVENT"} /\ r.jobs \in Nat
  /\ r.result = "FINISHED" /\ r.k.mode # "direct" /\ r.k.hctx = "none" => r.k.finished
  /\ r.result = "WAIT_FOR_EVENT" => BackendFds(r.k) = 1
Deciding == {"handle", "error"}

\* A request that is given up is decided.
LEMMA GivesUpOutcome ==
  ASSUME NEW k \in Connection, k.state \in Deciding, NEW fds, NEW jobs \in Nat
  PROVE  Outcome(Result(GivesUp(k), fds, jobs, "FINISHED"))
<1>1. Fine(GivesUp(k)) /\ GivesUp(k).mode = "direct"
  <2>1. 0 \in 0 .. Reconnects
    BY LimitAssumption
  <2>. QED  BY <2>1 DEF Connection, Deciding, Fine, Sound, Stranded, GivesUp, fcgi_connection_close
<1>. QED  BY <1>1, ResultParts DEF Outcome

\* A request that is tried again waits for a descriptor.
LEMMA ReconnectOutcome ==
  ASSUME NEW k \in Connection, k.state \in Deciding, k.reconnects < Reconnects, NEW jobs \in Nat, NEW fds
  PROVE  Outcome(Result(fcgi_reconnect(k), fds, jobs, "WAIT_FOR_FD"))
<1>1. Fine(fcgi_reconnect(k))
  <2>1. k.reconnects + 1 \in 0 .. Reconnects
    <3>1. k.reconnects \in 0 .. Reconnects
      BY DEF Connection
    <3>2. Reconnects \in Nat
      BY LimitAssumption
    <3>. QED  BY <3>1, <3>2
  <2>. QED  BY <2>1 DEF Connection, Deciding, Fine, Sound, Stranded, fcgi_reconnect
<1>. QED  BY <1>1, ResultParts DEF Outcome

\* A backend that fails leaves a job behind.
LEMMA BackendFailsOutcome ==
  ASSUME NEW k \in Connection, k.state \in Deciding
  PROVE  Outcome(BackendFails(k)) /\ BackendFails(k).jobs = 1
BY GivesUpOutcome, ReconnectOutcome, ResultParts DEF BackendFails

\* Who waits for an event has a descriptor.
LEMMA WaitingOutcome ==
  ASSUME NEW k \in Connection, k.state \in Deciding, NEW hctx \in Backend, NEW fds
  PROVE  Outcome(Waiting(k, hctx, fds)) /\ Waiting(k, hctx, fds).k = [k EXCEPT !.hctx = hctx]
<1>1. LET m == [k EXCEPT !.hctx = hctx] IN Fine(m) /\ m.hctx = hctx
  BY DEF Connection, Deciding, Backend, Fine, Sound, Stranded
<1>2. /\ Waiting(k, hctx, fds).k = [k EXCEPT !.hctx = hctx] /\ Waiting(k, hctx, fds).jobs = 0
      /\ Waiting(k, hctx, fds).result = "WAIT_FOR_EVENT"
  BY ResultParts DEF Waiting
<1>3. BackendFds(Waiting(k, hctx, fds).k) = 1
  BY <1>1, <1>2 DEF BackendFds
<1>. QED  BY <1>1, <1>2, <1>3 DEF Outcome

\* What a connection that is made leads to; only a drop leaves no job behind.
LEMMA ConnectedOutcome ==
  ASSUME NEW k \in Connection, k.state \in Deciding, NEW fds, NEW r \in Connected(k, fds)
  PROVE  Outcome(r) /\ (drops \/ r.jobs >= 1 \/ \E hctx \in Backend : r.k = [k EXCEPT !.hctx = hctx])
<1>1. \/ \E hctx \in {"writing", "reading"} : r = Waiting(k, hctx, fds)
      \/ r = Result(GivesUp(k), -BackendFds(k), 1, "FINISHED")
      \/ /\ drops /\ k.reconnects < Reconnects
         /\ r = Result(fcgi_reconnect(k), -BackendFds(k), 0, "WAIT_FOR_FD")
  BY DEF Connected, Dropped
<1>2. CASE \E hctx \in {"writing", "reading"} : r = Waiting(k, hctx, fds)
  <2>1. PICK hctx \in Backend : r = Waiting(k, hctx, fds)
    BY <1>2 DEF Backend
  <2>. QED  BY <2>1, WaitingOutcome
<1>3. CASE r = Result(GivesUp(k), -BackendFds(k), 1, "FINISHED")
  BY <1>3, GivesUpOutcome, ResultParts
<1>4. CASE /\ drops /\ k.reconnects < Reconnects
           /\ r = Result(fcgi_reconnect(k), -BackendFds(k), 0, "WAIT_FOR_FD")
  BY <1>4, ReconnectOutcome
<1>. QED  BY <1>1, <1>2, <1>3, <1>4

\* A request that nothing is done to.
LEMMA UnchangedOutcome ==
  ASSUME NEW k, Fine(k), NEW result \in {"FINISHED", "WAIT_FOR_FD", "WAIT_FOR_EVENT"},
         result = "FINISHED" /\ k.mode # "direct" /\ k.hctx = "none" => k.finished,
         result = "WAIT_FOR_EVENT" => k.hctx \in Backend
  PROVE  Outcome(Result(k, 0, 0, result))
BY ResultParts DEF Outcome, BackendFds

\* mod_fastcgi_handle_subrequest, for a request that is with the plugin.
LEMMA SubrequestOutcome ==
  ASSUME NEW k, Fine(k), k.state \in Deciding, NEW r \in handle_subrequest(k),
         k.hctx = "none" => k.state = "handle"
  PROVE  /\ Outcome(r)
         /\ k.hctx \in {"connecting", "writing"} =>
               drops \/ r.jobs >= 1 \/ \E hctx \in Backend : r.k = [k EXCEPT !.hctx = hctx]
<1>1. k \in Connection /\ k.hctx \in {"none", "nofd", "connecting", "writing", "reading"}
  BY DEF Fine, Connection, Backend
<1>2. CASE k.hctx = "none"
  <2>1. r = Result(k, 0, 0, "FINISHED")
    BY <1>2 DEF handle_subrequest
  <2>2. k.mode # "direct" => k.finished
    BY <1>2 DEF Fine, Sound, Stranded
  <2>. QED  BY <1>2, <2>1, <2>2, UnchangedOutcome
<1>3. CASE k.hctx = "nofd"
  <2>. DEFINE m == [k EXCEPT !.reconnects = 0]
  <2>1. \/ r = Result(GivesUp(k), 0, 0, "FINISHED") \/ r = BackendFails(k)
        \/ r = Waiting(k, "connecting", 1) \/ r \in Connected(m, 1)
        \/ r = Result(k, 0, 0, "WAIT_FOR_FD")
    BY <1>3 DEF handle_subrequest
  <2>2. m \in Connection /\ m.state \in Deciding
    <3>1. 0 \in 0 .. Reconnects
      BY LimitAssumption
    <3>. QED  BY <1>1, <3>1 DEF Connection
  <2>. HIDE DEF m
  <2>3. "connecting" \in Backend
    BY DEF Backend
  <2>4. CASE r = Result(GivesUp(k), 0, 0, "FINISHED")
    BY <1>1, <1>3, <2>4, GivesUpOutcome
  <2>5. CASE r = BackendFails(k)
    BY <1>1, <1>3, <2>5, BackendFailsOutcome
  <2>6. CASE r = Waiting(k, "connecting", 1)
    BY <1>1, <1>3, <2>3, <2>6, WaitingOutcome
  <2>7. CASE r \in Connected(m, 1)
    BY <1>3, <2>2, <2>7, ConnectedOutcome
  <2>8. CASE r = Result(k, 0, 0, "WAIT_FOR_FD")
    BY <1>3, <2>8, UnchangedOutcome
  <2>. QED  BY <2>1, <2>4, <2>5, <2>6, <2>7, <2>8
<1>4. CASE k.hctx \in {"connecting", "writing"}
  <2>1. r = BackendFails(k) \/ r \in Connected(k, 0)
    BY <1>4 DEF handle_subrequest
  <2>. QED  BY <1>1, <2>1, BackendFailsOutcome, ConnectedOutcome
<1>5. CASE k.hctx = "reading"
  <2>1. r = Result(k, 0, 0, IF k.started THEN "FINISHED" ELSE "WAIT_FOR_EVENT")
    BY <1>5 DEF handle_subrequest
  <2>. QED  BY <1>5, <2>1, UnchangedOutcome DEF Backend
<1>. QED  BY <1>1, <1>2, <1>3, <1>4, <1>5

\* http_response_prepare, which the machine calls with a connection in the
\* state that decides.
LEMMA PrepareOutcome ==
  ASSUME NEW k, Fine(k), Has(k), k.state = "handle", NEW r \in http_response_prepare(k)
  PROVE  Outcome(r)
<1>0. k \in Connection /\ k.state \in Deciding
  BY DEF Fine, Deciding
<1>1. CASE k.mode = "direct" /\ k.status # "none"
  <2>. DEFINE m == [k EXCEPT !.out = k.out /\ k.finished]
  <2>1. Fine(m) /\ m.mode = "direct"
    <3>1. (k.out /\ k.finished) \in BOOLEAN
      OBVIOUS
    <3>. QED  BY <1>0, <1>1, <3>1 DEF Connection, Fine, Sound, Stranded
  <2>2. r = Result(m, 0, 0, "FINISHED")
    BY <1>1 DEF http_response_prepare
  <2>. HIDE DEF m
  <2>. QED  BY <2>1, <2>2, UnchangedOutcome
<1>2. CASE k.mode = "direct" /\ k.status = "none"
  <2>. DEFINE l == [k EXCEPT !.keep_alive = k.keep_alive /\ k.count <= max_keep_alive_requests]
              file == [l EXCEPT !.status = "decided", !.finished = TRUE, !.out = TRUE]
              refused(status) == [l EXCEPT !.status = status]
              plugin == [l EXCEPT !.mode = "fastcgi", !.hctx = "nofd"]
  <2>1. l \in Connection /\ l.state = "handle" /\ l.mode = "direct"
    <3>1. (k.keep_alive /\ k.count <= max_keep_alive_requests) \in BOOLEAN
      OBVIOUS
    <3>. QED  BY <1>0, <1>2, <3>1 DEF Connection
  <2>2. \/ r = Result(file, 0, 0, "FINISHED")
        \/ \E status \in {"refused", "decided"} : r = Result(refused(status), 0, 0, "FINISHED")
        \/ r = Result(l, 0, 0, "ERROR")
        \/ r \in handle_subrequest(plugin)
    BY <1>2 DEF http_response_prepare
  <2>. HIDE DEF l
  <2>3. Fine(file) /\ file.mode = "direct"
    BY <2>1 DEF Connection, Fine, Sound, Stranded
  <2>4. ASSUME NEW status \in {"refused", "decided"}
        PROVE  Fine(refused(status)) /\ refused(status).mode = "direct"
    BY <2>1 DEF Connection, Fine, Sound, Stranded
  <2>5. Fine(plugin) /\ plugin.state = "handle"
    BY <2>1 DEF Connection, Fine, Sound, Stranded
  <2>6. Fine(l)
    BY <2>1 DEF Fine, Sound, Stranded
  <2>. HIDE DEF file, refused, plugin
  <2>7. CASE r = Result(file, 0, 0, "FINISHED")
    BY <2>3, <2>7, UnchangedOutcome
  <2>8. CASE \E status \in {"refused", "decided"} : r = Result(refused(status), 0, 0, "FINISHED")
    BY <2>4, <2>8, UnchangedOutcome
  <2>9. CASE r = Result(l, 0, 0, "ERROR")
    BY <2>6, <2>9, ResultParts DEF Outcome
  <2>10. CASE r \in handle_subrequest(plugin)
    BY <2>5, <2>10, SubrequestOutcome DEF Deciding
  <2>. QED  BY <2>2, <2>7, <2>8, <2>9, <2>10
<1>3. CASE k.mode # "direct"
  BY <1>0, <1>3, SubrequestOutcome DEF http_response_prepare
<1>. QED  BY <1>1, <1>2, <1>3

\* fcgi_handle_fdevent: unless a backend drops connections, a connection that
\* waited for this event waits for another one, or has a job.
LEMMA AnswersFine ==
  ASSUME NEW k, Fine(k), Has(k), k.hctx \in Backend, k.open, k.state # "close",
         k.state \in AnswerStates => Done(k), NEW r \in Answers(k)
  PROVE  /\ Fine(r.k) /\ r.jobs \in Nat
         /\ \/ drops \/ r.jobs >= 1
            \/ /\ BackendFds(r.k) = 1 /\ r.k.events = k.events /\ Waits(r.k) = Waits(k)
               /\ \A queued \in BOOLEAN : Stands(k, queued) => Stands(r.k, queued)
<1>0. k \in Connection /\ 0 \in 0 .. Reconnects
  BY LimitAssumption DEF Fine
<1>. DEFINE gone == fcgi_connection_close(k)
            hup  == [gone EXCEPT !.state = "error"]
            died == [gone EXCEPT !.state = "handle", !.status = "decided", !.mode = "direct"]
            end(started) == [gone EXCEPT !.started = started, !.out = TRUE, !.finished = TRUE]
            auth == [gone EXCEPT !.started = TRUE, !.finished = TRUE, !.mode = "direct"]
            header == [k EXCEPT !.started = TRUE]
            data == [k EXCEPT !.started = TRUE, !.out = TRUE]
<1>3. /\ gone \in Connection /\ gone.state = k.state /\ gone.mode = k.mode /\ gone.open = k.open
      /\ gone.body = k.body /\ gone.hctx = "none"
  BY <1>0 DEF Connection, fcgi_connection_close
<1>4. Fine(hup)
  <2>. HIDE DEF gone
  <2>. QED  BY <1>3, ErrorFine
<1>5. Fine(died)
  <2>. HIDE DEF gone
  <2>. QED  BY <1>3 DEF Connection, Fine, Sound, Stranded
<1>6. ASSUME NEW started \in BOOLEAN
      PROVE  Fine(end(started))
  <2>. DEFINE m == end(started)
  <2>. HIDE DEF gone
  <2>1. /\ m \in Connection /\ m.state = k.state /\ m.mode = k.mode /\ m.open = k.open /\ m.body = k.body
        /\ m.finished /\ m.out
    BY <1>3 DEF Connection
  <2>. HIDE DEF m
  <2>2. Fine(m)
    BY <2>1 DEF Fine, Sound, Stranded
  <2>. QED  BY <2>2 DEF m
<1>10. ASSUME authorizer = TRUE PROVE Fine(auth)
  <2>. HIDE DEF gone
  <2>1. /\ auth \in Connection /\ auth.state = k.state /\ auth.mode = "direct" /\ auth.open = k.open
        /\ auth.body = k.body /\ auth.finished
    BY <1>3 DEF Connection
  <2>. HIDE DEF auth
  <2>2. auth.state = "write" => auth.out \/ Stranded(auth)
    BY <1>10, <2>1 DEF Stranded
  <2>. QED  BY <2>1, <2>2 DEF Fine, Sound
<1>7. /\ Fine(header) /\ header.events = k.events /\ Waits(header) = Waits(k)
      /\ BackendFds(header) = BackendFds(k)
      /\ \A queued \in BOOLEAN : Stands(k, queued) => Stands(header, queued)
  <2>1. /\ header \in Connection /\ header.state = k.state /\ header.mode = k.mode /\ header.open = k.open
        /\ header.body = k.body /\ header.finished = k.finished /\ header.out = k.out /\ header.hctx = k.hctx
        /\ header.events = k.events /\ header.writable = k.writable /\ header.limited = k.limited
        /\ header.rq = k.rq
    BY <1>0 DEF Connection
  <2>. HIDE DEF header
  <2>2. Fine(header) /\ BackendFds(header) = BackendFds(k) /\ Waits(header) = Waits(k)
    BY <2>1 DEF Fine, Sound, Stranded, BackendFds, Waits
  <2>3. \A queued \in BOOLEAN : Stands(k, queued) => Stands(header, queued)
    BY <2>1, <2>2 DEF Stands, Reads, Writes, Stranded
  <2>. QED  BY <2>1, <2>2, <2>3
<1>8. Fine(data)
  BY <1>0 DEF Connection, Fine, Sound, Stranded
<1>9. BackendFds(k) = 1
  BY DEF BackendFds
<1>1. CASE k.hctx # "reading"
  <2>1. k.state \in Deciding /\ k.hctx \in {"connecting", "writing"}
    <3>1. k.mode # "direct"
      BY DEF Has, Backend
    <3>2. k.state \notin AnswerStates
      BY <1>1 DEF Done, Backend
    <3>3. k.state \in {"connect", "req_start", "read", "req_end", "read_post", "handle", "resp_start",
                       "write", "resp_end", "error", "close"}
      BY <1>0 DEF Connection
    <3>. QED  BY <1>1, <3>1, <3>2, <3>3 DEF Fine, Sound, Stranded, AnswerStates, Deciding, Backend
  <2>2. r \in handle_subrequest(k) \/ r = Result([fcgi_connection_close(k) EXCEPT !.state = "error"], -1, 1, "hup")
    BY <1>1 DEF Answers
  <2>3. CASE r \in handle_subrequest(k)
    <3>1. Outcome(r) /\ (drops \/ r.jobs >= 1 \/ \E hctx \in Backend : r.k = [k EXCEPT !.hctx = hctx])
      BY <2>1, <2>3, SubrequestOutcome
    <3>2. ASSUME NEW hctx \in Backend
          PROVE  LET m == [k EXCEPT !.hctx = hctx] IN
                 /\ m.events = k.events /\ Waits(m) = Waits(k) /\ BackendFds(m) = 1
                 /\ \A queued \in BOOLEAN : Stands(k, queued) => Stands(m, queued)
      BY <1>0, <2>1 DEF Connection, Deciding, Waits, Stands, Reads, Writes, Stranded, BackendFds
    <3>3. CASE \E hctx \in Backend : r.k = [k EXCEPT !.hctx = hctx]
      <4>1. PICK hctx \in Backend : r.k = [k EXCEPT !.hctx = hctx]
        BY <3>3
      <4>. DEFINE m == [k EXCEPT !.hctx = hctx]
      <4>2. /\ m.events = k.events /\ Waits(m) = Waits(k) /\ BackendFds(m) = 1
            /\ \A queued \in BOOLEAN : Stands(k, queued) => Stands(m, queued)
        BY <3>2
      <4>. HIDE DEF m
      <4>. QED  BY <3>1, <4>1, <4>2 DEF Outcome, m
    <3>. QED  BY <3>1, <3>3 DEF Outcome
  <2>4. CASE r = Result([fcgi_connection_close(k) EXCEPT !.state = "error"], -1, 1, "hup")
    BY <1>4, <2>4, ResultParts
  <2>. QED  BY <2>2, <2>3, <2>4
<1>2. CASE k.hctx = "reading"
  <2>1. \/ r \in {Result(k, 0, 0, "part"), Result(header, 0, 0, "header")}
        \/ \E result : r = Result(hup, -1, 1, result) \/ r = Result(died, -1, 1, result)
        \/ r = Result(data, 0, 1, "data")
        \/ authorizer = TRUE /\ r = Result(auth, -1, 1, "authorized")
        \/ \E started \in BOOLEAN : \E result : r = Result(end(started), -1, 1, result)
    <3>1. k.started \in BOOLEAN
      BY <1>0 DEF Connection
    <3>. QED  BY <1>2, <3>1 DEF Answers
  <2>. HIDE DEF hup, died, end, auth, header, data
  <2>2. CASE r \in {Result(k, 0, 0, "part"), Result(header, 0, 0, "header")}
    <3>1. r.k \in {k, header} /\ r.jobs = 0
      BY <2>2, ResultParts
    <3>. QED  BY <1>7, <1>9, <3>1
  <2>3. CASE ~(r \in {Result(k, 0, 0, "part"), Result(header, 0, 0, "header")})
    <3>1. Fine(r.k) /\ r.jobs = 1
      <4>1. CASE authorizer = TRUE /\ r = Result(auth, -1, 1, "authorized")
        BY <1>10, <4>1, ResultParts
      <4>2. CASE \E started \in BOOLEAN : \E result : r = Result(end(started), -1, 1, result)
        BY <1>6, <4>2, ResultParts
      <4>3. CASE r = Result(data, 0, 1, "data") \/ \E result : r = Result(hup, -1, 1, result) \/ r = Result(died, -1, 1, result)
        BY <1>4, <1>5, <1>8, <4>3, ResultParts
      <4>. QED  BY <2>1, <2>3, <4>1, <4>2, <4>3
    <3>. QED  BY <3>1
  <2>. QED  BY <2>2, <2>3
<1>. QED  BY <1>1, <1>2

\* An event is noted in the struct.
LEMMA NotedFine ==
  ASSUME NEW k, Fine(k), NEW revent
  PROVE  Fine(Noted(k, revent))
<1>. DEFINE m == Noted(k, revent)
<1>1. /\ m \in Connection /\ m.state \in {k.state, "error"} /\ m.mode = k.mode /\ m.open = k.open
      /\ m.body = k.body /\ m.hctx = k.hctx /\ m.finished = k.finished /\ m.out = k.out
  <2>1. PICK a \in BOOLEAN, b \in BOOLEAN, st \in {k.state, "error"} :
           a = (k.readable \/ revent = "in") /\ b = (k.writable \/ revent = "out")
           /\ st = IF revent = "hup" THEN "error" ELSE k.state
    OBVIOUS
  <2>2. m = [k EXCEPT !.readable = a, !.writable = b, !.state = st]
    BY <2>1 DEF Noted
  <2>. DEFINE l == [k EXCEPT !.readable = a, !.writable = b, !.state = st]
  <2>3. a \in BOOLEAN /\ b \in BOOLEAN /\ st \in {k.state, "error"} /\ k \in Connection
    BY <2>1 DEF Fine
  <2>4. /\ l \in Connection /\ l.state = st /\ l.mode = k.mode /\ l.open = k.open
        /\ l.body = k.body /\ l.hctx = k.hctx /\ l.finished = k.finished /\ l.out = k.out
    BY <2>3 DEF Connection
  <2>5. m = l /\ st \in {k.state, "error"}
    BY <2>1, <2>2
  <2>. HIDE DEF m, l
  <2>. QED  BY <2>4, <2>5
<1>. HIDE DEF m
<1>2. Fine(m)
  BY <1>1 DEF Fine, Sound, Stranded
<1>. QED  BY <1>2 DEF m

\* connection_handle_fdevent puts every connection with an event into the
\* joblist, whatever it does besides.
LEMMA HandlingFine ==
  ASSUME NEW k, Fine(k), NEW ready, NEW r \in Handling(k, ready)
  PROVE  Fine(r.k) /\ r.jobs \in Nat /\ r.jobs >= 1
<1>1. CASE k.state \in {"read", "read_post"}
  <2>1. PICK j \in connection_handle_read_state(k, ready) : r = [k |-> j, jobs |-> 1]
    BY <1>1 DEF Handling
  <2>2. Fine(j)
    BY <1>1, <2>1, ReadFine
  <2>. QED  BY <2>1, <2>2
<1>2. CASE k.state = "write" /\ k.out /\ k.writable
  <2>1. PICK w \in connection_handle_write(k) : r = [k |-> w.k, jobs |-> 1 + w.jobs]
    BY <1>2 DEF Handling
  <2>2. Fine(w.k) /\ w.jobs \in Nat
    BY <1>2, <2>1, WriteFine
  <2>. QED  BY <2>1, <2>2
<1>3. CASE k.state \notin {"read", "read_post"} /\ ~(k.state = "write" /\ k.out /\ k.writable)
  <2>1. r.k = k /\ r.jobs = 1
    BY <1>3 DEF Handling
  <2>. QED  BY <2>1
<1>. QED  BY <1>1, <1>2, <1>3

-----------------------------------------------------------------------------
(* Queues, and the steps of the machine of one connection.                 *)
Queued(q, c) == \E i \in DOMAIN q : q[i] = c
Longer(q, r) == \A c \in Cons : Queued(q, c) => Queued(r, c)

\* What is appended is in the queue, and what was in it stays.
LEMMA AppendedQueued ==
  ASSUME NEW q \in Seq(Cons), NEW c \in Cons, NEW n \in Nat
  PROVE  Longer(q, q \o Appended(c, n)) /\ (n >= 1 => Queued(q \o Appended(c, n), c))
<1>1. Appended(c, n) \in Seq(Cons) /\ Len(Appended(c, n)) = n
  BY DEF Appended
<1>. DEFINE a == Appended(c, n)  r == q \o a
<1>2. /\ DOMAIN q = 1 .. Len(q) /\ DOMAIN r = 1 .. Len(q) + n /\ Len(q) \in Nat
      /\ \A i \in 1 .. Len(q) : r[i] = q[i]
  BY <1>1
<1>3. n >= 1 => r[Len(q) + 1] = c
  <2>1. ASSUME n >= 1 PROVE r[Len(q) + 1] = a[1] /\ a[1] = c
    BY <1>1, <2>1 DEF Appended
  <2>. QED  BY <2>1
<1>. HIDE DEF a, r
<1>4. ASSUME NEW d \in Cons, Queued(q, d) PROVE Queued(r, d)
  <2>1. PICK i \in 1 .. Len(q) : q[i] = d
    BY <1>2, <1>4 DEF Queued
  <2>2. i \in DOMAIN r /\ r[i] = d
    BY <1>2, <2>1
  <2>. QED  BY <2>2 DEF Queued
<1>5. ASSUME n >= 1 PROVE Queued(r, c)
  <2>1. Len(q) + 1 \in DOMAIN r
    BY <1>2, <1>5
  <2>. QED  BY <1>3, <1>5, <2>1 DEF Queued
<1>. QED  BY <1>4, <1>5 DEF Longer, a, r

\* All but the head of a queue is in its tail.
LEMMA TailQueued ==
  ASSUME NEW q \in Seq(Cons), q # <<>>, NEW d \in Cons, Queued(q, d), d # Head(q)
  PROVE  Queued(Tail(q), d)
<1>1. PICK i \in 1 .. Len(q) : q[i] = d
  BY DEF Queued
<1>2. Len(q) \in Nat /\ Head(q) = q[1] /\ DOMAIN Tail(q) = 1 .. Len(q) - 1
      /\ \A j \in 1 .. Len(q) - 1 : Tail(q)[j] = q[j + 1]
  OBVIOUS
<1>3. i - 1 \in 1 .. Len(q) - 1 /\ (i - 1) + 1 = i
  BY <1>1, <1>2
<1>4. Tail(q)[i - 1] = d
  BY <1>1, <1>2, <1>3
<1>. QED  BY <1>2, <1>3, <1>4 DEF Queued

(* A step of the machine of c: c is in order, and if the machine has       *)
(* stopped something will wake it; of the others at most the place in the  *)
(* array has changed, and nobody has left a queue.                         *)
Moved(d) == con'[d] = con[d] \/ \E n : con'[d] = [con[d] EXCEPT !.ndx = n]
StepFor(c) ==
  /\ con' = [d \in Cons |-> con'[d]] /\ Fine(con'[c])
  /\ running' = c \/ ~con'[c].open \/ Rests(con'[c], Queued(fdwaitqueue', c))
  /\ \A d \in Cons \ {c} : Moved(d)
  /\ Longer(joblist, joblist') /\ Longer(fdwaitqueue, fdwaitqueue')

\* The machine leaves k, after it has changed the state or where it may rest.
LEMMA LeavesFor ==
  ASSUME DOMAIN con = Cons, NEW c \in Cons, running = c, NEW k, Fine(k),
         Leaves(c, k) \/ ComesBack(c, k),
         Leaves(c, k) /\ k.state = con[c].state /\ k.open => Stands(k, Queued(fdwaitqueue', c)),
         Longer(joblist, joblist'), Longer(fdwaitqueue, fdwaitqueue')
  PROVE  StepFor(c)
<1>. DEFINE m == [k EXCEPT !.events = Waits(k)]
<1>1. /\ m \in Connection /\ m.state = k.state /\ m.mode = k.mode /\ m.open = k.open
      /\ m.body = k.body /\ m.hctx = k.hctx /\ m.finished = k.finished /\ m.out = k.out
      /\ m.writable = k.writable /\ m.limited = k.limited /\ m.rq = k.rq /\ m.events = Waits(k)
  <2>1. Waits(k) \in {{}, {"in"}, {"out"}}
    BY DEF Waits
  <2>. QED  BY <2>1 DEF Fine, Connection
<1>. HIDE DEF m
<1>2. Fine(m) /\ Waits(m) = Waits(k)
  BY <1>1 DEF Fine, Sound, Stranded, Waits
<1>3. ASSUME NEW queued, Stands(k, queued) PROVE Rests(m, queued)
  BY <1>1, <1>2, <1>3 DEF Rests, Stands, Reads, Writes, Stranded, BackendFds
<1>4. \/ con' = [con EXCEPT ![c] = k] /\ running' = c
      \/ con' = [con EXCEPT ![c] = m] /\ running' = None /\ Leaves(c, k) /\ k.state = con[c].state
  BY DEF Leaves, ComesBack, m
<1>5. con' = [d \in Cons |-> con'[d]] /\ \A d \in Cons \ {c} : Moved(d)
  BY <1>4 DEF Moved
<1>6. CASE con' = [con EXCEPT ![c] = k] /\ running' = c
  <2>1. con'[c] = k
    BY <1>6
  <2>. QED  BY <1>5, <1>6, <2>1 DEF StepFor
<1>7. CASE con' = [con EXCEPT ![c] = m] /\ running' = None /\ Leaves(c, k) /\ k.state = con[c].state
  <2>1. con'[c] = m
    BY <1>7
  <2>2. ~m.open \/ Rests(m, Queued(fdwaitqueue', c))
    BY <1>1, <1>3, <1>7
  <2>. QED  BY <1>2, <1>5, <2>1, <2>2 DEF StepFor
<1>. QED  BY <1>4, <1>6, <1>7

\* The connection is closed, and the machine goes on.
LEMMA ClosesFor ==
  ASSUME Array, NEW c \in Cons, running = c, con[c].open, NEW k \in Connection, NEW fds, connection_close(c, k, fds)
  PROVE  StepFor(c)
<1>. DEFINE K == [k EXCEPT !.ndx = -1, !.open = FALSE, !.events = {}, !.state = "connect"]
<1>1. Fine(K)
  <2>1. -1 \in -1 .. Cardinality(Cons) - 1
    BY Capacity
  <2>2. K \in Connection /\ K.state = "connect" /\ K.open = FALSE
    BY <2>1 DEF Connection
  <2>. HIDE DEF K
  <2>. QED  BY <2>2 DEF Fine, Sound, Stranded
<1>. HIDE DEF K
<1>2. con' = Deleted(c, k) /\ running' = c /\ UNCHANGED queueVars
  BY DEF connection_close
<1>3. con' = [d \in Cons |-> con'[d]] /\ con'[c] = K /\ \A d \in Cons \ {c} : Moved(d)
  <2>1. DOMAIN con = Cons
    BY DEF Array
  <2>2. con' = [[con EXCEPT ![ptr[Last]].ndx = con[c].ndx] EXCEPT ![c] = K]
    BY <1>2 DEF Deleted, K
  <2>. QED  BY <2>1, <2>2 DEF Moved
<1>. QED  BY <1>1, <1>2, <1>3 DEF StepFor, Longer, queueVars

\* Queues that do not change keep what is in them.
LEMMA SameQueues ==
  ASSUME UNCHANGED queueVars
  PROVE  Longer(joblist, joblist') /\ Longer(fdwaitqueue, fdwaitqueue')
BY DEF Longer, queueVars

\* The cases of the switch, one by one: a request begins.
LEMMA RequestStartFor ==
  ASSUME Array, NEW c \in Cons, Fine(con[c]), RequestStart(c)
  PROVE  StepFor(c)
<1>. DEFINE k == [con[c] EXCEPT !.state = "read", !.age = 0, !.count = con[c].count + 1]
<1>1. running = c /\ con[c].state = "req_start" /\ Leaves(c, k) /\ UNCHANGED queueVars
  BY DEF RequestStart, In
<1>2. k \in Connection /\ k.state = "read" /\ k.mode = con[c].mode
  <2>1. con[c] \in Connection /\ con[c].count + 1 \in Nat
    BY DEF Fine, Connection
  <2>. QED  BY <2>1 DEF Connection
<1>3. DOMAIN con = Cons
  BY DEF Array
<1>. HIDE DEF k
<1>4. Fine(k)
  BY <1>1, <1>2 DEF Fine, Sound, Stranded
<1>. QED  BY <1>1, <1>2, <1>3, <1>4, SameQueues, LeavesFor

\* The header is parsed.
LEMMA RequestEndFor ==
  ASSUME Array, NEW c \in Cons, Fine(con[c]), RequestEnd(c)
  PROVE  StepFor(c)
<1>1. running = c /\ con[c].state = "req_end" /\ UNCHANGED queueVars /\ con[c].mode = "direct" /\ con[c] \in Connection
  BY DEF RequestEnd, In, Fine, Sound, Stranded
<1>2. ASSUME NEW n \in Bodies, NEW a \in BOOLEAN
      PROVE  LET m == [con[c] EXCEPT !.state = IF n > 0 THEN "read_post" ELSE "handle",
                                     !.body = n, !.keep_alive = a] IN
             Fine(m) /\ m.state # "req_end"
  <2>1. n \in Nat
    BY LimitAssumption
  <2>2. CASE n > 0
    BY <1>1, <2>1, <2>2 DEF Connection, Fine, Sound, Stranded
  <2>3. CASE ~(n > 0)
    BY <1>1, <2>1, <2>3 DEF Connection, Fine, Sound, Stranded
  <2>. QED  BY <2>2, <2>3
<1>3. PICK k : Leaves(c, k) /\ Fine(k) /\ k.state # "req_end"
  <2>1. CASE Leaves(c, Denied(con[c]))
    BY <1>1, <2>1, DeniedFine
  <2>2. CASE ~Leaves(c, Denied(con[c]))
    <3>1. PICK n \in Bodies, a \in BOOLEAN :
             Leaves(c, [con[c] EXCEPT !.state = IF n > 0 THEN "read_post" ELSE "handle", !.body = n, !.keep_alive = a])
      BY <2>2 DEF RequestEnd
    <3>. QED  BY <1>2, <3>1
  <2>. QED  BY <2>1, <2>2
<1>4. DOMAIN con = Cons
  BY DEF Array
<1>. QED  BY <1>1, <1>3, <1>4, SameQueues, LeavesFor

\* A connection that has read waits for more, or changes its state.
LEMMA ReadFor ==
  ASSUME Array, NEW c \in Cons, Fine(con[c]), Read(c)
  PROVE  StepFor(c)
<1>1. running = c /\ con[c].state \in {"read", "read_post"} /\ UNCHANGED queueVars /\ DOMAIN con = Cons
  BY DEF Read, In, Array
<1>2. PICK k \in connection_handle_read_state(con[c], FALSE) : Leaves(c, k)
  BY DEF Read
<1>3. Fine(k) /\ (k.state = con[c].state => Reads(k))
  BY <1>1, <1>2, ReadFine
<1>. QED  BY <1>1, <1>2, <1>3, SameQueues, LeavesFor DEF Stands

\* A request that stays undecided has a descriptor, or a place in the
\* fdwaitqueue.
LEMMA HandleRequestFor ==
  ASSUME Array, Queues, NEW c \in Cons, Fine(con[c]), HandleRequest(c)
  PROVE  StepFor(c)
<1>1. running = c /\ con[c].state = "handle" /\ Has(con[c]) /\ DOMAIN con = Cons
  BY DEF HandleRequest, In, Array, Struct
<1>2. PICK r \in http_response_prepare(con[c]) :
        /\ CASE r.result = "FINISHED" /\ ToHandler(r.k) ->
                  ComesBack(c, [r.k EXCEPT !.status = "none", !.handler = TRUE])
             [] r.result = "FINISHED" /\ ~ToHandler(r.k) ->
                  Leaves(c, [r.k EXCEPT !.state = "resp_start",
                                        !.status = IF r.k.status = "none" THEN "decided" ELSE r.k.status])
             [] r.result = "ERROR" -> Leaves(c, [r.k EXCEPT !.state = "error"])
             [] OTHER -> Leaves(c, r.k)
        /\ joblist_append(c, r.jobs)
        /\ fdwaitqueue' = fdwaitqueue \o Appended(c, IF r.result = "WAIT_FOR_FD" THEN 1 ELSE 0)
  BY DEF HandleRequest
<1>3. Outcome(r) /\ r.k.state = "handle"
  BY <1>1, <1>2, PrepareOutcome, PreparePart DEF Part
<1>4. Longer(joblist, joblist') /\ Longer(fdwaitqueue, fdwaitqueue')
      /\ (r.result = "WAIT_FOR_FD" => Queued(fdwaitqueue', c))
  <2>1. joblist \in Seq(Cons) /\ fdwaitqueue \in Seq(Cons) /\ r.jobs \in Nat
    BY <1>3 DEF Queues, Outcome
  <2>2. Longer(joblist, joblist')
    BY <1>2, <2>1, AppendedQueued DEF joblist_append
  <2>. DEFINE n == IF r.result = "WAIT_FOR_FD" THEN 1 ELSE 0
  <2>3. n \in Nat /\ (r.result = "WAIT_FOR_FD" => n >= 1) /\ fdwaitqueue' = fdwaitqueue \o Appended(c, n)
    BY <1>2
  <2>. HIDE DEF n
  <2>. QED  BY <2>1, <2>2, <2>3, AppendedQueued
<1>5. r.k \in Connection /\ Sound(r.k)
  BY <1>3 DEF Outcome, Fine
<1>6. CASE r.result = "FINISHED" /\ ToHandler(r.k)
  <2>. DEFINE k == [r.k EXCEPT !.status = "none", !.handler = TRUE]
  <2>1. r.k.mode = "direct" /\ ComesBack(c, k)
    BY <1>2, <1>6 DEF ToHandler
  <2>2. Fine(k)
    BY <1>3, <1>5, <2>1 DEF Connection, Fine, Sound, Stranded
  <2>3. ~Leaves(c, k) \/ k.state # con[c].state \/ Stands(k, Queued(fdwaitqueue', c))
    <3>1. running' = c
      BY <1>1, <2>1 DEF ComesBack
    <3>. HIDE DEF k
    <3>2. Leaves(c, k) /\ k.state = con[c].state => running' = None
      BY DEF Leaves
    <3>. QED  BY <3>1, <3>2, ConsAssumption
  <2>. HIDE DEF k
  <2>. QED  BY <1>1, <1>4, <2>1, <2>2, <2>3, LeavesFor
<1>7. CASE r.result = "FINISHED" /\ ~ToHandler(r.k)
  <2>. DEFINE k == [r.k EXCEPT !.state = "resp_start",
                               !.status = IF r.k.status = "none" THEN "decided" ELSE r.k.status]
  <2>1. Leaves(c, k)
    BY <1>2, <1>7
  <2>2. Fine(k) /\ k.state = "resp_start"
    <3>1. r.k.mode # "direct" /\ r.k.hctx = "none" => r.k.finished
      BY <1>3, <1>7 DEF Outcome
    <3>2. /\ k \in Connection /\ k.state = "resp_start" /\ k.mode = r.k.mode /\ k.hctx = r.k.hctx
          /\ k.finished = r.k.finished
      BY <1>5 DEF Connection
    <3>. HIDE DEF k
    <3>. QED  BY <3>1, <3>2 DEF Fine, Sound, Stranded
  <2>. HIDE DEF k
  <2>. QED  BY <1>1, <1>4, <2>1, <2>2, LeavesFor
<1>8. CASE r.result = "ERROR"
  <2>. DEFINE k == [r.k EXCEPT !.state = "error"]
  <2>1. Leaves(c, k)
    BY <1>2, <1>8
  <2>2. Fine(k) /\ k.state = "error"
    BY <1>5, ErrorFine
  <2>. HIDE DEF k
  <2>. QED  BY <1>1, <1>4, <2>1, <2>2, LeavesFor
<1>9. CASE r.result \in {"WAIT_FOR_FD", "WAIT_FOR_EVENT"}
  <2>1. Leaves(c, r.k)
    BY <1>2, <1>9
  <2>2. Stands(r.k, Queued(fdwaitqueue', c))
    BY <1>3, <1>4, <1>9 DEF Stands, Outcome
  <2>3. Fine(r.k)
    BY <1>3 DEF Outcome
  <2>. QED  BY <1>1, <1>4, <2>1, <2>2, <2>3, LeavesFor
<1>. QED  BY <1>3, <1>6, <1>7, <1>8, <1>9 DEF Outcome

\* A response that is prepared has something to send, and an end or a backend.
LEMMA ResponseStartFor ==
  ASSUME Array, NEW c \in Cons, Fine(con[c]), ResponseStart(c)
  PROVE  StepFor(c)
<1>1. running = c /\ con[c].state = "resp_start" /\ UNCHANGED queueVars /\ DOMAIN con = Cons
      /\ Struct(con[c])
  BY DEF ResponseStart, In, Array
<1>2. PICK l \in Prepared(con[c]) : Leaves(c, [l EXCEPT !.state = "write"])
  BY DEF ResponseStart
<1>. DEFINE whole == [con[c] EXCEPT !.finished = TRUE, !.out = TRUE]
            part(a) == [con[c] EXCEPT !.out = TRUE, !.keep_alive = a]
            k == [l EXCEPT !.state = "write"]
<1>3. con[c] \in Connection
  BY DEF Fine
<1>4. l = whole \/ (con[c].mode # "direct" /\ \E a \in BOOLEAN : l = part(a))
  <2>1. con[c].keep_alive \in BOOLEAN /\ (con[c].keep_alive /\ con[c].finished) \in BOOLEAN
    BY <1>3 DEF Connection
  <2>. QED  BY <1>2, <2>1 DEF Prepared
<1>5. Fine(k) /\ k.state = "write"
  <2>1. CASE l = whole
    <3>1. l \in Connection /\ l.finished /\ l.out
      BY <1>3, <2>1 DEF Connection
    <3>. QED  BY <3>1 DEF Connection, Fine, Sound, Stranded
  <2>2. CASE con[c].mode # "direct" /\ \E a \in BOOLEAN : l = part(a)
    <3>1. PICK a \in BOOLEAN : l = part(a)
      BY <2>2
    <3>2. l \in Connection /\ l.finished = con[c].finished /\ l.hctx = con[c].hctx /\ l.out
      BY <1>3, <3>1 DEF Connection
    <3>3. l.finished \/ l.hctx = "reading"
      BY <1>1, <2>2, <3>2 DEF Fine, Sound, Stranded, Struct, Done, AnswerStates
    <3>. QED  BY <3>2, <3>3 DEF Connection, Fine, Sound, Stranded
  <2>. QED  BY <1>4, <2>1, <2>2
<1>. HIDE DEF k
<1>6. Leaves(c, k)
  BY <1>2 DEF k
<1>. QED  BY <1>1, <1>5, <1>6, SameQueues, LeavesFor

\* A connection that has written waits for the socket or for its backend.
LEMMA WriteFor ==
  ASSUME Array, Queues, NEW c \in Cons, Fine(con[c]), Write(c)
  PROVE  StepFor(c)
<1>1. running = c /\ con[c].state = "write" /\ UNCHANGED fdwaitqueue /\ DOMAIN con = Cons /\ joblist \in Seq(Cons)
  BY DEF Write, In, Array, Queues
<1>2. Longer(fdwaitqueue, fdwaitqueue')
  BY <1>1 DEF Longer
<1>3. CASE con[c].out /\ con[c].writable
  <2>1. PICK r \in connection_handle_write(con[c]) : Leaves(c, r.k) /\ joblist_append(c, r.jobs)
    BY <1>3 DEF Write
  <2>2. Fine(r.k) /\ (r.k.state = "write" => Writes(r.k)) /\ r.jobs \in Nat
    BY <1>1, <1>3, <2>1, WriteFine
  <2>3. Longer(joblist, joblist')
    BY <1>1, <2>1, <2>2, AppendedQueued DEF joblist_append
  <2>. QED  BY <1>1, <1>2, <2>1, <2>2, <2>3, LeavesFor DEF Stands
<1>4. CASE ~(con[c].out /\ con[c].writable)
  <2>1. Leaves(c, con[c]) /\ UNCHANGED joblist
    BY <1>4 DEF Write
  <2>2. Longer(joblist, joblist')
    BY <2>1 DEF Longer
  <2>3. Writes(con[c])
    BY <1>1, <1>4 DEF Writes, Stranded, Fine, Sound
  <2>. QED  BY <1>1, <1>2, <2>1, <2>2, <2>3, LeavesFor DEF Stands
<1>. QED  BY <1>3, <1>4

\* The end of a request leaves nothing of it.
LEMMA EndedFine ==
  ASSUME NEW k \in Connection
  PROVE  LET m == Ended(k) IN m \in Connection /\ m.mode = "direct" /\ m.open = k.open
<1>1. 0 \in 0 .. Reconnects
  BY LimitAssumption
<1>. QED  BY <1>1 DEF Connection, Ended, connection_reset, fcgi_connection_close

\* The response is sent: the connection is kept, or closed.
LEMMA ResponseEndFor ==
  ASSUME Array, NEW c \in Cons, Fine(con[c]), ResponseEnd(c)
  PROVE  StepFor(c)
<1>1. running = c /\ con[c].state = "resp_end" /\ DOMAIN con = Cons /\ con[c].open
  BY DEF ResponseEnd, In, Array, Struct
<1>2. Ended(con[c]) \in Connection /\ Ended(con[c]).mode = "direct"
  BY EndedFine DEF Fine
<1>3. CASE con[c].keep_alive
  <2>. DEFINE k == [Ended(con[c]) EXCEPT !.state = "req_start"]
  <2>1. Leaves(c, k) /\ UNCHANGED queueVars
    BY <1>3 DEF ResponseEnd
  <2>2. Fine(k) /\ k.state = "req_start"
    BY <1>2 DEF Connection, Fine, Sound, Stranded
  <2>. HIDE DEF k
  <2>. QED  BY <1>1, <2>1, <2>2, SameQueues, LeavesFor
<1>4. CASE ~con[c].keep_alive
  <2>1. connection_close(c, Ended(con[c]), BackendFds(con[c]))
    BY <1>4 DEF ResponseEnd
  <2>. QED  BY <1>1, <1>2, <2>1, ClosesFor
<1>. QED  BY <1>3, <1>4

\* A connection in error lingers, or is closed.
LEMMA ErrorFor ==
  ASSUME Array, NEW c \in Cons, Fine(con[c]), Error(c)
  PROVE  StepFor(c)
<1>1. running = c /\ con[c].state = "error" /\ DOMAIN con = Cons /\ con[c].open
  BY DEF Error, In, Array, Struct
<1>2. Ended(con[c]) \in Connection /\ Ended(con[c]).mode = "direct"
  BY EndedFine DEF Fine
<1>. DEFINE k == [Ended(con[c]) EXCEPT !.state = "close", !.keep_alive = FALSE]
            m == [Ended(con[c]) EXCEPT !.keep_alive = FALSE]
<1>3. (Leaves(c, k) /\ UNCHANGED queueVars) \/ connection_close(c, m, BackendFds(con[c]))
  BY DEF Error
<1>. HIDE DEF Ended
<1>7. k \in Connection /\ k.state = "close"
  BY <1>2 DEF Connection
<1>8. m \in Connection
  BY <1>2 DEF Connection
<1>. HIDE DEF k, m
<1>4. Fine(k) /\ k.state = "close" /\ m \in Connection
  BY <1>7, <1>8 DEF Fine, Sound, Stranded
<1>5. CASE Leaves(c, k) /\ UNCHANGED queueVars
  BY <1>1, <1>4, <1>5, SameQueues, LeavesFor
<1>6. CASE connection_close(c, m, BackendFds(con[c]))
  BY <1>1, <1>4, <1>6, ClosesFor
<1>. QED  BY <1>3, <1>5, <1>6

\* A connection that has lingered is closed.
LEMMA CloseFor ==
  ASSUME Array, NEW c \in Cons, Fine(con[c]), Close(c)
  PROVE  StepFor(c)
<1>1. running = c /\ con[c].state = "close" /\ con[c].open /\ con[c] \in Connection
  BY DEF Close, In, Array, Struct, Fine
<1>2. connection_close(c, con[c], 0)
  BY DEF Close
<1>. QED  BY <1>1, <1>2, ClosesFor

\* What is left of a struct after its client is emptied.
LEMMA ConnectFor ==
  ASSUME Array, NEW c \in Cons, Fine(con[c]), Connect(c)
  PROVE  StepFor(c)
<1>. DEFINE k == [con[c] EXCEPT !.rq = <<>>, !.count = 0]
<1>1. running = c /\ con[c].state = "connect" /\ UNCHANGED queueVars /\ DOMAIN con = Cons /\ Leaves(c, k)
  BY DEF Connect, In, Array
<1>4. con[c] \in Connection /\ 0 \in Nat
  BY DEF Fine
<1>5. <<>> \in Seq({"part", "end"})
  OBVIOUS
<1>2. k \in Connection /\ k.state = "connect" /\ k.open = con[c].open
  BY <1>1, <1>4, <1>5 DEF Connection
<1>. HIDE DEF k
<1>3. Fine(k) /\ ~k.open
  BY <1>1, <1>2 DEF Fine, Sound, Stranded
<1>. QED  BY <1>1, <1>2, <1>3, SameQueues, LeavesFor

\* Whatever the machine does.
LEMMA MachineFor ==
  ASSUME Array, Queues, NEW c \in Cons, Fine(con[c]), connection_state_machine(c)
  PROVE  StepFor(c) /\ running = c
<1>1. running = c
  BY DEF connection_state_machine, RequestStart, RequestEnd, Read, HandleRequest, ResponseStart, Write,
         ResponseEnd, Error, Close, Connect, In
<1>. QED  BY <1>1, RequestStartFor, RequestEndFor, ReadFor, HandleRequestFor, ResponseStartFor, WriteFor,
             ResponseEndFor, ErrorFor, CloseFor, ConnectFor DEF connection_state_machine

-----------------------------------------------------------------------------
(* The invariants. Every struct is in order; and, unless a backend drops   *)
(* connections, every connection that is open is served: its machine runs, *)
(* it has a job that this turn of the loop will work off, or it rests      *)
(* where something will wake it.                                           *)
Whole == con = [c \in Cons |-> con[c]] /\ \A c \in Cons : Fine(con[c])
Busy == pc \in {"events", "accept", "joblist"}
ServedAt(c) ==
  \/ running = c
  \/ ~con[c].open
  \/ Busy /\ Queued(joblist, c)
  \/ Rests(con[c], Queued(fdwaitqueue, c))
Served == \A c \in Cons : ServedAt(c)

\* Every struct knows a place in the array, or that it has none.
LEMMA PlaceKnown == Array => \A c \in Cons : con[c].ndx \in -1 .. Cardinality(Cons) - 1
<1>. SUFFICES ASSUME Array, NEW c \in Cons
              PROVE  con[c].ndx \in -1 .. Cardinality(Cons) - 1
  OBVIOUS
<1>1. PICK i \in 0 .. Cardinality(Cons) - 1 : ptr[i] = c
  BY DEF Array, Places
<1>2. con[c].ndx = i \/ con[c].ndx = -1
  BY <1>1 DEF Array, Places, ConnsArray
<1>. QED  BY <1>1, <1>2, Capacity

\* The same of the state after a step.
LEMMA PlaceStillKnown == Array' => (\A c \in Cons : con[c].ndx \in -1 .. Cardinality(Cons) - 1)'
BY PlaceKnown, PTL

\* A struct whose place has changed is in order and rests as before.
LEMMA MovedFine ==
  ASSUME NEW c \in Cons, Fine(con[c]), Moved(c), con'[c].ndx \in -1 .. Cardinality(Cons) - 1
  PROVE  /\ Fine(con'[c]) /\ con'[c].open = con[c].open
         /\ \A queued \in BOOLEAN : Rests(con[c], queued) => Rests(con'[c], queued)
<1>1. CASE con'[c] = con[c]
  BY <1>1
<1>2. CASE \E n : con'[c] = [con[c] EXCEPT !.ndx = n]
  <2>1. PICK n : con'[c] = [con[c] EXCEPT !.ndx = n]
    BY <1>2
  <2>2. con[c] \in Connection
    BY DEF Fine
  <2>. DEFINE k == con[c]
              m == con'[c]
  <2>3. m.ndx = n
    BY <2>1, <2>2 DEF Connection
  <2>4. /\ m \in Connection /\ m.state = k.state /\ m.mode = k.mode /\ m.open = k.open /\ m.body = k.body
        /\ m.hctx = k.hctx /\ m.finished = k.finished /\ m.out = k.out /\ m.writable = k.writable
        /\ m.limited = k.limited /\ m.rq = k.rq /\ m.events = k.events
    BY <2>1, <2>2, <2>3 DEF Connection
  <2>5. Sound(k)
    BY DEF Fine
  <2>. HIDE DEF k, m
  <2>6. Fine(m) /\ Waits(m) = Waits(k) /\ BackendFds(m) = BackendFds(k)
    BY <2>4, <2>5 DEF Fine, Sound, Stranded, Waits, BackendFds
  <2>7. \A queued \in BOOLEAN : Rests(k, queued) => Rests(m, queued)
    BY <2>4, <2>6 DEF Rests, Stands, Reads, Writes, Stranded
  <2>. QED  BY <2>4, <2>6, <2>7 DEF k, m
<1>. QED  BY <1>1, <1>2 DEF Moved

\* Who rests, still does when the fdwaitqueue has grown.
LEMMA RestsStill ==
  ASSUME NEW k, NEW p \in BOOLEAN, NEW q \in BOOLEAN, p => q, Rests(k, p)
  PROVE  Rests(k, q)
BY DEF Rests, Stands

(* A step on connection c that leaves c served leaves all served.          *)
LEMMA ServedByStep ==
  ASSUME Whole, NEW c \in Cons, Array', con' = [d \in Cons |-> con'[d]], Fine(con'[c]),
         \A d \in Cons \ {c} : Moved(d),
         Longer(joblist, joblist'), Longer(fdwaitqueue, fdwaitqueue'), pc' = pc, running \in {c, None}
  PROVE  Whole' /\ (Served /\ ServedAt(c)' => Served')
<1>1. ASSUME NEW d \in Cons, d # c
      PROVE  /\ Fine(con'[d]) /\ con'[d].open = con[d].open
             /\ \A queued \in BOOLEAN : Rests(con[d], queued) => Rests(con'[d], queued)
  <2>1. \A e \in Cons : con'[e].ndx \in -1 .. Cardinality(Cons) - 1
    BY PlaceStillKnown
  <2>2. Fine(con[d]) /\ Moved(d)
    BY <1>1 DEF Whole
  <2>. QED  BY <2>1, <2>2, MovedFine
<1>2. Whole'
  BY <1>1 DEF Whole
<1>3. ASSUME Served, NEW d \in Cons, d # c
      PROVE  ServedAt(d)'
  <2>1. running # d
    BY <1>3, ConsAssumption
  <2>2. \/ ~con[d].open
        \/ Busy /\ Queued(joblist, d)
        \/ Rests(con[d], Queued(fdwaitqueue, d))
    BY <1>3, <2>1 DEF Served, ServedAt
  <2>3. CASE ~con[d].open
    BY <1>1, <1>3, <2>3 DEF ServedAt
  <2>4. CASE Busy /\ Queued(joblist, d)
    BY <2>4 DEF Busy, Longer, ServedAt
  <2>5. CASE Rests(con[d], Queued(fdwaitqueue, d))
    <3>1. Queued(fdwaitqueue, d) => Queued(fdwaitqueue', d)
      BY DEF Longer
    <3>2. Queued(fdwaitqueue, d) \in BOOLEAN /\ Queued(fdwaitqueue', d) \in BOOLEAN
      BY DEF Queued
    <3>3. Rests(con'[d], Queued(fdwaitqueue, d))
      BY <1>1, <1>3, <2>5, <3>2
    <3>4. Rests(con'[d], Queued(fdwaitqueue', d))
      BY <3>1, <3>2, <3>3, RestsStill
    <3>. QED  BY <3>4 DEF ServedAt
  <2>. QED  BY <2>2, <2>3, <2>4, <2>5
<1>. QED  BY <1>2, <1>3 DEF Served

\* A step of a machine lets no connection down.
LEMMA MachineServes ==
  ASSUME IInv, IInv', Whole, Machine
  PROVE  Whole' /\ (Served => Served')
<1>1. PICK c \in Cons : connection_state_machine(c) /\ UNCHANGED loopVars
  BY DEF Machine
<1>2. StepFor(c) /\ running = c
  BY <1>1, MachineFor DEF IInv, Structs, Whole
<1>3. pc' = pc /\ Array'
  BY <1>1 DEF loopVars, IInv, Structs
<1>4. ServedAt(c)'
  BY <1>2 DEF StepFor, ServedAt
<1>. QED  BY <1>2, <1>3, <1>4, ServedByStep DEF StepFor

\* A connection of which an event is handled gets a job, unless it goes on
\* to wait for its backend.
LEMMA EventServes ==
  ASSUME IInv, IInv', Whole, NEW e \in batch, HandleEvent(e)
  PROVE  Whole' /\ (~drops /\ Served => Served')
<1>. DEFINE c == e.con
<1>1. running = None /\ pc = "events" /\ pc' = pc /\ UNCHANGED fdwaitqueue /\ UNCHANGED running /\ e.fd # "server"
  BY DEF HandleEvent, At, connection_handle_fdevent, fcgi_handle_fdevent
<1>2. c \in Cons /\ Struct(con[c]) /\ Fine(con[c]) /\ DOMAIN con = Cons /\ joblist \in Seq(Cons) /\ Array'
  BY <1>1 DEF IInv, Batch, Structs, Array, Whole, Queues
<1>3. Busy /\ Busy' /\ Longer(fdwaitqueue, fdwaitqueue')
  BY <1>1 DEF Busy, Longer
<1>4. \E r : /\ con' = [con EXCEPT ![c] = r.k] /\ joblist_append(c, r.jobs) /\ Fine(r.k) /\ r.jobs \in Nat
             /\ \/ drops \/ r.jobs >= 1
                \/ /\ BackendFds(r.k) = 1 /\ r.k.events = con[c].events /\ Waits(r.k) = Waits(con[c])
                   /\ \A queued \in BOOLEAN : Stands(con[c], queued) => Stands(r.k, queued)
  <2>1. CASE connection_handle_fdevent(e)
    <3>. DEFINE k == Noted(con[c], e.revent)
    <3>1. PICK r \in Handling(k, e.revent = "in") : con' = [con EXCEPT ![c] = r.k] /\ joblist_append(c, r.jobs)
      BY <2>1 DEF connection_handle_fdevent
    <3>2. Fine(k)
      BY <1>2, NotedFine
    <3>. HIDE DEF k
    <3>3. Fine(r.k) /\ r.jobs \in Nat /\ r.jobs >= 1
      BY <3>1, <3>2, HandlingFine
    <3>. QED  BY <3>1, <3>3
  <2>2. CASE fcgi_handle_fdevent(e)
    <3>1. PICK r \in Answers(con[c]) : con' = [con EXCEPT ![c] = r.k] /\ joblist_append(c, r.jobs)
      BY <2>2 DEF fcgi_handle_fdevent
    <3>2. BackendFds(con[c]) = 1
      BY <2>2 DEF fcgi_handle_fdevent, IInv, EventsHaveHandlers
    <3>3. con[c].hctx \in Backend
      BY <3>2 DEF BackendFds
    <3>4. Has(con[c]) /\ con[c].open /\ con[c].state # "close" /\ (con[c].state \in AnswerStates => Done(con[c]))
      BY <1>2, <3>3 DEF Struct, Clean, Blank, Backend
    <3>5. /\ Fine(r.k) /\ r.jobs \in Nat
          /\ \/ drops \/ r.jobs >= 1
             \/ /\ BackendFds(r.k) = 1 /\ r.k.events = con[c].events /\ Waits(r.k) = Waits(con[c])
                /\ \A queued \in BOOLEAN : Stands(con[c], queued) => Stands(r.k, queued)
      BY <1>2, <3>1, <3>3, <3>4, AnswersFine
    <3>. QED  BY <3>1, <3>5
  <2>. QED  BY <2>1, <2>2 DEF HandleEvent
<1>5. PICK r : /\ con' = [con EXCEPT ![c] = r.k] /\ joblist_append(c, r.jobs) /\ Fine(r.k) /\ r.jobs \in Nat
               /\ \/ drops \/ r.jobs >= 1
                  \/ /\ BackendFds(r.k) = 1 /\ r.k.events = con[c].events /\ Waits(r.k) = Waits(con[c])
                     /\ \A queued \in BOOLEAN : Stands(con[c], queued) => Stands(r.k, queued)
  BY <1>4
<1>. HIDE DEF c
<1>6. /\ con' = [d \in Cons |-> con'[d]] /\ con'[c] = r.k /\ \A d \in Cons \ {c} : Moved(d)
  BY <1>2, <1>5 DEF Moved
<1>7. joblist' = joblist \o Appended(c, r.jobs)
  BY <1>5 DEF joblist_append
<1>8. Longer(joblist, joblist') /\ (r.jobs >= 1 => Queued(joblist', c))
  BY <1>2, <1>5, <1>7, AppendedQueued
<1>9. ASSUME ~drops, Served
      PROVE  ServedAt(c)'
  <2>1. running # c
    BY <1>1, <1>2, ConsAssumption
  <2>2. \/ ~con[c].open
        \/ Busy /\ Queued(joblist, c)
        \/ Rests(con[c], Queued(fdwaitqueue, c))
    BY <1>2, <1>9, <2>1 DEF Served, ServedAt
  <2>3. con[c].open
    <3>1. CASE e.fd = "client"
      BY <3>1 DEF IInv, EventsHaveHandlers, c
    <3>2. CASE e.fd = "backend"
      <4>1. BackendFds(con[c]) = 1
        BY <3>2 DEF IInv, EventsHaveHandlers, c
      <4>. QED  BY <1>2, <4>1 DEF BackendFds, Backend, Struct, Clean, Blank
    <3>. QED  BY <1>1, <3>1, <3>2 DEF IInv, Batch
  <2>4. CASE r.jobs >= 1
    BY <1>3, <1>8, <2>4 DEF ServedAt
  <2>5. CASE Busy /\ Queued(joblist, c)
    BY <1>2, <1>3, <1>8, <2>5 DEF Longer, ServedAt
  <2>6. CASE ~(r.jobs >= 1) /\ Rests(con[c], Queued(fdwaitqueue, c))
    <3>1. /\ r.k.events = con[c].events /\ Waits(r.k) = Waits(con[c])
          /\ \A queued \in BOOLEAN : Stands(con[c], queued) => Stands(r.k, queued)
      BY <1>5, <1>9, <2>6
    <3>2. Queued(fdwaitqueue, c) \in BOOLEAN
      BY DEF Queued
    <3>3. Rests(r.k, Queued(fdwaitqueue, c))
      BY <2>6, <3>1, <3>2 DEF Rests
    <3>. QED  BY <1>1, <1>6, <3>3 DEF ServedAt
  <2>. QED  BY <2>2, <2>3, <2>4, <2>5, <2>6
<1>10. Whole' /\ (Served /\ ServedAt(c)' => Served')
  BY <1>1, <1>2, <1>3, <1>5, <1>6, <1>8, ServedByStep
<1>. QED  BY <1>9, <1>10

\* A connection that is accepted runs; a struct that is given out is new.
LEMMA AcceptServes ==
  ASSUME IInv, IInv', Whole, connection_accept
  PROVE  Whole' /\ (Served => Served')
<1>0. used < max_conns
  BY DEF connection_accept
<1>2. used \in 0 .. Cardinality(Cons) - 1 /\ Array'
  BY <1>0, Capacity DEF IInv, Structs, Array, Places
<1>7. PICK c \in Cons : c = ptr[used]
  BY <1>2 DEF IInv, Structs, Array, Places
<1>. DEFINE k == [NewConnection(con[c]) EXCEPT !.open = TRUE, !.state = "req_start"]
<1>1. /\ running = None /\ running' = c /\ pc' = pc /\ con' = [con EXCEPT ![c] = k] /\ UNCHANGED queueVars
  BY <1>7 DEF connection_accept, At
<1>3. con[c] \in Connection
  BY <1>2 DEF Whole, Fine
<1>4. Fine(k)
  <2>1. used \in -1 .. Cardinality(Cons) - 1 /\ 0 \in Nat
    BY <1>2, Capacity
  <2>2. connection_reset(con[c]) \in Connection /\ connection_reset(con[c]).mode = "direct"
    BY <1>3, <2>1 DEF Connection, connection_reset
  <2>3. k \in Connection /\ k.state = "req_start" /\ k.mode = "direct"
    <3>. DEFINE m == connection_reset(con[c])
    <3>1. k = [[m EXCEPT !.ndx = used] EXCEPT !.open = TRUE, !.state = "req_start"]
      BY DEF NewConnection
    <3>2. m \in Connection /\ m.mode = "direct"
      BY <2>2
    <3>. HIDE DEF m
    <3>. QED  BY <2>1, <3>1, <3>2 DEF Connection
  <2>. HIDE DEF k
  <2>. QED  BY <2>3 DEF Fine, Sound, Stranded
<1>. HIDE DEF k
<1>5. /\ con' = [d \in Cons |-> con'[d]] /\ con'[c] = k /\ \A d \in Cons \ {c} : Moved(d)
  BY <1>1, <1>2 DEF Moved, Whole
<1>6. ServedAt(c)'
  BY <1>1, <1>2, <1>5 DEF ServedAt
<1>. QED  BY <1>1, <1>2, <1>4, <1>5, <1>6, SameQueues, ServedByStep

\* A connection that the loop over the times changes runs.
LEMMA TimeoutServes ==
  ASSUME IInv, IInv', Whole, Timeout
  PROVE  Whole' /\ (Served => Served')
<1>1. running = None /\ pc = "timeouts" /\ pc' = pc /\ counter < used /\ UNCHANGED queueVars
  BY DEF Timeout, At
<1>2. counter \in 0 .. Cardinality(Cons) - 1 /\ Array'
  BY <1>1, Capacity DEF IInv, Control, Structs, Array, Places
<1>3. PICK c \in Cons : c = ptr[counter]
  BY <1>2 DEF IInv, Structs, Array, Places
<1>4. PICK k \in Unlimited(Timely(con[c])) :
         con' = [con EXCEPT ![c] = k] /\ running' = IF k # con[c] THEN c ELSE None
  BY <1>3 DEF Timeout
<1>5. Fine(con[c])
  BY <1>3 DEF Whole
<1>6. Fine(k)
  <2>. DEFINE m == Timely(con[c])
  <2>1. Fine(m)
    BY <1>5, ErrorFine DEF Timely, Fine
  <2>. HIDE DEF m
  <2>2. LET l == [m EXCEPT !.limited = FALSE] IN Fine(l)
    <3>. DEFINE l == [m EXCEPT !.limited = FALSE]
    <3>1. /\ l \in Connection /\ l.state = m.state /\ l.open = m.open /\ l.body = m.body /\ l.mode = m.mode
          /\ l.hctx = m.hctx /\ l.finished = m.finished /\ l.out = m.out
      BY <2>1 DEF Fine, Connection
    <3>. HIDE DEF l
    <3>2. Fine(l)
      BY <2>1, <3>1 DEF Fine, Sound, Stranded
    <3>. QED  BY <3>2 DEF l
  <2>3. k = m \/ k = [m EXCEPT !.limited = FALSE]
    BY <1>4 DEF Unlimited, m
  <2>. QED  BY <2>1, <2>2, <2>3
<1>7. /\ con' = [d \in Cons |-> con'[d]] /\ con'[c] = k /\ \A d \in Cons \ {c} : Moved(d)
  BY <1>3, <1>4 DEF Moved, Whole
<1>8. Served => ServedAt(c)'
  <2>. SUFFICES ASSUME Served PROVE ServedAt(c)'
    OBVIOUS
  <2>1. CASE k # con[c]
    BY <1>4, <2>1 DEF ServedAt
  <2>2. CASE k = con[c]
    <3>1. running # c /\ ~Busy
      BY <1>1, <1>3, ConsAssumption DEF Busy
    <3>2. ServedAt(c)
      BY <1>3 DEF Served
    <3>. QED  BY <1>1, <1>7, <2>2, <3>1, <3>2 DEF ServedAt, queueVars
  <2>. QED  BY <2>1, <2>2
<1>. QED  BY <1>1, <1>2, <1>3, <1>6, <1>7, <1>8, SameQueues, ServedByStep

\* A second changes nothing but ages.
LEMMA SecondServes ==
  ASSUME Whole, Second
  PROVE  Whole' /\ (Served => Served')
<1>1. /\ pc = "top" /\ con' = [c \in Cons |-> Aged(con[c])] /\ UNCHANGED <<joblist, fdwaitqueue, running>>
  BY DEF Second, Step, At, queueVars
<1>2. ASSUME NEW k, Fine(k)
      PROVE  /\ Fine(Aged(k)) /\ Aged(k).open = k.open
             /\ \A queued \in BOOLEAN : Rests(k, queued) => Rests(Aged(k), queued)
  <2>0. k \in Connection /\ k.age \in Nat
    BY <1>2 DEF Fine, Connection
  <2>1. Aged(k) = k \/ \E age \in Nat : Aged(k) = [k EXCEPT !.age = age]
    <3>1. ASSUME NEW limit \in Nat PROVE Older(k.age, limit) \in Nat
      BY <2>0 DEF Older
    <3>2. IdleLimit(k) \in Nat /\ max_write_idle \in Nat
      BY LimitAssumption DEF IdleLimit
    <3>3. \/ Aged(k) = k \/ Aged(k) = [k EXCEPT !.age = Older(k.age, IdleLimit(k))]
          \/ Aged(k) = [k EXCEPT !.age = Older(k.age, max_write_idle)]
      BY DEF Aged
    <3>. QED  BY <3>1, <3>2, <3>3
  <2>2. CASE \E age \in Nat : Aged(k) = [k EXCEPT !.age = age]
    <3>1. PICK age \in Nat : Aged(k) = [k EXCEPT !.age = age]
      BY <2>2
    <3>. DEFINE m == Aged(k)
    <3>2. /\ m \in Connection /\ m.state = k.state /\ m.mode = k.mode /\ m.open = k.open /\ m.body = k.body
          /\ m.hctx = k.hctx /\ m.finished = k.finished /\ m.out = k.out /\ m.writable = k.writable
          /\ m.limited = k.limited /\ m.rq = k.rq /\ m.events = k.events
      BY <2>0, <3>1 DEF Connection
    <3>. HIDE DEF m
    <3>3. Fine(m) /\ Waits(m) = Waits(k) /\ BackendFds(m) = BackendFds(k)
      BY <1>2, <3>2 DEF Fine, Sound, Stranded, Waits, BackendFds
    <3>4. \A queued \in BOOLEAN : Rests(k, queued) => Rests(m, queued)
      BY <3>2, <3>3 DEF Rests, Stands, Reads, Writes, Stranded
    <3>. QED  BY <3>2, <3>3, <3>4 DEF m
  <2>. QED  BY <1>2, <2>1, <2>2
<1>3. ASSUME NEW c \in Cons
      PROVE  /\ Fine(con'[c]) /\ con'[c].open = con[c].open
             /\ \A queued \in BOOLEAN : Rests(con[c], queued) => Rests(con'[c], queued)
  <2>1. Fine(con[c]) /\ con'[c] = Aged(con[c])
    BY <1>1 DEF Whole
  <2>. QED  BY <1>2, <2>1
<1>4. Whole'
  BY <1>1, <1>3 DEF Whole
<1>5. ASSUME NEW c \in Cons, ServedAt(c) PROVE ServedAt(c)'
  <2>1. Queued(fdwaitqueue, c) \in BOOLEAN /\ ~Busy
    BY <1>1 DEF Queued, Busy
  <2>. QED  BY <1>1, <1>3, <1>5, <2>1 DEF ServedAt
<1>. QED  BY <1>4, <1>5 DEF Served

\* A connection that is taken from a queue runs; the others stay in it.
LEMMA QueueServes ==
  ASSUME IInv, Whole, FdWait \/ FdWaited \/ Job
  PROVE  Whole' /\ (Served => Served')
<1>1. UNCHANGED con /\ running = None /\ joblist \in Seq(Cons) /\ fdwaitqueue \in Seq(Cons)
  BY DEF FdWait, FdWaited, Job, Step, At, IInv, Structs, Queues
<1>2. Whole'
  BY <1>1 DEF Whole
<1>3. ASSUME NEW c \in Cons, ServedAt(c) PROVE ServedAt(c)'
  <2>0. running # c
    BY <1>1, ConsAssumption
  <2>1. CASE FdWait
    <3>1. /\ pc = "fdwait" /\ running' = Head(fdwaitqueue) /\ fdwaitqueue' = Tail(fdwaitqueue) /\ fdwaitqueue # <<>>
      BY <2>1 DEF FdWait, Step, At
    <3>2. ~con[c].open \/ Rests(con[c], Queued(fdwaitqueue, c))
      BY <1>3, <2>0, <3>1 DEF ServedAt, Busy
    <3>3. CASE c = Head(fdwaitqueue)
      BY <3>1, <3>3 DEF ServedAt
    <3>4. CASE c # Head(fdwaitqueue) /\ Rests(con[c], Queued(fdwaitqueue, c))
      <4>1. Queued(fdwaitqueue, c) => Queued(fdwaitqueue', c)
        BY <1>1, <3>1, <3>4, TailQueued
      <4>2. Queued(fdwaitqueue, c) \in BOOLEAN /\ Queued(fdwaitqueue', c) \in BOOLEAN
        BY DEF Queued
      <4>3. Rests(con[c], Queued(fdwaitqueue', c))
        BY <3>4, <4>1, <4>2, RestsStill
      <4>. QED  BY <1>1, <4>3 DEF ServedAt
    <3>5. CASE ~con[c].open
      BY <1>1, <3>5 DEF ServedAt
    <3>. QED  BY <3>2, <3>3, <3>4, <3>5
  <2>2. CASE FdWaited
    <3>1. pc = "waited" /\ UNCHANGED <<con, fdwaitqueue>>
      BY <1>1, <2>2 DEF FdWaited, Step, At
    <3>. QED  BY <1>3, <2>0, <3>1 DEF ServedAt, Busy
  <2>3. CASE Job
    <3>1. /\ pc' = pc /\ running' = Head(joblist) /\ joblist' = Tail(joblist) /\ joblist # <<>>
          /\ UNCHANGED <<con, fdwaitqueue>>
      BY <2>3 DEF Job, At, loopVars
    <3>2. CASE c = Head(joblist)
      BY <3>1, <3>2 DEF ServedAt
    <3>3. CASE c # Head(joblist)
      <4>1. Queued(joblist, c) => Queued(joblist', c)
        BY <1>1, <3>1, <3>3, TailQueued
      <4>. QED  BY <1>3, <2>0, <3>1, <4>1 DEF ServedAt, Busy
    <3>. QED  BY <3>2, <3>3
  <2>. QED  BY <2>1, <2>2, <2>3
<1>. QED  BY <1>2, <1>3 DEF Served

\* The loop does not go back to the top before the joblist is worked off.
LEMMA LoopServes ==
  ASSUME Whole, UNCHANGED machineVars, Busy => Busy' \/ joblist = <<>>
  PROVE  Whole' /\ (Served => Served')
<1>1. UNCHANGED <<con, running, joblist, fdwaitqueue>>
  BY DEF machineVars, baseVars, queueVars
<1>2. Whole'
  BY <1>1 DEF Whole
<1>3. ASSUME NEW c \in Cons, ServedAt(c) PROVE ServedAt(c)'
  <2>1. joblist = <<>> => ~Queued(joblist, c)
    BY DEF Queued
  <2>. QED  BY <1>1, <1>3, <2>1 DEF ServedAt
<1>. QED  BY <1>2, <1>3 DEF Served

\* Nor does any step of the loop, unless backends drop connections.
LEMMA NextServes == IInv /\ IInv' /\ Whole /\ [Next]_vars => Whole' /\ (~drops /\ Served => Served')
<1>. SUFFICES ASSUME IInv, IInv', Whole, [Next]_vars PROVE Whole' /\ (~drops /\ Served => Served')
  OBVIOUS
<1>1. CASE UNCHANGED vars
  <2>1. UNCHANGED machineVars /\ (Busy => Busy')
    BY <1>1 DEF vars, loopVars, Busy
  <2>. QED  BY <2>1, LoopServes
<1>2. CASE \/ SameSecond \/ TimeoutsDone \/ Sockets \/ Graceful \/ FdWaitDone \/ ServerEvent
           \/ AcceptDone \/ EventsDone \/ JobsDone \/ LoopEnds \/ Sigint \/ Poll
  <2>1. UNCHANGED machineVars
    BY <1>2 DEF SameSecond, TimeoutsDone, Sockets, Graceful, FdWaitDone, ServerEvent, AcceptDone,
                EventsDone, JobsDone, LoopEnds, Sigint, Poll
  <2>2. Busy => Busy' \/ joblist = <<>>
    BY <1>2 DEF SameSecond, TimeoutsDone, Sockets, Graceful, FdWaitDone, ServerEvent, AcceptDone,
                EventsDone, JobsDone, LoopEnds, Sigint, Poll, Step, At, Busy
  <2>. QED  BY <2>1, <2>2, LoopServes
<1>3. CASE \E e \in batch : HandleEvent(e)
  BY <1>3, EventServes
<1>4. CASE Machine
  BY <1>4, MachineServes
<1>5. CASE FdWait \/ FdWaited \/ Job
  BY <1>5, QueueServes
<1>6. CASE Second \/ Timeout \/ connection_accept
  BY <1>6, SecondServes, TimeoutServes, AcceptServes
<1>. QED  BY <1>1, <1>2, <1>3, <1>4, <1>5, <1>6 DEF Next, MainStep, Over

-----------------------------------------------------------------------------
(* The variables of the loop.                                              *)
LoopPlaces == {"top", "timeouts", "sockets", "graceful", "fdwait", "waited", "poll", "events",
                   "accept", "joblist", "ended"}
Flags ==
  /\ pc \in LoopPlaces /\ listening \in {"on", "off", "closed"}
  /\ sockets_disabled \in BOOLEAN /\ graceful_shutdown \in BOOLEAN /\ srv_shutdown \in BOOLEAN
  /\ \A e \in batch : e.con \in Cons \cup {None}

\* At the start no connection is open, and the loop is at its top.
LEMMA InitKinds == Init => Whole /\ Flags /\ Served
<1>. SUFFICES ASSUME Init PROVE Whole /\ Flags /\ Served
  OBVIOUS
<1>1. con = [c \in Cons |-> Fresh] /\ batch = {}
  BY DEF Init, BaseInit
<1>2. Fine(Fresh) /\ ~Fresh.open
  <2>1. 0 \in 0 .. Reconnects /\ -1 \in -1 .. Cardinality(Cons) - 1 /\ 0 \in Nat
    BY LimitAssumption, Capacity
  <2>2. <<>> \in Seq({"part", "end"})
    OBVIOUS
  <2>3. Fresh \in Connection
    BY <2>1, <2>2 DEF Fresh, Connection
  <2>4. Fresh.state = "connect" /\ Fresh.open = FALSE
    BY DEF Fresh
  <2>. QED  BY <2>3, <2>4 DEF Fine, Sound, Stranded
<1>3. Whole
  BY <1>1, <1>2 DEF Whole
<1>4. Flags
  BY <1>1 DEF Init, Flags, LoopPlaces
<1>5. Served
  BY <1>1, <1>2 DEF Served, ServedAt
<1>. QED  BY <1>3, <1>4, <1>5

\* The loop only goes from one of its places to another.
LEMMA FlagsKept == Flags /\ IInv /\ [Next]_vars => Flags'
<1>. SUFFICES ASSUME Flags, IInv, [Next]_vars PROVE Flags'
  OBVIOUS
<1>1. CASE UNCHANGED vars
  BY <1>1 DEF Flags, vars, loopVars, flagVars
<1>2. CASE Second \/ SameSecond \/ Timeout \/ TimeoutsDone
  BY <1>2 DEF Flags, LoopPlaces, Second, SameSecond, Timeout, TimeoutsDone, Step, At, flagVars
<1>3. CASE Sockets
  BY <1>3 DEF Flags, LoopPlaces, Sockets, Step, At
<1>4. CASE Graceful
  <2>1. srv_shutdown' \in BOOLEAN
    BY <1>4 DEF Graceful
  <2>2. /\ pc' = "fdwait" /\ UNCHANGED <<batch, listening, sockets_disabled, graceful_shutdown>>
    BY <1>4 DEF Graceful, Step
  <2>. QED  BY <2>1, <2>2 DEF Flags, LoopPlaces
<1>5. CASE FdWait \/ FdWaited \/ FdWaitDone
  BY <1>5 DEF Flags, LoopPlaces, FdWait, FdWaited, FdWaitDone, Step, At, flagVars
<1>6. CASE Poll
  <2>1. ASSUME NEW e \in batch' PROVE e.con \in Cons \cup {None}
    <3>1. e \in Ready
      BY <1>6 DEF Poll, Reportable
    <3>. QED  BY <3>1 DEF Ready, Event
  <2>2. pc' = "events" /\ UNCHANGED flagVars
    BY <1>6 DEF Poll, Step
  <2>. QED  BY <2>1, <2>2 DEF Flags, LoopPlaces, flagVars
<1>7. CASE \E e \in batch : HandleEvent(e)
  BY <1>7 DEF Flags, LoopPlaces, HandleEvent, flagVars
<1>8. CASE ServerEvent \/ connection_accept \/ AcceptDone \/ EventsDone
  BY <1>8 DEF Flags, LoopPlaces, ServerEvent, connection_accept, AcceptDone, EventsDone, Step, At, flagVars
<1>9. CASE Job \/ JobsDone \/ Machine
  BY <1>9 DEF Flags, LoopPlaces, Job, JobsDone, Machine, Step, At, loopVars, flagVars
<1>10. CASE LoopEnds \/ Sigint
  BY <1>10 DEF Flags, LoopPlaces, LoopEnds, Sigint, Step, At
<1>. QED  BY <1>1, <1>2, <1>3, <1>4, <1>5, <1>6, <1>7, <1>8, <1>9, <1>10 DEF Next, MainStep, Over

(* Every variable keeps its type, whatever the number of connections, of   *)
(* descriptors and of requests.                                            *)
THEOREM TypeCorrect == Spec => []TypeOK
<1>1. Init => Whole /\ Flags
  BY InitKinds
<1>2. IInv /\ IInv' /\ (Whole /\ Flags) /\ [Next]_vars => (Whole /\ Flags)'
  BY NextServes, FlagsKept
<1>3. IInv /\ Whole /\ Flags => TypeOK
  <2>. SUFFICES ASSUME IInv, Whole, Flags PROVE TypeOK
    OBVIOUS
  <2>1. con \in [Cons -> Connection]
    BY DEF Whole, Fine
  <2>2. /\ ptr \in [0 .. Cardinality(Cons) - 1 -> Cons] /\ used \in 0 .. max_conns
        /\ {joblist, fdwaitqueue} \subseteq Seq(Cons) /\ running \in Cons \cup {None}
        /\ counter \in Int
    BY DEF IInv, Structs, Array, Places, Queues, Control
  <2>3. cur_fds \in 0 .. max_fds
    <3>1. cur_fds = 1 + Cardinality(Open) + Cardinality(WithBackend) /\ cur_fds <= max_fds /\ cur_fds \in Int
      BY DEF IInv, FdAccounting, Structs, Queues, Open, WithBackend
    <3>2. IsFiniteSet(Open) /\ IsFiniteSet(WithBackend)
      BY ConsAssumption, FS_Subset DEF Open, WithBackend
    <3>3. Cardinality(Open) \in Nat /\ Cardinality(WithBackend) \in Nat
      BY <3>2, FS_CardinalityType
    <3>4. max_fds \in Nat
      BY LimitAssumption
    <3>. QED  BY <3>1, <3>3, <3>4
  <2>4. want_fds \in Nat
    <3>1. want_fds = Len(fdwaitqueue) + IF pc = "waited" THEN 1 ELSE 0
      BY DEF IInv, FdAccounting
    <3>2. Len(fdwaitqueue) \in Nat
      BY <2>2
    <3>. QED  BY <3>1, <3>2
  <2>5. /\ \A e \in batch : e.fd \in {"client", "backend", "server"} /\ e.con \in Cons \cup {None}
        /\ {sockets_disabled, graceful_shutdown, srv_shutdown} \subseteq BOOLEAN
        /\ listening \in {"on", "off", "closed"}
        /\ pc \in {"top", "timeouts", "sockets", "graceful", "fdwait", "waited", "poll", "events",
                   "accept", "joblist", "ended"}
    BY DEF Flags, LoopPlaces, IInv, Batch
  <2>. QED  BY <2>1, <2>2, <2>3, <2>4, <2>5 DEF TypeOK
<1>. QED  BY <1>1, <1>2, <1>3, Invariance, PTL DEF Spec

(* No connection is forgotten, if no backend drops connections between     *)
(* accept() and the first byte: whenever the loop is about to wait, each   *)
(* of them has an event, an answer, a descriptor or a second to wait for,  *)
(* or has been approved by an authorizer when its answer had begun.        *)
THEOREM NobodyForgotten ==
  ASSUME ~drops
  PROVE  Spec => []NothingForgotten
<1>1. Init => Whole /\ Served
  BY InitKinds
<1>2. IInv /\ IInv' /\ (Whole /\ Served) /\ [Next]_vars => (Whole /\ Served)'
  BY NextServes
<1>3. IInv /\ Whole /\ Served => NothingForgotten
  <2>. SUFFICES ASSUME IInv, Served, At("poll"), NEW c \in Cons
                PROVE  LET k == con[c] IN
                       IF ~k.open THEN k.events = {} ELSE
                       /\ k.events = Waits(k)
                       /\ \/ k.state = "read" /\ Headers(k.rq) = {}
                          \/ k.state = "read_post" /\ k.rq = <<>> /\ k.body > 0
                          \/ k.state = "handle" /\ (BackendFds(k) = 1 \/ \E i \in DOMAIN fdwaitqueue : fdwaitqueue[i] = c)
                          \/ k.state = "write" /\ k.out /\ ~k.writable
                          \/ k.state = "write" /\ ~k.out /\ ~k.finished /\ k.hctx = "reading"
                          \/ Stranded(k)
    BY DEF NothingForgotten
  <2>1. ~con[c].open => con[c].events = {}
    BY DEF IInv, Structs, Array, Struct
  <2>2. running # c /\ ~Busy
    BY ConsAssumption DEF At, Busy
  <2>3. ~con[c].open \/ Rests(con[c], Queued(fdwaitqueue, c))
    BY <2>2 DEF Served, ServedAt
  <2>. QED  BY <2>1, <2>3 DEF Rests, Stands, Reads, Writes, Queued
<1>. QED  BY <1>1, <1>2, <1>3, Invariance, PTL DEF Spec
=============================================================================
