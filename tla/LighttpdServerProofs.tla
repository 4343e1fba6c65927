------------------------- MODULE LighttpdServerProofs -------------------------
(***************************************************************************)
(* Proofs about LighttpdServer for every number of connection structs and  *)
(* descriptors and every limit.                                            *)
(***************************************************************************)
EXTENDS LighttpdServer, FiniteSetTheorems, TLAPS

(* What the proofs look at in a struct, and what is the same in a struct   *)
(* that a step has made of another one.                                    *)
Fields == {"state", "ndx", "open", "events", "readable", "writable", "rq", "body", "out", "keep_alive",
           "count", "status", "handler", "mode", "hctx", "reconnects", "started", "finished"}
Asking == {"req_start", "read", "req_end", "read_post"}
AnswerStates == {"resp_start", "write", "resp_end"}
States == Asking \cup AnswerStates \cup {"connect", "handle", "error", "close"}
Has(k) ==
  /\ Fields \subseteq DOMAIN k
  /\ k.state \in States
  /\ k.hctx \in {"none", "nofd", "connecting", "writing", "reading"}
  /\ k.mode = "direct" => k.hctx = "none"
Same(k, m) == Has(m) /\ m.open = k.open /\ m.ndx = k.ndx
SameBackend(k, m) == Same(k, m) /\ m.hctx = k.hctx /\ m.started = k.started

(* A request whose answer may be sent needs its backend only to read on.   *)
Done(k) == k.hctx = "none" \/ (k.hctx = "reading" /\ k.started = TRUE)

(* What r, a plugin's result, has made of k, and of its descriptor.        *)
Part(k, r) ==
  /\ Same(k, r.k) /\ r.k.state = k.state /\ r.k.started = k.started
  /\ r.fds = BackendFds(r.k) - BackendFds(k) /\ r.jobs \in Nat
  /\ r.fds > 0 => cur_fds < max_fds
  /\ r.result = "FINISHED" => Done(r.k)

(* What the end of a request leaves of it, and what is left of a client.   *)
Blank(k) ==
  /\ k.hctx = "none" /\ k.mode = "direct" /\ k.out = FALSE /\ k.readable = TRUE /\ k.writable = TRUE
  /\ k.body = 0 /\ k.status = "none" /\ k.handler = FALSE /\ k.reconnects = 0
  /\ k.started = FALSE /\ k.finished = FALSE
Clean(k) == Blank(k) /\ k.keep_alive = FALSE

(* A struct that no client has is as CleanSlate wants it, but for what the *)
(* machine does last; one that is being closed nearly is. A request has a  *)
(* backend only when it has been read.                                     *)
Struct(k) ==
  /\ Has(k)
  /\ k.open \/ (k.open = FALSE /\ k.state = "connect" /\ k.events = {} /\ Clean(k))
  /\ k.state = "close" => Clean(k)
  /\ k.state \in Asking \cup {"connect"} => k.hctx = "none"
  /\ k.state \in AnswerStates => Done(k)

-----------------------------------------------------------------------------
(* The phases of RequestCycle, and how its steps change them.              *)
Failing(k) == IF BackendFds(k) = 1 /\ ~k.started THEN "hindered" ELSE "failed"
OpenPhase(k) ==
  CASE k.state \in Asking -> "receiving"
    [] k.state = "handle" -> "deciding"
    [] k.state \in AnswerStates -> "answering"
    [] k.state = "error" -> Failing(k)
    [] OTHER -> "failed"
Allowed(p, q) ==
  \/ p = q
  \/ p = "closed" /\ q = "receiving"
  \/ p = "receiving" /\ q \in {"deciding", "failed"}
  \/ p = "deciding" /\ q \in {"answering", "hindered", "failed"}
  \/ p = "answering" /\ q \in {"receiving", "closed", "failed"}
  \/ p = "hindered" /\ q \in {"deciding", "closed", "failed"}
  \/ p = "failed" /\ q = "closed"
Turn(c) == Allowed(Phase(con[c]), Phase(con'[c]))

LEMMA PhaseOf ==
  ASSUME NEW k
  PROVE  Phase(k) = IF k.open THEN OpenPhase(k) ELSE "closed"
BY DEF Phase, OpenPhase, Hindered, Failing, Asking, AnswerStates

LEMMA SamePhase ==
  ASSUME NEW k, NEW m, m.open = k.open, m.state = k.state, m.hctx = k.hctx, m.started = k.started
  PROVE  Phase(m) = Phase(k) /\ OpenPhase(m) = OpenPhase(k)
BY PhaseOf DEF OpenPhase, Failing, BackendFds

LEMMA PhaseOfState ==
  ASSUME NEW k
  PROVE  /\ k.state \in Asking => OpenPhase(k) = "receiving"
         /\ k.state = "handle" => OpenPhase(k) = "deciding"
         /\ k.state \in AnswerStates => OpenPhase(k) = "answering"
         /\ k.state = "error" => OpenPhase(k) = IF BackendFds(k) = 1 /\ ~k.started THEN "hindered" ELSE "failed"
         /\ k.state \in {"connect", "close"} => OpenPhase(k) = "failed"
BY DEF OpenPhase, Failing, Asking, AnswerStates

(* The steps in which the backend is left alone.                           *)
Moves(s, t) ==
  \/ s = t
  \/ t = "error"
  \/ s \in Asking /\ t \in Asking \cup {"handle"}
  \/ s \in AnswerStates /\ t \in AnswerStates

LEMMA MovesAllowed ==
  ASSUME NEW k, Struct(k), NEW m, SameBackend(k, m), Moves(k.state, m.state)
  PROVE  Allowed(OpenPhase(k), OpenPhase(m))
<1>1. CASE m.state = k.state
  BY <1>1 DEF OpenPhase, Failing, BackendFds, SameBackend, Allowed
<1>2. CASE m.state = "error" /\ k.state # "error"
  <2>1. CASE k.state = "handle"
    BY <1>2, <2>1, PhaseOfState DEF Allowed
  <2>2. CASE k.state # "handle"
    <3>1. k.hctx = "none" \/ k.started = TRUE
      BY <1>2, <2>2 DEF Struct, Has, States, Clean, Blank, Done
    <3>2. OpenPhase(m) = "failed"
      BY <1>2, <3>1, PhaseOfState DEF SameBackend, BackendFds, Backend
    <3>3. OpenPhase(k) \in {"receiving", "answering", "failed"}
      BY <1>2, <2>2, PhaseOfState DEF Struct, Has, States
    <3>. QED  BY <3>2, <3>3 DEF Allowed
  <2>. QED  BY <2>1, <2>2
<1>3. CASE k.state \in Asking /\ m.state \in Asking \cup {"handle"}
  BY <1>3, PhaseOfState DEF Allowed
<1>4. CASE k.state \in AnswerStates /\ m.state \in AnswerStates
  BY <1>4, PhaseOfState DEF Allowed
<1>. QED  BY <1>1, <1>2, <1>3, <1>4 DEF Moves

-----------------------------------------------------------------------------
(* What the functions of connections.c and mod_fastcgi.c leave alone.      *)
LEMMA ReceivedSame ==
  ASSUME NEW k, Has(k), NEW packets, NEW left
  PROVE  SameBackend(k, Received(k, packets, left)) /\ Received(k, packets, left).state = k.state
BY DEF Received, Has, Fields, States, Asking, AnswerStates, Same, SameBackend

LEMMA HandleReadSame ==
  ASSUME NEW k, Has(k), NEW ready, NEW r \in connection_handle_read(k, ready)
  PROVE  SameBackend(k, r.k) /\ r.k.state \in {k.state, "error"}
<1>1. ASSUME NEW packets, NEW left
      PROVE  SameBackend(k, Received(k, packets, left)) /\ Received(k, packets, left).state = k.state
  BY ReceivedSame
<1>2. SameBackend(k, [Received(k, <<>>, 0) EXCEPT !.state = "error"])
      /\ [Received(k, <<>>, 0) EXCEPT !.state = "error"].state = "error"
  <2>1. ASSUME NEW m, SameBackend(k, m)
        PROVE  SameBackend(k, [m EXCEPT !.state = "error"]) /\ [m EXCEPT !.state = "error"].state = "error"
    BY <2>1 DEF SameBackend, Same, Has, Fields, States, Asking, AnswerStates
  <2>. QED  BY <1>1, <2>1
<1>3. \/ r \in {Returned(Received(k, packets, left), 0) :
                  packets \in {<<"part">>, <<"end">>, <<"end", "end">>}, left \in 0 .. 1}
      \/ r \in {Returned([Received(k, <<>>, 0) EXCEPT !.state = "error"], -1),
                Returned(Received(k, <<>>, 0), -2)}
      \/ r = Returned(Received(k, <<>>, 0), 0)
  BY SMT DEF connection_handle_read
<1>4. ASSUME NEW m, NEW code PROVE Returned(m, code).k = m
  BY DEF Returned
<1>5. CASE r \in {Returned(Received(k, packets, left), 0) :
                  packets \in {<<"part">>, <<"end">>, <<"end", "end">>}, left \in 0 .. 1}
  <2>1. PICK packets, left : r = Returned(Received(k, packets, left), 0)
    BY <1>5
  <2>. QED  BY <1>1, <1>4, <2>1
<1>6. CASE r \in {Returned([Received(k, <<>>, 0) EXCEPT !.state = "error"], -1),
                  Returned(Received(k, <<>>, 0), -2), Returned(Received(k, <<>>, 0), 0)}
  <2>1. r.k \in {[Received(k, <<>>, 0) EXCEPT !.state = "error"], Received(k, <<>>, 0)}
    BY <1>4, <1>6
  <2>. QED  BY <1>1, <1>2, <2>1
<1>. QED  BY <1>3, <1>5, <1>6

LEMMA DeniedSame ==
  ASSUME NEW k, Has(k)
  PROVE  SameBackend(k, Denied(k)) /\ Denied(k).state = "handle"
BY DEF Denied, Has, Fields, States, Asking, AnswerStates, Same, SameBackend

LEMMA ParsedSame ==
  ASSUME NEW k, Has(k), NEW j \in Parsed(k)
  PROVE  SameBackend(k, j) /\ j.state \in {k.state, "req_end", "handle"}
<1>1. ASSUME NEW q PROVE SameBackend(k, [k EXCEPT !.rq = q, !.state = "req_end"])
                         /\ [k EXCEPT !.rq = q, !.state = "req_end"].state = "req_end"
  BY DEF SameBackend, Same, Has, Fields, States, Asking, AnswerStates
<1>2. ASSUME NEW q, NEW b
      PROVE  LET m == [k EXCEPT !.rq = q, !.body = b] IN
             /\ SameBackend(k, m) /\ m.state = k.state
             /\ SameBackend(k, [m EXCEPT !.state = "handle"]) /\ [m EXCEPT !.state = "handle"].state = "handle"
  BY DEF SameBackend, Same, Has, Fields, States, Asking, AnswerStates
<1>3. SameBackend(k, k)
  BY DEF SameBackend, Same
<1>4. CASE k.state = "read" /\ Headers(k.rq) # {}
  BY <1>1, <1>4 DEF Parsed
<1>5. CASE k.state = "read" /\ Headers(k.rq) = {} /\ Len(k.rq) > HeaderLimit
  BY <1>5, DeniedSame DEF Parsed
<1>6. CASE k.state = "read_post" /\ k.rq # <<>>
  <2>1. ~(k.state = "read" /\ Headers(k.rq) # {})
        /\ ~(k.state = "read" /\ Headers(k.rq) = {} /\ Len(k.rq) > HeaderLimit)
    BY <1>6
  <2>2. \/ j = Denied(k)
        \/ \E q, b : LET m == [k EXCEPT !.rq = q, !.body = b] IN j \in {m, [m EXCEPT !.state = "handle"]}
    BY <1>6, <2>1 DEF Parsed
  <2>3. CASE j = Denied(k)
    BY <2>3, DeniedSame
  <2>4. CASE \E q, b : LET m == [k EXCEPT !.rq = q, !.body = b] IN j \in {m, [m EXCEPT !.state = "handle"]}
    <3>1. PICK q, b : LET m == [k EXCEPT !.rq = q, !.body = b] IN j \in {m, [m EXCEPT !.state = "handle"]}
      BY <2>4
    <3>. DEFINE m == [k EXCEPT !.rq = q, !.body = b]
    <3>2. /\ SameBackend(k, m) /\ m.state = k.state
          /\ SameBackend(k, [m EXCEPT !.state = "handle"]) /\ [m EXCEPT !.state = "handle"].state = "handle"
      BY <1>2
    <3>3. j = m \/ j = [m EXCEPT !.state = "handle"]
      BY <3>1
    <3>. HIDE DEF m
    <3>. QED  BY <3>2, <3>3
  <2>. QED  BY <2>2, <2>3, <2>4
<1>7. CASE ~(k.state = "read" /\ Headers(k.rq) # {})
           /\ ~(k.state = "read" /\ Headers(k.rq) = {} /\ Len(k.rq) > HeaderLimit)
           /\ ~(k.state = "read_post" /\ k.rq # <<>>)
  BY <1>3, <1>7 DEF Parsed
<1>. QED  BY <1>4, <1>5, <1>6, <1>7

LEMMA ReadSame ==
  ASSUME NEW k, Has(k), NEW ready, NEW j \in connection_handle_read_state(k, ready)
  PROVE  SameBackend(k, j) /\ j.state \in {k.state, "error", "req_end", "handle"}
<1>1. PICK r, p : /\ r.k = k \/ r \in connection_handle_read(k, ready)
                  /\ p \in Parsed(r.k) /\ j \in {p, [p EXCEPT !.state = "error"]}
  <2>1. Returned(k, 0).k = k
    BY DEF Returned
  <2>. QED  BY <2>1 DEF connection_handle_read_state
<1>2. SameBackend(k, r.k) /\ r.k.state \in {k.state, "error"}
  BY <1>1, HandleReadSame DEF SameBackend, Same
<1>3. SameBackend(r.k, p) /\ p.state \in {r.k.state, "req_end", "handle"}
  BY <1>1, <1>2, ParsedSame DEF SameBackend, Same
<1>4. SameBackend(k, p) /\ p.state \in {k.state, "error", "req_end", "handle"}
  BY <1>2, <1>3 DEF SameBackend, Same
<1>5. SameBackend(k, [p EXCEPT !.state = "error"]) /\ [p EXCEPT !.state = "error"].state = "error"
  BY <1>4 DEF SameBackend, Same, Has, Fields, States, Asking, AnswerStates
<1>. QED  BY <1>1, <1>4, <1>5

LEMMA WriteSame ==
  ASSUME NEW k, Has(k), NEW r \in connection_handle_write(k)
  PROVE  SameBackend(k, r.k) /\ r.k.state \in {k.state, "error", "resp_end"} /\ r.jobs \in Nat
<1>1. SameBackend(k, AllSent(k)) /\ AllSent(k).state \in {k.state, "resp_end"}
  BY DEF AllSent, SameBackend, Same, Has, Fields, States, Asking, AnswerStates
<1>2. SameBackend(k, Blocked(k)) /\ Blocked(k).state = k.state
  BY DEF Blocked, SameBackend, Same, Has, Fields, States, Asking, AnswerStates
<1>3. SameBackend(k, [k EXCEPT !.state = "error"]) /\ [k EXCEPT !.state = "error"].state = "error"
  BY DEF SameBackend, Same, Has, Fields, States, Asking, AnswerStates
<1>4. ASSUME NEW m, SameBackend(k, m)
      PROVE  SameBackend(k, [m EXCEPT !.limited = TRUE]) /\ [m EXCEPT !.limited = TRUE].state = m.state
  BY <1>4 DEF SameBackend, Same, Has, Fields, States, Asking, AnswerStates
<1>5. ASSUME NEW s PROVE Limited(s).k = [s.k EXCEPT !.limited = TRUE]
  BY DEF Limited
<1>6. \/ r.k \in {AllSent(k), Blocked(k), [k EXCEPT !.state = "error"]}
      \/ \E m \in {AllSent(k), Blocked(k)} : r.k = [m EXCEPT !.limited = TRUE]
  BY <1>5 DEF connection_handle_write
<1>7. r.jobs \in Nat
  <2>1. ASSUME NEW s, s.jobs \in Nat PROVE Limited(s).jobs \in Nat
    BY <2>1 DEF Limited
  <2>. QED  BY <2>1 DEF connection_handle_write
<1>. QED  BY <1>1, <1>2, <1>3, <1>4, <1>6, <1>7

LEMMA Fds ==
  ASSUME NEW k
  PROVE  /\ k.hctx \in {"connecting", "writing", "reading"} => BackendFds(k) = 1
         /\ k.hctx \in {"none", "nofd"} => BackendFds(k) = 0
         /\ BackendFds(k) \in 0 .. 1
BY DEF BackendFds, Backend

LEMMA ResultParts ==
  ASSUME NEW k, NEW fds, NEW jobs, NEW result
  PROVE  /\ Result(k, fds, jobs, result).k = k /\ Result(k, fds, jobs, result).fds = fds
         /\ Result(k, fds, jobs, result).jobs = jobs /\ Result(k, fds, jobs, result).result = result
BY DEF Result

LEMMA CloseSame ==
  ASSUME NEW k, Has(k)
  PROVE  LET m == fcgi_connection_close(k) IN
         Same(k, m) /\ m.hctx = "none" /\ m.state = k.state /\ m.started = k.started
BY DEF fcgi_connection_close, Same, Has, Fields, States, Asking, AnswerStates

LEMMA GivesUpSame ==
  ASSUME NEW k, Has(k)
  PROVE  Same(k, GivesUp(k)) /\ GivesUp(k).hctx = "none" /\ GivesUp(k).state = k.state
         /\ GivesUp(k).started = k.started
BY CloseSame DEF GivesUp, fcgi_connection_close, Same, Has, Fields, States, Asking, AnswerStates

LEMMA ReconnectSame ==
  ASSUME NEW k, Has(k), k.hctx # "none"
  PROVE  LET m == fcgi_reconnect(k) IN Same(k, m) /\ m.hctx = "nofd" /\ m.state = k.state /\ m.started = k.started
BY DEF fcgi_reconnect, Same, Has, Fields, States, Asking, AnswerStates

LEMMA HctxSame ==
  ASSUME NEW k, Has(k), k.hctx # "none", NEW hctx \in {"connecting", "writing", "reading"}
  PROVE  LET m == [k EXCEPT !.hctx = hctx] IN Same(k, m) /\ m.hctx = hctx /\ m.state = k.state
         /\ m.started = k.started
BY DEF Same, Has, Fields, States, Asking, AnswerStates

LEMMA GivesUpPart ==
  ASSUME NEW k, Has(k), NEW jobs \in Nat, NEW result,
         NEW fds, fds = -BackendFds(k) \/ (fds = 0 /\ BackendFds(k) = 0)
  PROVE  Part(k, Result(GivesUp(k), fds, jobs, result))
<1>1. BackendFds(GivesUp(k)) = 0 /\ BackendFds(k) \in 0 .. 1
  BY GivesUpSame, Fds
<1>. QED  BY <1>1, GivesUpSame, ResultParts DEF Part, Done

LEMMA ReconnectPart ==
  ASSUME NEW k, Has(k), k.hctx # "none", NEW jobs \in Nat, NEW result, result # "FINISHED"
  PROVE  Part(k, Result(fcgi_reconnect(k), -BackendFds(k), jobs, result))
<1>1. BackendFds(fcgi_reconnect(k)) = 0 /\ BackendFds(k) \in 0 .. 1
  BY ReconnectSame, Fds
<1>. QED  BY <1>1, ReconnectSame, ResultParts DEF Part

LEMMA BackendFailsPart ==
  ASSUME NEW k, Has(k), k.hctx # "none"
  PROVE  Part(k, BackendFails(k))
BY GivesUpPart, ReconnectPart DEF BackendFails

LEMMA WaitingPart ==
  ASSUME NEW k, Has(k), k.hctx # "none", NEW hctx \in {"connecting", "writing", "reading"}, NEW fds \in Int,
         fds = 1 - BackendFds(k), fds = 0 \/ cur_fds < max_fds
  PROVE  Part(k, Waiting(k, hctx, fds))
<1>1. BackendFds([k EXCEPT !.hctx = hctx]) = 1
  BY HctxSame, Fds
<1>2. /\ Waiting(k, hctx, fds).k = [k EXCEPT !.hctx = hctx]
      /\ Waiting(k, hctx, fds).fds = fds /\ Waiting(k, hctx, fds).jobs = 0
      /\ Waiting(k, hctx, fds).result = "WAIT_FOR_EVENT"
  BY ResultParts DEF Waiting
<1>3. BackendFds(k) \in Int
  BY Fds
<1>4. Same(k, [k EXCEPT !.hctx = hctx]) /\ [k EXCEPT !.hctx = hctx].state = k.state
      /\ [k EXCEPT !.hctx = hctx].started = k.started
  BY HctxSame
<1>5. Waiting(k, hctx, fds).fds = BackendFds(Waiting(k, hctx, fds).k) - BackendFds(k)
  BY <1>1, <1>2, <1>3
<1>6. Waiting(k, hctx, fds).jobs \in Nat
  BY <1>2
<1>7. Waiting(k, hctx, fds).fds > 0 => cur_fds < max_fds
  BY <1>2
<1>. QED  BY <1>2, <1>4, <1>5, <1>6, <1>7 DEF Part

LEMMA ConnectedPart ==
  ASSUME NEW k, Has(k), k.hctx # "none", NEW fds \in Int, fds = 1 - BackendFds(k), fds = 0 \/ cur_fds < max_fds, NEW r \in Connected(k, fds)
  PROVE  Part(k, r)
<1>1. \/ \E hctx \in {"writing", "reading"} : r = Waiting(k, hctx, fds)
      \/ r = Result(GivesUp(k), -BackendFds(k), 1, "FINISHED")
      \/ r = Result(fcgi_reconnect(k), -BackendFds(k), 0, "WAIT_FOR_FD")
  BY DEF Connected, Dropped
<1>. QED  BY <1>1, WaitingPart, GivesUpPart, ReconnectPart

LEMMA StandsPart ==
  ASSUME NEW k, Has(k), NEW result, result = "FINISHED" => Done(k)
  PROVE  Part(k, Result(k, 0, 0, result))
<1>1. BackendFds(k) \in 0 .. 1
  BY Fds
<1>. QED  BY <1>1, ResultParts DEF Part, Same

LEMMA SubrequestPart ==
  ASSUME NEW k, Has(k), NEW r \in handle_subrequest(k)
  PROVE  Part(k, r)
<1>1. CASE k.hctx = "none"
  BY <1>1, StandsPart DEF handle_subrequest, Done
<1>2. CASE k.hctx = "nofd"
  <2>. DEFINE m == [k EXCEPT !.reconnects = 0]
  <2>1. BackendFds(k) = 0
    BY <1>2, Fds
  <2>2. Has(m) /\ m.hctx = "nofd" /\ m.state = k.state /\ m.started = k.started /\ Same(k, m)
    BY <1>2 DEF Has, Fields, States, Asking, AnswerStates, Same
  <2>3. BackendFds(m) = 0
    BY <2>2, Fds
  <2>4. \/ r = Result(GivesUp(k), 0, 0, "FINISHED") \/ r = BackendFails(k)
        \/ r = Waiting(k, "connecting", 1) /\ cur_fds < max_fds
        \/ r \in Connected(m, 1) /\ cur_fds < max_fds
        \/ r = Result(k, 0, 0, "WAIT_FOR_FD")
    BY <1>2 DEF handle_subrequest
  <2>5. CASE r = Result(GivesUp(k), 0, 0, "FINISHED")
    BY <2>1, <2>5, GivesUpPart
  <2>6. CASE r \in Connected(m, 1) /\ cur_fds < max_fds
    <3>1. Part(m, r)
      <4>1. 1 = 1 - BackendFds(m)
        BY <2>3
      <4>. HIDE DEF m
      <4>. QED  BY <2>2, <2>6, <4>1, ConnectedPart
    <3>. QED  BY <2>1, <2>2, <2>3, <3>1 DEF Part, Same
  <2>7. CASE r = Waiting(k, "connecting", 1) /\ cur_fds < max_fds
    <3>1. 1 = 1 - BackendFds(k)
      BY <2>1
    <3>. QED  BY <1>2, <2>7, <3>1, WaitingPart
  <2>. QED  BY <1>2, <2>4, <2>5, <2>6, <2>7, BackendFailsPart, StandsPart
<1>3. CASE k.hctx \in {"connecting", "writing"}
  <2>1. 0 = 1 - BackendFds(k)
    BY <1>3, Fds
  <2>2. r = BackendFails(k) \/ r \in Connected(k, 0)
    BY <1>3 DEF handle_subrequest
  <2>. QED  BY <1>3, <2>1, <2>2, BackendFailsPart, ConnectedPart
<1>4. CASE k.hctx = "reading"
  BY <1>4, StandsPart DEF handle_subrequest, Done
<1>. QED  BY <1>1, <1>2, <1>3, <1>4 DEF Has

LEMMA PreparePart ==
  ASSUME NEW k, Has(k), NEW r \in http_response_prepare(k)
  PROVE  Part(k, r)
<1>1. CASE k.mode = "direct" /\ k.status # "none"
  <2>. DEFINE m == [k EXCEPT !.out = k.out /\ k.finished]
  <2>1. Same(k, m) /\ m.state = k.state /\ m.hctx = k.hctx /\ m.started = k.started
    BY DEF Same, Has, Fields, States, Asking, AnswerStates
  <2>2. r = Result(m, 0, 0, "FINISHED")
    BY <1>1 DEF http_response_prepare
  <2>. HIDE DEF m
  <2>3. Part(m, r)
    BY <1>1, <2>1, <2>2, StandsPart DEF Same, Has, Done
  <2>. QED  BY <2>1, <2>3 DEF Part, Same, BackendFds
<1>2. CASE k.mode = "direct" /\ k.status = "none"
  <2>1. k.hctx = "none" /\ BackendFds(k) = 0
    BY <1>2, Fds DEF Has
  <2>. DEFINE l == [k EXCEPT !.keep_alive = k.keep_alive /\ k.count <= max_keep_alive_requests]
              file == [l EXCEPT !.status = "decided", !.finished = TRUE, !.out = TRUE]
              refused(status) == [l EXCEPT !.status = status]
              plugin == [l EXCEPT !.mode = "fastcgi", !.hctx = "nofd"]
  <2>2. Same(k, l) /\ l.state = k.state /\ l.hctx = "none" /\ l.mode = k.mode /\ l.started = k.started
    BY <2>1 DEF Same, Has, Fields, States, Asking, AnswerStates
  <2>3. Same(k, file) /\ file.state = k.state /\ file.hctx = "none" /\ file.started = k.started
    <3>. HIDE DEF l
    <3>. QED  BY <2>2 DEF Same, Has, Fields, States, Asking, AnswerStates
  <2>4. ASSUME NEW status
        PROVE  Same(k, refused(status)) /\ refused(status).state = k.state /\ refused(status).hctx = "none"
              /\ refused(status).started = k.started
    <3>. HIDE DEF l
    <3>. QED  BY <2>2 DEF Same, Has, Fields, States, Asking, AnswerStates
  <2>5. Same(k, plugin) /\ plugin.state = k.state /\ plugin.hctx = "nofd" /\ plugin.started = k.started
    <3>. HIDE DEF l
    <3>. QED  BY <2>2 DEF Same, Has, Fields, States, Asking, AnswerStates
  <2>6. \/ r = Result(file, 0, 0, "FINISHED")
        \/ \E status : r = Result(refused(status), 0, 0, "FINISHED")
        \/ r = Result(l, 0, 0, "ERROR")
        \/ r \in handle_subrequest(plugin)
    BY <1>2 DEF http_response_prepare
  <2>7. ASSUME NEW m, Same(k, m), m.state = k.state, m.hctx \in {"none", "nofd"}, m.started = k.started, Part(m, r)
        PROVE  Part(k, r)
    <3>1. BackendFds(m) = 0
      BY <2>7, Fds
    <3>. QED  BY <2>1, <2>7, <3>1 DEF Part, Same
  <2>. HIDE DEF l, file, refused, plugin
  <2>8. CASE r = Result(file, 0, 0, "FINISHED")
    BY <2>3, <2>7, <2>8, StandsPart DEF Same, Done
  <2>9. CASE \E status : r = Result(refused(status), 0, 0, "FINISHED")
    BY <2>4, <2>7, <2>9, StandsPart DEF Same, Done
  <2>10. CASE r = Result(l, 0, 0, "ERROR")
    BY <2>2, <2>7, <2>10, StandsPart DEF Same
  <2>11. CASE r \in handle_subrequest(plugin)
    BY <2>5, <2>7, <2>11, SubrequestPart DEF Same
  <2>. QED  BY <2>6, <2>8, <2>9, <2>10, <2>11
<1>3. CASE k.mode # "direct"
  BY <1>3, SubrequestPart DEF http_response_prepare
<1>. QED  BY <1>1, <1>2, <1>3

LEMMA AnswersPart ==
  ASSUME NEW k, Struct(k), k.hctx \in {"connecting", "writing", "reading"}, NEW r \in Answers(k)
  PROVE  /\ Same(k, r.k) /\ r.k.state \in {k.state, "error", "handle"}
         /\ r.fds = BackendFds(r.k) - BackendFds(k) /\ r.jobs \in Nat
         /\ k.state \in AnswerStates => r.k.state = "error" \/ (r.k.state = k.state /\ Done(r.k))
         /\ Allowed(OpenPhase(k), OpenPhase(r.k))
<1>. DEFINE gone == fcgi_connection_close(k)
            hup  == [gone EXCEPT !.state = "error"]
            died == [gone EXCEPT !.state = "handle", !.status = "decided", !.mode = "direct"]
            end(started) == [gone EXCEPT !.started = started, !.out = TRUE, !.finished = TRUE]
            auth == [gone EXCEPT !.started = TRUE, !.finished = TRUE, !.mode = "direct"]
            header == [k EXCEPT !.started = TRUE]
            data == [k EXCEPT !.started = TRUE, !.out = TRUE]
            Good(q) == /\ Same(k, q.k) /\ q.k.state \in {k.state, "error", "handle"}
                       /\ q.fds = BackendFds(q.k) - BackendFds(k) /\ q.jobs \in Nat
                       /\ k.state \in AnswerStates =>
                             q.k.state = "error" \/ (q.k.state = k.state /\ Done(q.k))
                       /\ Allowed(OpenPhase(k), OpenPhase(q.k))
<1>0. /\ Has(k) /\ k.state \in AnswerStates \cup {"handle", "error"}
      /\ k.state \in AnswerStates => k.started = TRUE
  BY DEF Struct, Has, States, Clean, Blank, Done
<1>1. BackendFds(k) = 1
  BY Fds
<1>2. Same(k, gone) /\ gone.hctx = "none" /\ gone.state = k.state
  BY <1>0, CloseSame
<1>3. ASSUME NEW m, Same(k, m), m.hctx = "none", NEW result,
             m.state \in {k.state, "error"} \/ (m.state = "handle" /\ ~k.started)
      PROVE  Good(Result(m, -1, 1, result))
  <2>1. BackendFds(m) = 0
    BY <1>3, Fds
  <2>2. Allowed(OpenPhase(k), OpenPhase(m))
    BY <1>0, <1>1, <1>3, <2>1, PhaseOfState DEF Allowed
  <2>. QED  BY <1>0, <1>1, <1>3, <2>1, <2>2, ResultParts DEF Done
<1>4. ASSUME NEW m, Same(k, m), m.hctx = k.hctx, m.state = k.state, m.started \in {k.started, TRUE},
             NEW jobs \in Nat, NEW result
      PROVE  Good(Result(m, 0, jobs, result))
  <2>1. BackendFds(m) = 1
    BY <1>1, <1>4 DEF BackendFds
  <2>2. k.state \in AnswerStates => Done(m)
    BY <1>4 DEF Done, Struct
  <2>3. Allowed(OpenPhase(k), OpenPhase(m))
    BY <1>0, <1>1, <1>4, <2>1, PhaseOfState DEF Allowed
  <2>. QED  BY <1>1, <1>4, <2>1, <2>2, <2>3, ResultParts
<1>5. Same(k, hup) /\ hup.state = "error" /\ hup.hctx = "none"
  <2>. HIDE DEF gone
  <2>. QED  BY <1>2 DEF Same, Has, Fields, States, Asking, AnswerStates
<1>6. Same(k, died) /\ died.state = "handle" /\ died.hctx = "none"
  <2>. HIDE DEF gone
  <2>. QED  BY <1>2 DEF Same, Has, Fields, States, Asking, AnswerStates
<1>7. ASSUME NEW started
      PROVE  Same(k, end(started)) /\ end(started).state = k.state /\ end(started).hctx = "none"
  <2>. HIDE DEF gone
  <2>. QED  BY <1>2 DEF Same, Has, Fields, States, Asking, AnswerStates
<1>12. Same(k, auth) /\ auth.state = k.state /\ auth.hctx = "none"
  <2>. HIDE DEF gone
  <2>. QED  BY <1>2 DEF Same, Has, Fields, States, Asking, AnswerStates
<1>8. /\ Same(k, k) /\ Same(k, header) /\ Same(k, data)
      /\ header.hctx = k.hctx /\ header.state = k.state /\ header.started = TRUE
      /\ data.hctx = k.hctx /\ data.state = k.state /\ data.started = TRUE
  BY <1>0 DEF Same, Has, Fields
<1>9. \/ r \in handle_subrequest(k) /\ k.hctx # "reading"
      \/ \E result : r = Result(hup, -1, 1, result) \/ (r = Result(died, -1, 1, result) /\ ~k.started)
      \/ \E started, result : r = Result(end(started), -1, 1, result)
      \/ r = Result(auth, -1, 1, "authorized")
      \/ r \in {Result(k, 0, 0, "part"), Result(header, 0, 0, "header"), Result(data, 0, 1, "data")}
  BY DEF Answers
<1>10. CASE r \in handle_subrequest(k) /\ k.hctx # "reading"
  <2>1. Part(k, r)
    BY <1>0, <1>10, SubrequestPart
  <2>2. k.state \in {"handle", "error"}
    BY <1>0, <1>10 DEF Struct, Done
  <2>3. OpenPhase(k) = OpenPhase(r.k) \/ (OpenPhase(k) = "hindered" /\ OpenPhase(r.k) = "failed")
    BY <1>1, <2>1, <2>2, PhaseOfState DEF Part
  <2>. QED  BY <2>1, <2>2, <2>3 DEF Part, Allowed, AnswerStates
<1>. HIDE DEF hup, died, end, auth, header, data, Good
<1>11. Good(r) \/ (r \in handle_subrequest(k) /\ k.hctx # "reading")
  BY <1>3, <1>4, <1>5, <1>6, <1>7, <1>8, <1>9, <1>12
<1>. QED  BY <1>10, <1>11 DEF Good

LEMMA NotedSame ==
  ASSUME NEW k, Has(k), NEW revent
  PROVE  LET m == Noted(k, revent) IN
         /\ SameBackend(k, m) /\ m.state \in {k.state, "error"}
         /\ Clean(k) => Clean(m)
BY DEF Noted, Clean, Blank, SameBackend, Same, Has, Fields, States, Asking, AnswerStates

(* The handler of a socket's events may find the connection in any state.  *)
LEMMA HandlingSame ==
  ASSUME NEW k, Has(k), NEW ready, NEW r \in Handling(k, ready)
  PROVE  /\ SameBackend(k, r.k) /\ (r.k.state = "close" => r.k = k) /\ r.jobs \in Nat
         /\ r.k.state \in AnswerStates => k.state \in AnswerStates
         /\ Moves(k.state, r.k.state) /\ (k.state = "error" => r.k = k)
<1>1. CASE k.state \in {"read", "read_post"}
  <2>1. PICK j \in connection_handle_read_state(k, ready) : r = [k |-> j, jobs |-> 1]
    BY <1>1 DEF Handling
  <2>2. r.k = j /\ r.jobs = 1
    BY <2>1
  <2>3. SameBackend(k, j) /\ j.state \in {k.state, "error", "req_end", "handle"}
    BY ReadSame
  <2>4. j.state \notin AnswerStates /\ Moves(k.state, j.state) /\ j.state # "close"
    BY <1>1, <2>3 DEF Moves, Asking, AnswerStates
  <2>. QED  BY <1>1, <2>2, <2>3, <2>4
<1>2. CASE k.state = "write" /\ k.out /\ k.writable
  <2>1. PICK w \in connection_handle_write(k) : r = [k |-> w.k, jobs |-> 1 + w.jobs]
    BY <1>2 DEF Handling
  <2>2. r.k = w.k /\ r.jobs = 1 + w.jobs
    BY <2>1
  <2>3. SameBackend(k, w.k) /\ w.k.state \in {"write", "error", "resp_end"} /\ w.jobs \in Nat
    BY <1>2, WriteSame
  <2>4. Moves(k.state, w.k.state) /\ k.state \in AnswerStates /\ w.k.state # "close"
    BY <1>2, <2>3 DEF Moves, Asking, AnswerStates
  <2>. QED  BY <1>2, <2>2, <2>3, <2>4
<1>3. CASE k.state \notin {"read", "read_post"} /\ ~(k.state = "write" /\ k.out /\ k.writable)
  <2>1. r.k = k /\ r.jobs = 1
    BY <1>3 DEF Handling
  <2>. QED  BY <2>1 DEF SameBackend, Same, Moves
<1>. QED  BY <1>1, <1>2, <1>3

-----------------------------------------------------------------------------
(* The array and its structs, and what a step on connection c leaves alone. *)
Places ==
  /\ ptr \in [0 .. Cardinality(Cons) - 1 -> Cons]
  /\ \A c \in Cons : \E i \in 0 .. Cardinality(Cons) - 1 : ptr[i] = c
  /\ used \in 0 .. max_conns
Array ==
  /\ DOMAIN con = Cons /\ \A c \in Cons : Struct(con[c])
  /\ Places /\ ConnsArray
Others(c) ==
  \A d \in Cons \ {c} : /\ con'[d].open = con[d].open /\ con'[d].hctx = con[d].hctx
                        /\ con'[d].rq = con[d].rq /\ con'[d].count = con[d].count
                        /\ con'[d].state = con[d].state /\ con'[d].started = con[d].started

LEMMA Capacity == Cardinality(Cons) \in Nat /\ max_conns \in Nat /\ max_conns <= Cardinality(Cons)
BY ConsAssumption, LimitAssumption, FS_CardinalityType

LEMMA ChangesOne ==
  ASSUME Array, NEW c \in Cons, NEW k, Struct(k), k.open = con[c].open, k.ndx = con[c].ndx,
         con' = [con EXCEPT ![c] = k], ptr' = ptr, used' = used
  PROVE  Array' /\ Others(c) /\ con'[c] = k
<1>1. DOMAIN con' = Cons /\ con'[c] = k /\ \A d \in Cons \ {c} : con'[d] = con[d]
  BY DEF Array
<1>2. \A d \in Cons : con'[d].open = con[d].open /\ con'[d].ndx = con[d].ndx /\ Struct(con'[d])
  BY <1>1 DEF Array
<1>3. ConnsArray'
  <2>1. ASSUME NEW i \in DOMAIN ptr
        PROVE  IF i < used THEN con'[ptr[i]].open /\ con'[ptr[i]].ndx = i
               ELSE ~con'[ptr[i]].open /\ con'[ptr[i]].ndx = -1
    <3>1. ptr[i] \in Cons
      BY DEF Array, Places
    <3>. QED  BY <1>2, <3>1 DEF Array, ConnsArray
  <2>. QED  BY <2>1 DEF Array, ConnsArray
<1>. QED  BY <1>1, <1>2, <1>3 DEF Array, Places, Others

LEMMA Closes ==
  ASSUME Array, NEW c \in Cons, con[c].open, NEW k, Has(k), Clean(k),
         con' = Deleted(c, k), connection_del(c), used' = used - 1
  PROVE  Array' /\ Others(c) /\ ~con'[c].open /\ con'[c].hctx = "none"
<1>. DEFINE N == Cardinality(Cons)  l == ptr[Last]  i == con[c].ndx
            K == [k EXCEPT !.ndx = -1, !.open = FALSE, !.events = {}, !.state = "connect"]
<1>1. N \in Nat /\ max_conns \in Nat /\ max_conns <= N
  BY Capacity
<1>2. DOMAIN ptr = 0 .. N - 1 /\ \A j \in 0 .. N - 1 : ptr[j] \in Cons
  BY DEF Array, Places
<1>3. i \in 0 .. used - 1 /\ ptr[i] = c /\ used \in 1 .. N /\ i \in 0 .. N - 1
  <2>1. PICK j \in 0 .. N - 1 : ptr[j] = c
    BY DEF Array, Places
  <2>2. used \in 0 .. max_conns
    BY DEF Array, Places
  <2>3. j < used /\ con[c].ndx = j
    BY <1>2, <2>1 DEF Array, ConnsArray
  <2>. QED  BY <1>1, <2>1, <2>2, <2>3
<1>4. Last \in 0 .. N - 1 /\ l \in Cons /\ con[l].open /\ con[l].ndx = Last
  <2>1. Last \in 0 .. N - 1 /\ Last < used
    BY <1>1, <1>3 DEF Last
  <2>. QED  BY <1>2, <2>1 DEF Array, ConnsArray
<1>5. Struct(K) /\ K.ndx = -1 /\ K.open = FALSE /\ K.hctx = "none"
  BY DEF Has, Fields, States, Asking, AnswerStates, Clean, Blank, Struct
<1>. HIDE DEF K
<1>6. /\ DOMAIN con' = Cons /\ con'[c] = K
      /\ \A d \in Cons \ {c} : con'[d] = IF d = l THEN [con[d] EXCEPT !.ndx = i] ELSE con[d]
  BY <1>4 DEF Deleted, Array, K
<1>7. ASSUME NEW d \in Cons \ {c}
      PROVE  /\ Struct(con'[d]) /\ con'[d].open = con[d].open /\ con'[d].hctx = con[d].hctx
             /\ con'[d].rq = con[d].rq /\ con'[d].count = con[d].count /\ con'[d].state = con[d].state
             /\ con'[d].started = con[d].started
             /\ con'[d].ndx = IF d = l THEN i ELSE con[d].ndx
  <2>1. Struct(con[d])
    BY DEF Array
  <2>2. LET m == [con[d] EXCEPT !.ndx = i] IN
        Struct(m) /\ m.open = con[d].open /\ m.hctx = con[d].hctx /\ m.rq = con[d].rq
        /\ m.count = con[d].count /\ m.state = con[d].state /\ m.started = con[d].started /\ m.ndx = i
    BY <2>1 DEF Struct, Has, Fields, States, Asking, AnswerStates, Clean, Blank, Done
  <2>. QED  BY <1>6, <2>1, <2>2
<1>8. /\ ptr' \in [0 .. N - 1 -> Cons]
      /\ \A j \in 0 .. N - 1 : ptr'[j] = IF j = Last THEN c ELSE IF j = i THEN l ELSE ptr[j]
  <2>1. ptr \in [0 .. N - 1 -> Cons]
    BY DEF Array, Places
  <2>. QED  BY <1>3, <1>4, <2>1 DEF connection_del
<1>9. Places'
  <2>1. ASSUME NEW d \in Cons PROVE \E j \in 0 .. N - 1 : ptr'[j] = d
    <3>1. PICK j \in 0 .. N - 1 : ptr[j] = d
      BY DEF Array, Places
    <3>. QED  BY <1>3, <1>4, <1>8, <3>1
  <2>2. used' \in 0 .. max_conns
    BY <1>1, <1>3 DEF Array, Places
  <2>. QED  BY <1>8, <2>1, <2>2 DEF Places
<1>10. ConnsArray'
  <2>1. \A a, b \in 0 .. N - 1 : ptr[a] = ptr[b] => a = b
    BY <1>2 DEF Array, ConnsArray
  <2>2. ASSUME NEW a \in 0 .. N - 1, NEW b \in 0 .. N - 1, ptr'[a] = ptr'[b] PROVE a = b
    BY <1>3, <1>4, <1>8, <2>1, <2>2
  <2>3. ASSUME NEW j \in 0 .. N - 1
        PROVE  IF j < used' THEN con'[ptr'[j]].open /\ con'[ptr'[j]].ndx = j
               ELSE ~con'[ptr'[j]].open /\ con'[ptr'[j]].ndx = -1
    <3>1. used' = Last /\ used \in Int /\ Last = used - 1
      BY <1>3 DEF Last
    <3>2. CASE j = Last
      BY <1>5, <1>6, <1>8, <3>1, <3>2
    <3>3. CASE j = i /\ i # Last
      <4>1. l # c
        BY <1>3, <1>4, <2>1, <3>3
      <4>. QED  BY <1>3, <1>4, <1>7, <1>8, <3>1, <3>3, <4>1
    <3>4. CASE j # i /\ j # Last
      <4>1. ptr'[j] = ptr[j] /\ ptr[j] # c /\ ptr[j] # l /\ ptr[j] \in Cons
        BY <1>2, <1>3, <1>4, <1>8, <2>1, <3>4
      <4>2. con'[ptr[j]].open = con[ptr[j]].open /\ con'[ptr[j]].ndx = con[ptr[j]].ndx
        BY <1>7, <4>1
      <4>3. IF j < used THEN con[ptr[j]].open /\ con[ptr[j]].ndx = j
            ELSE ~con[ptr[j]].open /\ con[ptr[j]].ndx = -1
        BY <1>2 DEF Array, ConnsArray
      <4>4. j < used' <=> j < used
        BY <3>1, <3>4
      <4>. QED  BY <4>1, <4>2, <4>3, <4>4
    <3>. QED  BY <3>2, <3>3, <3>4
  <2>. QED  BY <1>8, <2>2, <2>3 DEF ConnsArray
<1>. QED  BY <1>5, <1>6, <1>7, <1>9, <1>10 DEF Array, Others

-----------------------------------------------------------------------------
(* What each step of the machine of c does: the array is in order, the     *)
(* descriptors and the fdwaitqueue are counted, and if c has been closed   *)
(* the machine goes on, or has emptied what is left.                       *)
Held(k) == (IF k.open THEN 1 ELSE 0) + BackendFds(k)
Queues == joblist \in Seq(Cons) /\ fdwaitqueue \in Seq(Cons) /\ cur_fds \in Int /\ want_fds \in Int
Counted(c) ==
  /\ cur_fds' = cur_fds + (Held(con'[c]) - Held(con[c]))
  /\ cur_fds' <= cur_fds \/ cur_fds' <= max_fds
  /\ joblist' \in Seq(Cons) /\ fdwaitqueue' \in Seq(Cons)
  /\ want_fds' = want_fds + (Len(fdwaitqueue') - Len(fdwaitqueue))
Effect(c) ==
  /\ Array' /\ Others(c) /\ running' \in {c, None} /\ Counted(c) /\ Turn(c)
  /\ con'[c].open \/ running' = c \/ (con'[c].rq = <<>> /\ con'[c].count = 0)

LEMMA Appends ==
  ASSUME NEW q \in Seq(Cons), NEW c \in Cons, NEW n \in Nat
  PROVE  q \o Appended(c, n) \in Seq(Cons) /\ Len(q \o Appended(c, n)) = Len(q) + n
<1>1. Appended(c, n) \in Seq(Cons) /\ Len(Appended(c, n)) = n
  BY DEF Appended
<1>. QED  BY <1>1

LEMMA Stays ==
  ASSUME Queues, UNCHANGED queueVars
  PROVE  /\ joblist' \in Seq(Cons) /\ fdwaitqueue' \in Seq(Cons)
         /\ want_fds' = want_fds + (Len(fdwaitqueue') - Len(fdwaitqueue))
<1>1. Len(fdwaitqueue) \in Int
  BY DEF Queues
<1>. QED  BY <1>1 DEF Queues, queueVars

LEMMA LeavesOne ==
  ASSUME Array, NEW c \in Cons, running = c, con[c].state # "connect",
         NEW k, Same(con[c], k), k.state = "close" => Clean(k),
         k.state \in Asking \cup {"connect"} => k.hctx = "none", k.state \in AnswerStates => Done(k),
         Allowed(OpenPhase(con[c]), OpenPhase(k)),
         Leaves(c, k) \/ ComesBack(c, k), UNCHANGED arrayVars
  PROVE  /\ Array' /\ Others(c) /\ running' \in {c, None} /\ con'[c].open /\ Turn(c)
         /\ Held(con'[c]) - Held(con[c]) = BackendFds(k) - BackendFds(con[c])
<1>1. Struct(con[c]) /\ con[c].open
  BY DEF Array, Struct
<1>. DEFINE m == [k EXCEPT !.events = Waits(k)]
<1>2. Struct(k) /\ SameBackend(k, m) /\ Struct(m)
  BY <1>1 DEF SameBackend, Same, Has, Fields, States, Asking, AnswerStates, Struct, Clean, Blank, Done
<1>3. con' = [con EXCEPT ![c] = k] \/ con' = [con EXCEPT ![c] = m]
  BY DEF Leaves, ComesBack
<1>4. running' \in {c, None}
  BY DEF Leaves, ComesBack
<1>. HIDE DEF m
<1>5. Array' /\ Others(c) /\ con'[c] \in {k, m}
  <2>1. k.open = con[c].open /\ k.ndx = con[c].ndx /\ m.open = con[c].open /\ m.ndx = con[c].ndx
    BY <1>2 DEF SameBackend, Same
  <2>. QED  BY <1>2, <1>3, <2>1, ChangesOne DEF arrayVars
<1>6. con'[c].open /\ BackendFds(con'[c]) = BackendFds(k)
  BY <1>1, <1>2, <1>5 DEF SameBackend, Same, BackendFds
<1>7. BackendFds(k) \in Int /\ BackendFds(con[c]) \in Int
  BY Fds
<1>8. Turn(c)
  <2>1. OpenPhase(con'[c]) = OpenPhase(k)
    <3>1. m.state = k.state
      BY <1>2 DEF Struct, Has, Fields, States, Asking, AnswerStates, m
    <3>2. OpenPhase(m) = OpenPhase(k)
      BY <1>2, <3>1, SamePhase DEF SameBackend, Same
    <3>. QED  BY <1>5, <3>2
  <2>. QED  BY <1>1, <1>6, <2>1, PhaseOf DEF Turn
<1>. QED  BY <1>1, <1>4, <1>5, <1>6, <1>7, <1>8 DEF Held

(* A step of the machine that neither closes the connection nor calls a    *)
(* plugin.                                                                 *)
LEMMA LeavesQuietly ==
  ASSUME Array, Queues, NEW c \in Cons, running = c, con[c].state # "connect",
         NEW k, SameBackend(con[c], k), k.state # "close", Moves(con[c].state, k.state), Leaves(c, k), UNCHANGED <<arrayVars, cur_fds>>,
         \/ UNCHANGED queueVars
         \/ UNCHANGED <<fdwaitqueue, want_fds>> /\ \E n \in Nat : joblist_append(c, n)
  PROVE  Effect(c)
<1>0. /\ k.state \in Asking \cup {"connect"} => k.hctx = "none"
      /\ k.state \in AnswerStates => Done(k)
      /\ Allowed(OpenPhase(con[c]), OpenPhase(k))
  <2>1. Struct(con[c])
    BY DEF Array
  <2>2. k.hctx = con[c].hctx /\ k.started = con[c].started
    BY DEF SameBackend
  <2>3. k.state \in AnswerStates => con[c].state \in AnswerStates
    BY DEF Moves, Asking, AnswerStates
  <2>4. k.state \in Asking \cup {"connect"} => con[c].state \in Asking \cup {"connect"}
    BY DEF Moves, Asking, AnswerStates
  <2>. QED  BY <2>1, <2>2, <2>3, <2>4, MovesAllowed DEF Struct, Done
<1>1. /\ Array' /\ Others(c) /\ running' \in {c, None} /\ con'[c].open /\ Turn(c)
      /\ Held(con'[c]) - Held(con[c]) = BackendFds(k) - BackendFds(con[c])
  BY <1>0, LeavesOne DEF SameBackend
<1>2. BackendFds(k) = BackendFds(con[c]) /\ BackendFds(k) \in Int
  BY Fds DEF SameBackend, BackendFds
<1>3. cur_fds' = cur_fds + (Held(con'[c]) - Held(con[c]))
  BY <1>1, <1>2 DEF Queues
<1>4. /\ joblist' \in Seq(Cons) /\ fdwaitqueue' \in Seq(Cons)
      /\ want_fds' = want_fds + (Len(fdwaitqueue') - Len(fdwaitqueue))
  <2>1. CASE UNCHANGED queueVars
    BY <2>1, Stays
  <2>2. CASE UNCHANGED <<fdwaitqueue, want_fds>> /\ \E n \in Nat : joblist_append(c, n)
    <3>1. Len(fdwaitqueue) \in Int
      BY DEF Queues
    <3>2. joblist' \in Seq(Cons)
      BY <2>2, Appends DEF Queues, joblist_append
    <3>. QED  BY <2>2, <3>1, <3>2 DEF Queues
  <2>. QED  BY <2>1, <2>2
<1>5. cur_fds' <= cur_fds
  BY DEF Queues
<1>. QED  BY <1>1, <1>3, <1>4, <1>5 DEF Effect, Counted

(* The connection is closed: k is what is left of it.                      *)
LEMMA ClosesEffect ==
  ASSUME Array, Queues, NEW c \in Cons, running = c, con[c].state # "connect",
         con[c].state \in AnswerStates \cup {"error", "close"},
         NEW k, Has(k), Clean(k), connection_close(c, k, BackendFds(con[c]))
  PROVE  Effect(c)
<1>1. con[c].open
  BY DEF Array, Struct
<1>2. Array' /\ Others(c) /\ ~con'[c].open /\ con'[c].hctx = "none"
  BY <1>1, Closes DEF connection_close
<1>3. BackendFds(con'[c]) = 0 /\ BackendFds(con[c]) \in Int
  BY <1>2, Fds
<1>4. cur_fds' = cur_fds + (Held(con'[c]) - Held(con[c]))
  BY <1>1, <1>2, <1>3 DEF Held, Queues, connection_close
<1>5. cur_fds' <= cur_fds
  <2>1. BackendFds(con[c]) \in 0 .. 1 /\ cur_fds \in Int
    BY Fds DEF Queues
  <2>. QED  BY <2>1 DEF connection_close
<1>6. Turn(c)
  <2>1. OpenPhase(con[c]) \in {"answering", "hindered", "failed"}
    BY PhaseOfState
  <2>. QED  BY <1>1, <1>2, <2>1, PhaseOf DEF Turn, Allowed
<1>. QED  BY <1>2, <1>4, <1>5, <1>6, Stays DEF Effect, Counted, connection_close

LEMMA EndedClean ==
  ASSUME NEW k, Has(k)
  PROVE  LET m == Ended(k) IN
         Same(k, m) /\ Blank(m) /\ m.keep_alive = k.keep_alive
BY DEF Blank, Ended, connection_reset, fcgi_connection_close, Same, Has, Fields, States, Asking, AnswerStates

LEMMA RequestStartEffect ==
  ASSUME Array, Queues, NEW c \in Cons, RequestStart(c)
  PROVE  Effect(c)
<1>. DEFINE k == [con[c] EXCEPT !.state = "read", !.age = 0, !.count = con[c].count + 1]
<1>1. SameBackend(con[c], k) /\ k.state = "read"
  BY DEF Array, Struct, SameBackend, Same, Has, Fields, States, Asking, AnswerStates
<1>2. running = c /\ con[c].state = "req_start" /\ Leaves(c, k) /\ UNCHANGED <<arrayVars, queueVars, cur_fds>>
  BY DEF RequestStart, In
<1>. HIDE DEF k
<1>3. Moves(con[c].state, k.state)
  BY <1>1, <1>2 DEF Moves, Asking
<1>. QED  BY <1>1, <1>2, <1>3, LeavesQuietly

LEMMA RequestEndEffect ==
  ASSUME Array, Queues, NEW c \in Cons, RequestEnd(c)
  PROVE  Effect(c)
<1>1. running = c /\ con[c].state = "req_end" /\ UNCHANGED <<arrayVars, queueVars, cur_fds>> /\ Has(con[c])
  BY DEF RequestEnd, In, Array, Struct
<1>2. PICK k : /\ \/ k = Denied(con[c])
                  \/ \E state \in {"read_post", "handle"} : \E n, a :
                        k = [con[c] EXCEPT !.state = state, !.body = n, !.keep_alive = a]
               /\ Leaves(c, k)
  <2>1. CASE Leaves(c, Denied(con[c]))
    BY <2>1
  <2>2. ASSUME NEW n \in Bodies, NEW a \in BOOLEAN,
               Leaves(c, [con[c] EXCEPT !.state = IF n > 0 THEN "read_post" ELSE "handle", !.body = n, !.keep_alive = a])
        PROVE  \E state \in {"read_post", "handle"} :
                  Leaves(c, [con[c] EXCEPT !.state = state, !.body = n, !.keep_alive = a])
    BY <2>2
  <2>. QED  BY <2>1, <2>2 DEF RequestEnd
<1>3. ASSUME NEW state \in {"read_post", "handle"}, NEW n, NEW a
      PROVE  LET m == [con[c] EXCEPT !.state = state, !.body = n, !.keep_alive = a] IN
             SameBackend(con[c], m) /\ m.state = state
  BY <1>1 DEF SameBackend, Same, Has, Fields, States, Asking, AnswerStates
<1>4. SameBackend(con[c], k) /\ k.state \in {"read_post", "handle"}
  <2>1. CASE k = Denied(con[c])
    BY <1>1, <2>1, DeniedSame
  <2>2. CASE k # Denied(con[c])
    <3>1. PICK state \in {"read_post", "handle"} :
             \E n, a : k = [con[c] EXCEPT !.state = state, !.body = n, !.keep_alive = a]
      BY <1>2, <2>2
    <3>2. PICK n, a : k = [con[c] EXCEPT !.state = state, !.body = n, !.keep_alive = a]
      BY <3>1
    <3>. QED  BY <1>3, <3>2
  <2>. QED  BY <2>1, <2>2
<1>5. Moves(con[c].state, k.state)
  BY <1>1, <1>4 DEF Moves, Asking
<1>. QED  BY <1>1, <1>2, <1>4, <1>5, LeavesQuietly

LEMMA ReadEffect ==
  ASSUME Array, Queues, NEW c \in Cons, Read(c)
  PROVE  Effect(c)
<1>1. /\ running = c /\ con[c].state \in {"read", "read_post"} /\ Has(con[c])
      /\ UNCHANGED <<arrayVars, queueVars, cur_fds>>
  BY DEF Read, In, Array, Struct
<1>2. PICK k \in connection_handle_read_state(con[c], FALSE) : Leaves(c, k)
  BY DEF Read
<1>3. SameBackend(con[c], k) /\ k.state \in {con[c].state, "error", "req_end", "handle"}
  BY <1>1, ReadSame
<1>4. Moves(con[c].state, k.state) /\ k.state # "close"
  BY <1>1, <1>3 DEF Moves, Asking
<1>. QED  BY <1>1, <1>2, <1>3, <1>4, LeavesQuietly

LEMMA HandleRequestEffect ==
  ASSUME Array, Queues, NEW c \in Cons, HandleRequest(c)
  PROVE  Effect(c)
<1>1. running = c /\ con[c].state = "handle" /\ Has(con[c]) /\ UNCHANGED arrayVars
  BY DEF HandleRequest, In, Array, Struct
<1>2. PICK r \in http_response_prepare(con[c]) :
        /\ \/ \E status, handler : ComesBack(c, [r.k EXCEPT !.status = status, !.handler = handler])
           \/ r.result = "FINISHED" /\ \E status : Leaves(c, [r.k EXCEPT !.state = "resp_start", !.status = status])
           \/ Leaves(c, [r.k EXCEPT !.state = "error"])
           \/ Leaves(c, r.k)
        /\ joblist_append(c, r.jobs) /\ cur_fds' = cur_fds + r.fds
        /\ \E n \in 0 .. 1 : want_fds' = want_fds + n /\ fdwaitqueue' = fdwaitqueue \o Appended(c, n)
  <2>1. PICK r \in http_response_prepare(con[c]) :
          /\ CASE r.result = "FINISHED" /\ ToHandler(r.k) ->
                   ComesBack(c, [r.k EXCEPT !.status = "none", !.handler = TRUE])
              [] r.result = "FINISHED" /\ ~ToHandler(r.k) ->
                   Leaves(c, [r.k EXCEPT !.state = "resp_start", !.status = IF @ = "none" THEN "decided" ELSE @])
              [] r.result = "ERROR" -> Leaves(c, [r.k EXCEPT !.state = "error"])
              [] OTHER -> Leaves(c, r.k)
          /\ joblist_append(c, r.jobs) /\ cur_fds' = cur_fds + r.fds
          /\ want_fds' = want_fds + (IF r.result = "WAIT_FOR_FD" THEN 1 ELSE 0)
          /\ fdwaitqueue' = fdwaitqueue \o Appended(c, IF r.result = "WAIT_FOR_FD" THEN 1 ELSE 0)
    BY DEF HandleRequest
  <2>2. \/ \E status, handler : ComesBack(c, [r.k EXCEPT !.status = status, !.handler = handler])
        \/ r.result = "FINISHED" /\ \E status : Leaves(c, [r.k EXCEPT !.state = "resp_start", !.status = status])
        \/ Leaves(c, [r.k EXCEPT !.state = "error"])
        \/ Leaves(c, r.k)
    <3>1. CASE r.result = "FINISHED" /\ ToHandler(r.k)
      BY <2>1, <3>1
    <3>2. CASE r.result = "FINISHED" /\ ~ToHandler(r.k)
      <4>1. Leaves(c, [r.k EXCEPT !.state = "resp_start",
                                  !.status = IF r.k.status = "none" THEN "decided" ELSE r.k.status])
        BY <2>1, <3>2
      <4>. QED  BY <3>2, <4>1
    <3>3. CASE r.result = "ERROR"
      BY <2>1, <3>3
    <3>4. CASE r.result \notin {"FINISHED", "ERROR"}
      BY <2>1, <3>4
    <3>. QED  BY <3>1, <3>2, <3>3, <3>4
  <2>3. \E n \in 0 .. 1 : want_fds' = want_fds + n /\ fdwaitqueue' = fdwaitqueue \o Appended(c, n)
    <3>1. PICK n : /\ n = IF r.result = "WAIT_FOR_FD" THEN 1 ELSE 0
                   /\ want_fds' = want_fds + n /\ fdwaitqueue' = fdwaitqueue \o Appended(c, n)
      BY <2>1
    <3>2. n \in 0 .. 1
      BY <3>1
    <3>. QED  BY <3>1, <3>2
  <2>. QED  BY <2>1, <2>2, <2>3
<1>3. Part(con[c], r) /\ Has(r.k) /\ r.k.state = "handle" /\ Same(con[c], r.k)
  BY <1>1, PreparePart DEF Part, Same
<1>4. PICK k : /\ Leaves(c, k) \/ ComesBack(c, k)
               /\ SameBackend(r.k, k)
               /\ k.state \in {"handle", "error"} \/ (k.state = "resp_start" /\ r.result = "FINISHED")
  <2>1. CASE \E status, handler : ComesBack(c, [r.k EXCEPT !.status = status, !.handler = handler])
    <3>1. PICK status, handler : ComesBack(c, [r.k EXCEPT !.status = status, !.handler = handler])
      BY <2>1
    <3>. DEFINE m == [r.k EXCEPT !.status = status, !.handler = handler]
    <3>2. SameBackend(r.k, m) /\ m.state = "handle" /\ ComesBack(c, m)
      BY <1>3, <3>1 DEF SameBackend, Same, Has, Fields, States, Asking, AnswerStates
    <3>. HIDE DEF m
    <3>. QED  BY <3>2
  <2>2. CASE r.result = "FINISHED" /\ \E status : Leaves(c, [r.k EXCEPT !.state = "resp_start", !.status = status])
    <3>1. PICK status : Leaves(c, [r.k EXCEPT !.state = "resp_start", !.status = status])
      BY <2>2
    <3>. DEFINE m == [r.k EXCEPT !.state = "resp_start", !.status = status]
    <3>2. SameBackend(r.k, m) /\ m.state = "resp_start" /\ Leaves(c, m)
      BY <1>3, <3>1 DEF SameBackend, Same, Has, Fields, States, Asking, AnswerStates
    <3>. HIDE DEF m
    <3>. QED  BY <2>2, <3>2
  <2>3. CASE Leaves(c, [r.k EXCEPT !.state = "error"])
    <3>. DEFINE m == [r.k EXCEPT !.state = "error"]
    <3>1. SameBackend(r.k, m) /\ m.state = "error" /\ Leaves(c, m)
      BY <1>3, <2>3 DEF SameBackend, Same, Has, Fields, States, Asking, AnswerStates
    <3>. HIDE DEF m
    <3>. QED  BY <3>1
  <2>4. CASE Leaves(c, r.k)
    <3>1. SameBackend(r.k, r.k) /\ r.k.state = "handle"
      BY <1>3 DEF SameBackend, Same
    <3>. QED  BY <2>4, <3>1
  <2>. QED  BY <1>2, <2>1, <2>2, <2>3, <2>4
<1>5. Same(con[c], k) /\ BackendFds(k) = BackendFds(r.k)
  BY <1>3, <1>4 DEF SameBackend, Same, BackendFds
<1>6. /\ Array' /\ Others(c) /\ running' \in {c, None} /\ con'[c].open /\ Turn(c)
      /\ Held(con'[c]) - Held(con[c]) = BackendFds(k) - BackendFds(con[c])
  <2>1. k.state \in AnswerStates => Done(k)
    BY <1>3, <1>4 DEF AnswerStates, Part, Done, SameBackend
  <2>2. Allowed(OpenPhase(con[c]), OpenPhase(k)) /\ k.state \notin Asking \cup {"connect", "close"}
    <3>1. k.state \in {"handle", "error", "resp_start"}
      BY <1>4
    <3>2. OpenPhase(con[c]) = "deciding" /\ OpenPhase(k) \in {"deciding", "answering", "hindered", "failed"}
      BY <1>1, <3>1, PhaseOfState DEF AnswerStates
    <3>. QED  BY <3>1, <3>2 DEF Allowed, Asking
  <2>. QED  BY <1>1, <1>4, <1>5, <2>1, <2>2, LeavesOne
<1>7. cur_fds' = cur_fds + (Held(con'[c]) - Held(con[c]))
  BY <1>2, <1>3, <1>5, <1>6 DEF Part
<1>8. joblist' \in Seq(Cons)
  BY <1>2, <1>3, Appends DEF Part, joblist_append, Queues
<1>9. fdwaitqueue' \in Seq(Cons) /\ want_fds' = want_fds + (Len(fdwaitqueue') - Len(fdwaitqueue))
  <2>1. PICK n \in 0 .. 1 : want_fds' = want_fds + n /\ fdwaitqueue' = fdwaitqueue \o Appended(c, n)
    BY <1>2
  <2>4. n \in Nat
    OBVIOUS
  <2>2. fdwaitqueue' \in Seq(Cons) /\ Len(fdwaitqueue') = Len(fdwaitqueue) + n
    BY <2>1, <2>4, Appends DEF Queues
  <2>3. Len(fdwaitqueue) \in Nat
    BY DEF Queues
  <2>. QED  BY <2>1, <2>2, <2>3, <2>4
<1>10. cur_fds' <= cur_fds \/ cur_fds' <= max_fds
  <2>1. cur_fds \in Int /\ max_fds \in Int /\ BackendFds(r.k) \in 0 .. 1 /\ BackendFds(con[c]) \in 0 .. 1
    BY Fds, LimitAssumption DEF Queues
  <2>2. r.fds \in -1 .. 1 /\ (r.fds > 0 => cur_fds < max_fds)
    BY <1>3, <2>1 DEF Part
  <2>3. cur_fds' = cur_fds + r.fds
    BY <1>2
  <2>4. ASSUME NEW n \in -1 .. 1, NEW f \in Int, NEW g \in Int, g = f + n, n > 0 => f < max_fds
        PROVE  g <= f \/ g <= max_fds
    BY <2>1, <2>4
  <2>5. cur_fds' \in Int
    BY <2>1, <2>2, <2>3
  <2>. QED  BY <2>1, <2>2, <2>3, <2>4, <2>5
<1>. QED  BY <1>6, <1>7, <1>8, <1>9, <1>10 DEF Effect, Counted

LEMMA ResponseStartEffect ==
  ASSUME Array, Queues, NEW c \in Cons, ResponseStart(c)
  PROVE  Effect(c)
<1>1. running = c /\ con[c].state = "resp_start" /\ UNCHANGED <<arrayVars, queueVars, cur_fds>> /\ Has(con[c])
  BY DEF ResponseStart, In, Array, Struct
<1>2. PICK m \in Prepared(con[c]) : Leaves(c, [m EXCEPT !.state = "write"])
  BY DEF ResponseStart
<1>3. SameBackend(con[c], m)
  <2>1. SameBackend(con[c], [con[c] EXCEPT !.finished = TRUE, !.out = TRUE])
    BY <1>1 DEF SameBackend, Same, Has, Fields, States, Asking, AnswerStates
  <2>2. ASSUME NEW a PROVE SameBackend(con[c], [con[c] EXCEPT !.out = TRUE, !.keep_alive = a])
    BY <1>1 DEF SameBackend, Same, Has, Fields, States, Asking, AnswerStates
  <2>. QED  BY <2>1, <2>2 DEF Prepared
<1>. DEFINE k == [m EXCEPT !.state = "write"]
<1>4. SameBackend(con[c], k) /\ k.state = "write"
  BY <1>3 DEF SameBackend, Same, Has, Fields, States, Asking, AnswerStates
<1>. HIDE DEF k
<1>5. Moves(con[c].state, k.state)
  BY <1>1, <1>4 DEF Moves, AnswerStates
<1>. QED  BY <1>1, <1>2, <1>4, <1>5, LeavesQuietly DEF k

LEMMA WriteEffect ==
  ASSUME Array, Queues, NEW c \in Cons, Write(c)
  PROVE  Effect(c)
<1>1. /\ running = c /\ con[c].state = "write" /\ Has(con[c])
      /\ UNCHANGED <<arrayVars, cur_fds>> /\ UNCHANGED <<fdwaitqueue, want_fds>>
  BY DEF Write, In, Array, Struct
<1>2. CASE con[c].out /\ con[c].writable
  <2>1. PICK r \in connection_handle_write(con[c]) : Leaves(c, r.k) /\ joblist_append(c, r.jobs)
    BY <1>2 DEF Write
  <2>2. SameBackend(con[c], r.k) /\ r.k.state \in {"write", "error", "resp_end"} /\ r.jobs \in Nat
    BY <1>1, WriteSame
  <2>3. Moves(con[c].state, r.k.state) /\ r.k.state # "close"
    BY <1>1, <2>2 DEF Moves, AnswerStates
  <2>. QED  BY <1>1, <2>1, <2>2, <2>3, LeavesQuietly
<1>3. CASE ~(con[c].out /\ con[c].writable)
  <2>1. Leaves(c, con[c]) /\ UNCHANGED queueVars
    BY <1>1, <1>3 DEF Write, queueVars
  <2>2. SameBackend(con[c], con[c]) /\ con[c].state # "close"
    BY <1>1 DEF SameBackend, Same
  <2>3. Moves(con[c].state, con[c].state)
    BY DEF Moves
  <2>. QED  BY <1>1, <2>1, <2>2, <2>3, LeavesQuietly
<1>. QED  BY <1>2, <1>3

(* A keep-alive connection whose request has ended: fds are given back.    *)
LEMMA EndedEffect ==
  ASSUME Array, Queues, NEW c \in Cons, running = c, con[c].state # "connect",
         NEW k, Same(con[c], k), k.hctx = "none", k.state = "close" => Clean(k), Leaves(c, k),
         Allowed(OpenPhase(con[c]), OpenPhase(k)),
         cur_fds' = cur_fds - BackendFds(con[c]), UNCHANGED <<arrayVars, queueVars>>
  PROVE  Effect(c)
<1>1. BackendFds(k) = 0 /\ BackendFds(con[c]) \in Int
  BY Fds
<1>2. /\ Array' /\ Others(c) /\ running' \in {c, None} /\ con'[c].open /\ Turn(c)
      /\ Held(con'[c]) - Held(con[c]) = BackendFds(k) - BackendFds(con[c])
  BY LeavesOne DEF Done
<1>3. cur_fds' = cur_fds + (Held(con'[c]) - Held(con[c]))
  BY <1>1, <1>2 DEF Queues
<1>4. cur_fds' <= cur_fds
  <2>1. BackendFds(con[c]) \in 0 .. 1 /\ cur_fds \in Int
    BY Fds DEF Queues
  <2>. QED  BY <2>1
<1>. QED  BY <1>2, <1>3, <1>4, Stays DEF Effect, Counted

LEMMA ResponseEndEffect ==
  ASSUME Array, Queues, NEW c \in Cons, ResponseEnd(c)
  PROVE  Effect(c)
<1>1. running = c /\ con[c].state = "resp_end" /\ Has(con[c])
  BY DEF ResponseEnd, In, Array, Struct
<1>. DEFINE m == Ended(con[c])  k == [m EXCEPT !.state = "req_start"]
<1>2. Same(con[c], m) /\ Blank(m) /\ m.keep_alive = con[c].keep_alive
  BY <1>1, EndedClean
<1>. HIDE DEF m
<1>3. Same(con[c], k) /\ k.hctx = "none" /\ k.state = "req_start"
  BY <1>2 DEF Blank, Same, Has, Fields, States, Asking, AnswerStates
<1>4. CASE con[c].keep_alive
  <2>1. Leaves(c, k) /\ cur_fds' = cur_fds - BackendFds(con[c]) /\ UNCHANGED <<arrayVars, queueVars>>
    BY <1>4 DEF ResponseEnd, m
  <2>. HIDE DEF k
  <2>2. Allowed(OpenPhase(con[c]), OpenPhase(k)) /\ k.state # "close"
    BY <1>1, <1>3, PhaseOfState DEF Allowed, Asking, AnswerStates
  <2>. QED  BY <1>1, <1>3, <2>1, <2>2, EndedEffect
<1>5. CASE ~con[c].keep_alive
  <2>1. connection_close(c, m, BackendFds(con[c]))
    BY <1>5 DEF ResponseEnd, m
  <2>2. Has(m) /\ Clean(m)
    BY <1>2, <1>5 DEF Same, Clean
  <2>3. con[c].state \in AnswerStates
    BY <1>1 DEF AnswerStates
  <2>. QED  BY <1>1, <2>1, <2>2, <2>3, ClosesEffect
<1>. QED  BY <1>4, <1>5

LEMMA ErrorEffect ==
  ASSUME Array, Queues, NEW c \in Cons, Error(c)
  PROVE  Effect(c)
<1>1. running = c /\ con[c].state = "error" /\ Has(con[c])
  BY DEF Error, In, Array, Struct
<1>. DEFINE m == Ended(con[c])
            k == [m EXCEPT !.state = "close", !.keep_alive = FALSE]
            l == [m EXCEPT !.keep_alive = FALSE]
<1>2. Same(con[c], m) /\ Blank(m)
  BY <1>1, EndedClean
<1>3. \/ Leaves(c, k) /\ cur_fds' = cur_fds - BackendFds(con[c]) /\ UNCHANGED <<arrayVars, queueVars>>
      \/ connection_close(c, l, BackendFds(con[c]))
  BY DEF Error
<1>. HIDE DEF m
<1>4. Same(con[c], k) /\ Clean(k) /\ k.state = "close" /\ Has(l) /\ Clean(l)
  BY <1>2 DEF Same, Has, Fields, States, Asking, AnswerStates, Clean, Blank
<1>. HIDE DEF k, l
<1>5. Allowed(OpenPhase(con[c]), OpenPhase(k)) /\ k.hctx = "none"
  <2>1. OpenPhase(con[c]) \in {"failed", "hindered"} /\ OpenPhase(k) = "failed"
    BY <1>1, <1>4, PhaseOfState
  <2>. QED  BY <1>4, <2>1 DEF Allowed, Clean, Blank
<1>. QED  BY <1>1, <1>3, <1>4, <1>5, EndedEffect, ClosesEffect

LEMMA CloseEffect ==
  ASSUME Array, Queues, NEW c \in Cons, Close(c)
  PROVE  Effect(c)
<1>1. running = c /\ con[c].state = "close" /\ connection_close(c, con[c], 0) /\ Has(con[c]) /\ Clean(con[c])
  BY DEF Close, In, Array, Struct
<1>2. BackendFds(con[c]) = 0
  BY <1>1, Fds DEF Clean, Blank
<1>. QED  BY <1>1, <1>2, ClosesEffect

LEMMA ConnectEffect ==
  ASSUME Array, Queues, NEW c \in Cons, Connect(c)
  PROVE  Effect(c)
<1>1. running = c /\ con[c].state = "connect" /\ Struct(con[c]) /\ UNCHANGED <<arrayVars, queueVars, cur_fds>>
  BY DEF Connect, In, Array
<1>. DEFINE k == [con[c] EXCEPT !.rq = <<>>, !.count = 0]
            m == [k EXCEPT !.events = Waits(k)]
<1>2. k.state = "connect" /\ Waits(k) = {}
  <2>1. k.state = "connect"
    BY <1>1 DEF Struct, Has, Fields, States, Asking, AnswerStates
  <2>. HIDE DEF k
  <2>. QED  BY <2>1 DEF Waits
<1>3. con' = [con EXCEPT ![c] = m] /\ running' = None
  BY <1>1, <1>2 DEF Connect, Leaves
<1>4. /\ Struct(m) /\ m.open = con[c].open /\ m.ndx = con[c].ndx /\ m.hctx = con[c].hctx
      /\ m.rq = <<>> /\ m.count = 0 /\ m.state = con[c].state /\ m.started = con[c].started
  <2>. DEFINE n == [k EXCEPT !.events = {}]
  <2>1. /\ Struct(n) /\ n.open = con[c].open /\ n.ndx = con[c].ndx /\ n.hctx = con[c].hctx
        /\ n.rq = <<>> /\ n.count = 0 /\ n.state = con[c].state /\ n.started = con[c].started
    BY <1>1 DEF Struct, Has, Fields, States, Asking, AnswerStates, Clean, Blank, Done
  <2>. QED  BY <1>2, <2>1
<1>. HIDE DEF m
<1>5. Array' /\ Others(c) /\ con'[c] = m
  BY <1>1, <1>3, <1>4, ChangesOne DEF arrayVars
<1>6. Held(con'[c]) = Held(con[c]) /\ Held(con[c]) \in Int
  BY <1>4, <1>5, Fds DEF Held, BackendFds
<1>7. cur_fds' = cur_fds + (Held(con'[c]) - Held(con[c]))
  BY <1>1, <1>6 DEF Queues
<1>8. cur_fds' <= cur_fds
  BY <1>1 DEF Queues
<1>9. Turn(c)
  BY <1>4, <1>5, SamePhase DEF Turn, Allowed
<1>. QED  BY <1>1, <1>3, <1>4, <1>5, <1>7, <1>8, <1>9, Stays DEF Effect, Counted

LEMMA MachineEffect ==
  ASSUME Array, Queues, NEW c \in Cons, connection_state_machine(c)
  PROVE  Effect(c) /\ running = c
<1>1. running = c
  BY DEF connection_state_machine, RequestStart, RequestEnd, Read, HandleRequest, ResponseStart,
         Write, ResponseEnd, Error, Close, Connect, In
<1>. QED  BY <1>1, RequestStartEffect, RequestEndEffect, ReadEffect, HandleRequestEffect,
             ResponseStartEffect, WriteEffect, ResponseEndEffect, ErrorEffect, CloseEffect,
             ConnectEffect DEF connection_state_machine

-----------------------------------------------------------------------------
(* Counting: the descriptors of one connection are opened or closed.       *)
Open == {c \in Cons : con[c].open}
WithBackend == {c \in Cons : BackendFds(con[c]) = 1}

LEMMA OneMoreOrLess ==
  ASSUME NEW S \in SUBSET Cons, NEW T \in SUBSET Cons, NEW c \in Cons,
         \A d \in Cons \ {c} : d \in S <=> d \in T
  PROVE  /\ Cardinality(S) \in Nat /\ Cardinality(T) \in Nat
         /\ Cardinality(T) = Cardinality(S) + ((IF c \in T THEN 1 ELSE 0) - (IF c \in S THEN 1 ELSE 0))
<1>. DEFINE R == S \ {c}
<1>1. IsFiniteSet(S) /\ IsFiniteSet(T) /\ Cardinality(S) \in Nat /\ Cardinality(T) \in Nat
  <2>1. IsFiniteSet(S) /\ IsFiniteSet(T)
    BY ConsAssumption, FS_Subset
  <2>. QED  BY <2>1, FS_CardinalityType
<1>2. R = T \ {c}
  OBVIOUS
<1>3. Cardinality(R) = IF c \in S THEN Cardinality(S) - 1 ELSE Cardinality(S)
  BY <1>1, FS_RemoveElement
<1>4. Cardinality(R) = IF c \in T THEN Cardinality(T) - 1 ELSE Cardinality(T)
  BY <1>1, <1>2, FS_RemoveElement
<1>. HIDE DEF R
<1>. QED  BY <1>1, <1>3, <1>4

LEMMA FdsCounted ==
  ASSUME NEW c \in Cons, Others(c), Counted(c), Queues, FdAccounting,
         pc' = pc
  PROVE  FdAccounting' /\ Queues'
<1>1. \A d \in Cons \ {c} : (d \in Open <=> d \in Open') /\ (d \in WithBackend <=> d \in WithBackend')
  BY DEF Open, WithBackend, Others, BackendFds
<1>2. /\ Cardinality(Open) \in Nat /\ Cardinality(Open') \in Nat
      /\ Cardinality(Open') = Cardinality(Open) + ((IF c \in Open' THEN 1 ELSE 0) - (IF c \in Open THEN 1 ELSE 0))
  <2>1. Open \in SUBSET Cons /\ Open' \in SUBSET Cons
    BY DEF Open
  <2>. QED  BY <1>1, <2>1, OneMoreOrLess
<1>3. /\ Cardinality(WithBackend) \in Nat /\ Cardinality(WithBackend') \in Nat
      /\ Cardinality(WithBackend') = Cardinality(WithBackend)
           + ((IF c \in WithBackend' THEN 1 ELSE 0) - (IF c \in WithBackend THEN 1 ELSE 0))
  <2>1. WithBackend \in SUBSET Cons /\ WithBackend' \in SUBSET Cons
    BY DEF WithBackend
  <2>. QED  BY <1>1, <2>1, OneMoreOrLess
<1>4. /\ Held(con[c]) = (IF c \in Open THEN 1 ELSE 0) + (IF c \in WithBackend THEN 1 ELSE 0)
      /\ Held(con'[c]) = (IF c \in Open' THEN 1 ELSE 0) + (IF c \in WithBackend' THEN 1 ELSE 0)
  <2>1. /\ (c \in Open <=> con[c].open) /\ (c \in Open' <=> con'[c].open)
        /\ (c \in WithBackend <=> BackendFds(con[c]) = 1)
        /\ (c \in WithBackend' <=> BackendFds(con'[c]) = 1)
    BY DEF Open, WithBackend
  <2>2. BackendFds(con[c]) \in 0 .. 1 /\ BackendFds(con'[c]) \in 0 .. 1
    BY Fds
  <2>. QED  BY <2>1, <2>2 DEF Held
<1>5. cur_fds = 1 + Cardinality(Open) + Cardinality(WithBackend)
      /\ want_fds = Len(fdwaitqueue) + IF pc = "waited" THEN 1 ELSE 0
  BY DEF FdAccounting, Open, WithBackend
<1>6. cur_fds' = cur_fds + (Held(con'[c]) - Held(con[c]))
  BY DEF Counted
<1>7. cur_fds' = 1 + Cardinality(Open') + Cardinality(WithBackend')
  <2>. DEFINE o == IF c \in Open THEN 1 ELSE 0  p == IF c \in Open' THEN 1 ELSE 0
              b == IF c \in WithBackend THEN 1 ELSE 0  q == IF c \in WithBackend' THEN 1 ELSE 0
  <2>1. {o, p, b, q} \subseteq Int
    OBVIOUS
  <2>2. cur_fds' = cur_fds + ((p + q) - (o + b))
    BY <1>4, <1>6
  <2>3. Cardinality(Open') = Cardinality(Open) + (p - o)
        /\ Cardinality(WithBackend') = Cardinality(WithBackend) + (q - b)
    BY <1>2, <1>3
  <2>. HIDE DEF o, p, b, q
  <2>4. ASSUME NEW f \in Int, NEW g \in Int, NEW m \in Int, NEW n \in Int, f = 1 + m + n,
               g = f + ((p + q) - (o + b))
        PROVE  g = 1 + (m + (p - o)) + (n + (q - b))
    BY <2>1, <2>4
  <2>5. cur_fds \in Int /\ cur_fds' \in Int
    BY <2>1, <2>2 DEF Queues
  <2>. QED  BY <1>2, <1>3, <1>5, <2>2, <2>3, <2>4, <2>5
<1>8. /\ want_fds' = Len(fdwaitqueue') + (IF pc' = "waited" THEN 1 ELSE 0)
      /\ Len(fdwaitqueue) \in Nat /\ Len(fdwaitqueue') \in Nat
  <2>1. Len(fdwaitqueue) \in Nat /\ Len(fdwaitqueue') \in Nat
    BY DEF Queues, Counted
  <2>. QED  BY <1>5, <2>1 DEF Counted
<1>9. Queues'
  <2>1. cur_fds' \in Int /\ want_fds' \in Int
    BY <1>2, <1>3, <1>7, <1>8
  <2>. QED  BY <2>1 DEF Queues, Counted
<1>. QED  BY <1>7, <1>8, <1>9 DEF FdAccounting, Open, WithBackend

-----------------------------------------------------------------------------
(* The invariant that is inductive. The handlers of a batch run before any *)
(* machine does, except those of the clients that are accepted meanwhile,  *)
(* and of these there is no event in the batch yet.                        *)
Emptied == \A c \in Cons : con[c].open \/ running = c \/ (con[c].rq = <<>> /\ con[c].count = 0)
Structs == Array /\ Queues /\ Emptied /\ running \in Cons \cup {None}
Control ==
  /\ counter \in Int /\ (pc \notin {"fdwait", "waited"} => counter >= 0)
  /\ batch # {} => pc \in {"events", "accept"}
  /\ pc = "events" => running = None
Batch ==
  /\ \A e \in batch : /\ e.fd \in {"client", "backend", "server"}
                      /\ e.fd # "server" => e.con \in Cons /\ e.con # running
  /\ \A e, f \in batch : e.fd = f.fd /\ e.con = f.con => e = f
IInv == Structs /\ cur_fds <= max_fds /\ FdAccounting /\ Control /\ Batch /\ EventsHaveHandlers

LEMMA Unmoved ==
  ASSUME Structs, UNCHANGED machineVars
  PROVE  Structs'
BY DEF Structs, Array, Places, ConnsArray, Queues, Emptied, machineVars, baseVars, arrayVars, queueVars

(* An empty batch needs nothing.                                           *)
LEMMA NoEvents ==
  ASSUME batch' = {}
  PROVE  Batch' /\ EventsHaveHandlers'
BY DEF Batch, EventsHaveHandlers

LEMMA AlreadyHandled ==
  ASSUME IInv, pc \notin {"events", "accept"}
  PROVE  batch = {}
BY DEF IInv, Control

LEMMA LimitKept ==
  ASSUME IInv, cur_fds' \in Int, cur_fds' <= cur_fds \/ cur_fds' <= max_fds
  PROVE  cur_fds' <= max_fds
BY LimitAssumption DEF IInv, Structs, Queues

LEMMA InitIInv == Init => IInv
<1>. SUFFICES ASSUME Init PROVE IInv
  OBVIOUS
<1>. DEFINE N == Cardinality(Cons)
<1>1. Struct(Fresh) /\ Fresh.open = FALSE /\ Fresh.ndx = -1 /\ BackendFds(Fresh) = 0
      /\ Fresh.rq = <<>> /\ Fresh.count = 0
  BY DEF Fresh, Struct, Has, Fields, States, Asking, AnswerStates, Clean, Blank, BackendFds, Backend
<1>2. DOMAIN con = Cons /\ \A c \in Cons : con[c] = Fresh
  BY DEF Init, BaseInit
<1>3. Places
  BY Capacity DEF Init, BaseInit, Places
<1>4. \A i, j \in DOMAIN ptr : ptr[i] = ptr[j] => i = j
  <2>1. ptr \in Surjection(0 .. N - 1, Cons)
    BY DEF Places, Surjection, Init, BaseInit
  <2>2. IsFiniteSet(0 .. N - 1) /\ Cardinality(0 .. N - 1) = N
    <3>1. N \in Nat /\ 0 \in Int /\ N - 1 \in Int
      BY Capacity
    <3>2. IsFiniteSet(0 .. N - 1) /\ Cardinality(0 .. N - 1) = IF 0 > N - 1 THEN 0 ELSE N - 1 - 0 + 1
      BY <3>1, FS_Interval
    <3>. QED  BY <3>1, <3>2
  <2>3. ptr \in Injection(0 .. N - 1, Cons)
    BY <2>1, <2>2, FS_SurjSameCardinalityImpliesInj
  <2>. QED  BY <1>3, <2>3 DEF Injection, IsInjective, Places
<1>5. ConnsArray
  <2>1. ASSUME NEW i \in DOMAIN ptr PROVE ptr[i] \in Cons /\ ~(i < used)
    BY <1>3, Capacity DEF Places, Init, BaseInit
  <2>. QED  BY <1>1, <1>2, <1>4, <2>1 DEF ConnsArray
<1>6. FdAccounting
  <2>1. Open = {} /\ WithBackend = {}
    BY <1>1, <1>2 DEF Open, WithBackend
  <2>2. Cardinality({}) = 0
    BY FS_EmptySet
  <2>3. cur_fds = 1 /\ want_fds = 0 /\ fdwaitqueue = <<>> /\ pc = "top"
    BY DEF Init, BaseInit
  <2>4. cur_fds = 1 + Cardinality(Open) + Cardinality(WithBackend)
    BY <2>1, <2>2, <2>3
  <2>5. want_fds = Len(fdwaitqueue) + IF pc = "waited" THEN 1 ELSE 0
    BY <2>3
  <2>. QED  BY <2>4, <2>5 DEF FdAccounting, Open, WithBackend
<1>7. Structs
  <2>1. Queues /\ running = None
    BY DEF Init, BaseInit, Queues
  <2>. QED  BY <1>1, <1>2, <1>3, <1>5, <2>1 DEF Structs, Array, Emptied
<1>8. Control /\ Batch /\ EventsHaveHandlers
  BY DEF Init, Control, Batch, EventsHaveHandlers
<1>9. cur_fds <= max_fds
  BY LimitAssumption DEF Init, BaseInit
<1>. QED  BY <1>6, <1>7, <1>8, <1>9 DEF IInv

(* A step on one connection, of which no event is left in the batch if it  *)
(* has closed a descriptor.                                                *)
LEMMA StepOn ==
  ASSUME IInv, NEW c \in Cons, Array', Others(c), Counted(c), pc' = pc, counter' = counter,
         UNCHANGED listening, batch' \subseteq batch,
         running' \in Cons \cup {None}, running' \in {running, None}, running \in {c, None},
         con'[c].open \/ running' = c \/ (con'[c].rq = <<>> /\ con'[c].count = 0),
         \A e \in batch' : e.fd # "server" /\ e.con = c =>
            /\ e.fd = "client" => con'[c].open
            /\ e.fd = "backend" => BackendFds(con'[c]) = 1
  PROVE  IInv'
<1>1. Queues' /\ FdAccounting'
  BY FdsCounted DEF IInv, Structs
<1>2. Emptied'
  <2>1. ASSUME NEW d \in Cons, d # c
        PROVE  con'[d].open \/ (con'[d].rq = <<>> /\ con'[d].count = 0)
    <3>1. con[d].open \/ (con[d].rq = <<>> /\ con[d].count = 0)
      BY <2>1, ConsAssumption DEF IInv, Structs, Emptied
    <3>. QED  BY <2>1, <3>1 DEF Others
  <2>. QED  BY <2>1 DEF Emptied
<1>3. Control'
  BY ConsAssumption DEF IInv, Control
<1>4. Batch'
  BY ConsAssumption DEF IInv, Batch
<1>5. EventsHaveHandlers'
  <2>1. ASSUME NEW e \in batch'
        PROVE  CASE e.fd = "client"  -> con'[e.con].open
                 [] e.fd = "backend" -> BackendFds(con'[e.con]) = 1
                 [] e.fd = "server"  -> listening' # "closed"
    <3>1. e \in batch /\ e.fd \in {"client", "backend", "server"} /\ (e.fd # "server" => e.con \in Cons)
      BY DEF IInv, Batch
    <3>2. CASE e.fd = "server"
      BY <3>1, <3>2 DEF IInv, EventsHaveHandlers
    <3>3. CASE e.fd # "server" /\ e.con = c
      BY <3>1, <3>3
    <3>4. CASE e.fd = "client" /\ e.con # c
      BY <3>1, <3>4 DEF IInv, EventsHaveHandlers, Others
    <3>5. CASE e.fd = "backend" /\ e.con # c
      <4>1. BackendFds(con[e.con]) = 1 /\ con'[e.con].hctx = con[e.con].hctx
        BY <3>1, <3>5 DEF IInv, EventsHaveHandlers, Others
      <4>. QED  BY <3>5, <4>1 DEF BackendFds
    <3>. QED  BY <3>1, <3>2, <3>3, <3>4, <3>5
  <2>. QED  BY <2>1 DEF EventsHaveHandlers
<1>6. cur_fds' <= max_fds
  BY <1>1, LimitKept DEF Queues, Counted
<1>. QED  BY <1>1, <1>2, <1>3, <1>4, <1>5, <1>6 DEF IInv, Structs

LEMMA MachineKeeps ==
  ASSUME IInv, Machine
  PROVE  IInv' /\ \E c \in Cons : Others(c) /\ Turn(c)
<1>1. PICK c \in Cons : connection_state_machine(c) /\ UNCHANGED loopVars
  BY DEF Machine
<1>2. Effect(c) /\ running = c
  BY <1>1, MachineEffect DEF IInv, Structs
<1>3. \A e \in batch' : e.fd # "server" => e.con # c
  BY <1>1, <1>2 DEF IInv, Batch, loopVars
<1>4. running' \in {running, None} /\ running' \in Cons \cup {None}
  BY <1>2 DEF Effect
<1>5. pc' = pc /\ counter' = counter /\ UNCHANGED listening /\ batch' \subseteq batch
  BY <1>1 DEF loopVars, flagVars
<1>. QED  BY <1>2, <1>3, <1>4, <1>5, StepOn DEF Effect

LEMMA HandleEventKeeps ==
  ASSUME IInv, NEW e \in batch, HandleEvent(e)
  PROVE  IInv' /\ e.con \in Cons /\ Others(e.con) /\ Turn(e.con)
<1>. DEFINE c == e.con
<1>1. /\ running = None /\ batch' = batch \ {e} /\ e.fd # "server"
      /\ UNCHANGED <<arrayVars, fdwaitqueue, want_fds>> /\ pc' = pc /\ counter' = counter /\ UNCHANGED listening
  BY DEF HandleEvent, At, flagVars, connection_handle_fdevent, fcgi_handle_fdevent
<1>2. c \in Cons /\ Struct(con[c])
  BY <1>1 DEF IInv, Batch, Structs, Array
<1>3. Queues /\ Array
  BY DEF IInv, Structs
<1>4. ASSUME NEW k, Struct(k), Same(con[c], k), con[c].open, con' = [con EXCEPT ![c] = k],
             NEW n \in Nat, joblist_append(c, n),
             cur_fds' = cur_fds + (BackendFds(k) - BackendFds(con[c])), cur_fds' <= cur_fds,
             e.fd = "backend" \/ k.hctx = con[c].hctx, running' = running,
             Allowed(OpenPhase(con[c]), OpenPhase(k))
      PROVE  IInv' /\ Others(c) /\ Turn(c)
  <2>1. Array' /\ Others(c) /\ con'[c] = k
    BY <1>1, <1>2, <1>3, <1>4, ChangesOne DEF arrayVars, Same
  <2>2. Held(con'[c]) - Held(con[c]) = BackendFds(k) - BackendFds(con[c])
    <3>1. BackendFds(k) \in Int /\ BackendFds(con[c]) \in Int
      BY Fds
    <3>2. k.open
      BY <1>4 DEF Same
    <3>3. Held(k) = 1 + BackendFds(k) /\ Held(con[c]) = 1 + BackendFds(con[c])
      BY <1>4, <3>2 DEF Held
    <3>. QED  BY <2>1, <3>1, <3>3
  <2>3. Counted(c)
    <3>1. joblist' \in Seq(Cons)
      BY <1>2, <1>3, <1>4, Appends DEF Queues, joblist_append
    <3>2. Len(fdwaitqueue) \in Nat
      BY <1>3 DEF Queues
    <3>3. fdwaitqueue' \in Seq(Cons) /\ want_fds' = want_fds + (Len(fdwaitqueue') - Len(fdwaitqueue))
      BY <1>1, <1>3, <3>2 DEF Queues
    <3>. QED  BY <1>4, <2>2, <3>1, <3>3 DEF Counted
  <2>4. con'[c].open
    BY <1>4, <2>1 DEF Same
  <2>5. ASSUME NEW f \in batch', f.fd # "server", f.con = c
        PROVE  (f.fd = "client" => con'[c].open) /\ (f.fd = "backend" => BackendFds(con'[c]) = 1)
    <3>1. f \in batch /\ f # e /\ f.fd # e.fd
      BY <1>1, <2>5 DEF IInv, Batch
    <3>2. ASSUME f.fd = "backend" PROVE BackendFds(con'[c]) = 1
      <4>1. k.hctx = con[c].hctx
        BY <1>4, <3>1, <3>2
      <4>2. BackendFds(con[c]) = 1
        BY <2>5, <3>1, <3>2 DEF IInv, EventsHaveHandlers
      <4>. QED  BY <2>1, <4>1, <4>2 DEF BackendFds
    <3>. QED  BY <2>4, <3>2
  <2>7. Turn(c)
    BY <1>4, <2>1, <2>4, PhaseOf DEF Turn
  <2>. HIDE DEF c
  <2>6. running = None /\ running' = None /\ batch' \subseteq batch
    BY <1>1, <1>4
  <2>. QED  BY <1>1, <1>2, <2>1, <2>3, <2>4, <2>5, <2>6, <2>7, StepOn
<1>5. CASE connection_handle_fdevent(e)
  <2>1. con[c].open
    BY <1>5 DEF connection_handle_fdevent, IInv, EventsHaveHandlers
  <2>. DEFINE k == Noted(con[c], e.revent)
  <2>2. /\ SameBackend(con[c], k) /\ k.state \in {con[c].state, "error"}
        /\ Clean(con[c]) => Clean(k)
    BY <1>2, NotedSame DEF Struct
  <2>3. PICK r \in Handling(k, e.revent = "in") :
          con' = [con EXCEPT ![c] = r.k] /\ joblist_append(c, r.jobs)
    BY <1>5 DEF connection_handle_fdevent
  <2>4. UNCHANGED <<running, cur_fds>>
    BY <1>5 DEF connection_handle_fdevent
  <2>. HIDE DEF k
  <2>5. /\ SameBackend(k, r.k) /\ (r.k.state = "close" => r.k = k) /\ r.jobs \in Nat
        /\ r.k.state \in AnswerStates => k.state \in AnswerStates
        /\ Moves(k.state, r.k.state) /\ (k.state = "error" => r.k = k)
    BY <2>2, HandlingSame DEF SameBackend, Same
  <2>9. SameBackend(con[c], r.k) /\ Moves(con[c].state, r.k.state)
    <3>1. SameBackend(con[c], r.k)
      BY <2>2, <2>5 DEF SameBackend, Same
    <3>2. CASE k.state = con[c].state
      BY <2>5, <3>1, <3>2
    <3>3. CASE k.state = "error"
      BY <2>5, <3>1, <3>3 DEF Moves
    <3>. QED  BY <2>2, <3>2, <3>3
  <2>6. Struct(r.k)
    <3>1. r.k.state = "close" => Clean(r.k)
      BY <1>2, <2>2, <2>5 DEF Struct
    <3>2. r.k.hctx = con[c].hctx /\ r.k.started = con[c].started
      BY <2>9 DEF SameBackend
    <3>3. /\ r.k.state \in AnswerStates => con[c].state \in AnswerStates
          /\ r.k.state \in Asking \cup {"connect"} => con[c].state \in Asking \cup {"connect"}
      BY <2>9 DEF Moves, Asking, AnswerStates
    <3>4. /\ r.k.state \in AnswerStates => Done(r.k)
          /\ r.k.state \in Asking \cup {"connect"} => r.k.hctx = "none"
      BY <1>2, <3>2, <3>3 DEF Struct, Done
    <3>. QED  BY <2>1, <2>9, <3>1, <3>4 DEF Struct, SameBackend, Same
  <2>12. Allowed(OpenPhase(con[c]), OpenPhase(r.k))
    BY <1>2, <2>9, MovesAllowed
  <2>7. cur_fds' = cur_fds + (BackendFds(r.k) - BackendFds(con[c]))
    <3>1. BackendFds(r.k) = BackendFds(con[c]) /\ BackendFds(con[c]) \in Int
      BY <2>9, Fds DEF SameBackend, BackendFds
    <3>. QED  BY <1>3, <2>4, <3>1 DEF Queues
  <2>8. cur_fds' <= cur_fds
    BY <1>3, <2>4 DEF Queues
  <2>10. Struct(r.k) /\ Same(con[c], r.k) /\ r.k.hctx = con[c].hctx
    BY <2>6, <2>9 DEF SameBackend
  <2>11. IInv' /\ Others(c) /\ Turn(c)
    BY <1>4, <2>1, <2>3, <2>4, <2>5, <2>7, <2>8, <2>10, <2>12
  <2>. QED  BY <1>2, <2>11
<1>6. CASE fcgi_handle_fdevent(e)
  <2>1. e.fd = "backend" /\ BackendFds(con[c]) = 1 /\ UNCHANGED running
    BY <1>6 DEF fcgi_handle_fdevent, IInv, EventsHaveHandlers
  <2>2. /\ con[c].hctx \in {"connecting", "writing", "reading"} /\ con[c].open
        /\ con[c].state \notin Asking \cup {"connect", "close"}
    BY <1>2, <2>1 DEF BackendFds, Backend, Struct, Clean, Blank
  <2>3. PICK r \in Answers(con[c]) :
          con' = [con EXCEPT ![c] = r.k] /\ joblist_append(c, r.jobs) /\ cur_fds' = cur_fds + r.fds
    BY <1>6 DEF fcgi_handle_fdevent
  <2>4. /\ Same(con[c], r.k) /\ r.k.state \in {con[c].state, "error", "handle"}
        /\ r.fds = BackendFds(r.k) - BackendFds(con[c]) /\ r.jobs \in Nat
        /\ con[c].state \in AnswerStates => r.k.state = "error" \/ (r.k.state = con[c].state /\ Done(r.k))
        /\ Allowed(OpenPhase(con[c]), OpenPhase(r.k))
    BY <1>2, <2>2, AnswersPart
  <2>5. Struct(r.k)
    <3>1. r.k.state \notin Asking \cup {"connect", "close"} /\ (r.k.state \in AnswerStates => Done(r.k))
      BY <2>2, <2>4 DEF Asking, AnswerStates
    <3>. QED  BY <2>2, <2>4, <3>1 DEF Struct, Same
  <2>6. cur_fds' <= cur_fds
    <3>1. cur_fds \in Int /\ BackendFds(r.k) \in 0 .. 1
      BY <1>3, Fds DEF Queues
    <3>. QED  BY <2>1, <2>3, <2>4, <3>1
  <2>8. IInv' /\ Others(c) /\ Turn(c)
    BY <1>4, <2>1, <2>2, <2>3, <2>4, <2>5, <2>6
  <2>. QED  BY <1>2, <2>8
<1>. QED  BY <1>2, <1>5, <1>6 DEF HandleEvent

LEMMA TimeoutKeeps ==
  ASSUME IInv, Timeout
  PROVE  IInv' /\ \E c \in Cons : Others(c) /\ Turn(c)
<1>. DEFINE c == ptr[counter]
<1>1. /\ pc = "timeouts" /\ running = None /\ counter < used /\ counter' = counter + 1
      /\ UNCHANGED <<arrayVars, queueVars, cur_fds, pc, batch, flagVars>>
  BY DEF Timeout, At
<1>2. batch = {} /\ counter \in Nat
  BY <1>1 DEF IInv, Control
<1>3. counter \in 0 .. Cardinality(Cons) - 1 /\ counter \in DOMAIN ptr
  BY <1>1, <1>2, Capacity DEF IInv, Structs, Array, Places
<1>4. c \in Cons /\ con[c].open /\ Struct(con[c])
  BY <1>1, <1>3 DEF IInv, Structs, Array, Places, ConnsArray
<1>5. PICK k \in Unlimited(Timely(con[c])) :
         con' = [con EXCEPT ![c] = k] /\ running' = IF k # con[c] THEN c ELSE None
  BY DEF Timeout
<1>. HIDE DEF c
<1>6. SameBackend(con[c], k) /\ k.state \in {con[c].state, "error"} /\ Struct(k)
  <2>. DEFINE m == Timely(con[c])
  <2>1. /\ SameBackend(con[c], m) /\ m.state \in {con[c].state, "error"}
        /\ Clean(con[c]) => Clean(m)
    BY <1>4 DEF Timely, Clean, Blank, Struct, SameBackend, Same, Has, Fields, States, Asking, AnswerStates
  <2>. HIDE DEF m
  <2>2. LET l == [m EXCEPT !.limited = FALSE] IN
        /\ SameBackend(con[c], l) /\ l.state = m.state
        /\ Clean(m) => Clean(l)
    BY <2>1 DEF Clean, Blank, SameBackend, Same, Has, Fields, States, Asking, AnswerStates
  <2>3. k = m \/ k = [m EXCEPT !.limited = FALSE]
    BY <1>5 DEF Unlimited, m
  <2>4. SameBackend(con[c], k) /\ k.state \in {con[c].state, "error"}
        /\ (Clean(con[c]) => Clean(k))
    BY <2>1, <2>2, <2>3
  <2>. QED  BY <1>4, <2>4 DEF Struct, SameBackend, Same, Done, Asking, AnswerStates
<1>7. Array' /\ Others(c) /\ con'[c] = k
  BY <1>1, <1>4, <1>5, <1>6, ChangesOne DEF IInv, Structs, arrayVars, SameBackend, Same
<1>8. con'[c].open
  BY <1>4, <1>6, <1>7 DEF SameBackend, Same
<1>9. Counted(c)
  <2>1. Held(con'[c]) = Held(con[c]) /\ Held(con[c]) \in Int
    <3>1. BackendFds(k) = BackendFds(con[c]) /\ BackendFds(k) \in Int
      BY <1>6, Fds DEF SameBackend, BackendFds
    <3>. QED  BY <1>4, <1>7, <1>8, <3>1 DEF Held
  <2>2. cur_fds' = cur_fds + (Held(con'[c]) - Held(con[c]))
    BY <1>1, <2>1 DEF IInv, Structs, Queues
  <2>3. cur_fds' <= cur_fds
    BY <1>1 DEF IInv, Structs, Queues
  <2>. QED  BY <1>1, <2>2, <2>3, Stays DEF Counted, IInv, Structs
<1>10. Queues' /\ FdAccounting'
  BY <1>1, <1>4, <1>7, <1>9, FdsCounted DEF IInv, Structs
<1>11. Emptied'
  <2>1. ASSUME NEW d \in Cons, d # c
        PROVE  con'[d].open \/ (con'[d].rq = <<>> /\ con'[d].count = 0)
    BY <1>1, <1>7, <2>1, ConsAssumption DEF IInv, Structs, Emptied, Others
  <2>. QED  BY <1>8, <2>1 DEF Emptied
<1>12. Structs'
  BY <1>4, <1>5, <1>7, <1>10, <1>11 DEF Structs
<1>13. Control'
  BY <1>1, <1>2 DEF Control
<1>14. Turn(c)
  <2>1. Allowed(OpenPhase(con[c]), OpenPhase(k))
    BY <1>4, <1>6, MovesAllowed DEF Moves
  <2>. QED  BY <1>4, <1>7, <1>8, <2>1, PhaseOf DEF Turn
<1>. QED  BY <1>1, <1>2, <1>4, <1>7, <1>10, <1>12, <1>13, <1>14, NoEvents DEF IInv

LEMMA SecondKeeps ==
  ASSUME IInv, Second
  PROVE  IInv'
<1>1. /\ pc = "top" /\ pc' = "timeouts" /\ running = None /\ con' = [c \in Cons |-> Aged(con[c])]
      /\ UNCHANGED <<arrayVars, queueVars, cur_fds, running, counter, batch, flagVars>>
  BY DEF Second, Step, At
<1>2. ASSUME NEW c \in Cons
      PROVE  /\ Struct(con'[c]) /\ con'[c].open = con[c].open /\ con'[c].ndx = con[c].ndx
             /\ con'[c].hctx = con[c].hctx /\ con'[c].rq = con[c].rq /\ con'[c].count = con[c].count
  <2>1. ASSUME NEW k, Struct(k), NEW age
        PROVE  LET m == [k EXCEPT !.age = age] IN
               /\ Struct(m) /\ m.open = k.open /\ m.ndx = k.ndx
               /\ m.hctx = k.hctx /\ m.rq = k.rq /\ m.count = k.count
    BY <2>1 DEF Struct, Has, Fields, States, Asking, AnswerStates, Clean, Blank, Done
  <2>2. Struct(con[c])
    BY DEF IInv, Structs, Array
  <2>3. Aged(con[c]) = con[c] \/ \E age : Aged(con[c]) = [con[c] EXCEPT !.age = age]
    BY DEF Aged
  <2>4. con'[c] = con[c] \/ \E age : con'[c] = [con[c] EXCEPT !.age = age]
    BY <1>1, <2>3
  <2>5. CASE \E age : con'[c] = [con[c] EXCEPT !.age = age]
    <3>1. PICK age : con'[c] = [con[c] EXCEPT !.age = age]
      BY <2>5
    <3>. DEFINE m == [con[c] EXCEPT !.age = age]
    <3>2. /\ Struct(m) /\ m.open = con[c].open /\ m.ndx = con[c].ndx
          /\ m.hctx = con[c].hctx /\ m.rq = con[c].rq /\ m.count = con[c].count
      BY <2>1, <2>2
    <3>3. con'[c] = m
      BY <3>1
    <3>. HIDE DEF m
    <3>. QED  BY <3>2, <3>3
  <2>. QED  BY <2>2, <2>4, <2>5
<1>3. Array'
  <2>1. ASSUME NEW i \in DOMAIN ptr
        PROVE  IF i < used THEN con'[ptr[i]].open /\ con'[ptr[i]].ndx = i
               ELSE ~con'[ptr[i]].open /\ con'[ptr[i]].ndx = -1
    <3>1. ptr[i] \in Cons
      BY DEF IInv, Structs, Array, Places
    <3>. QED  BY <1>2, <3>1 DEF IInv, Structs, Array, ConnsArray
  <2>2. ConnsArray'
    BY <1>1, <2>1 DEF IInv, Structs, Array, ConnsArray, arrayVars
  <2>. QED  BY <1>1, <1>2, <2>2 DEF IInv, Structs, Array, Places, arrayVars
<1>4. Structs'
  BY <1>1, <1>2, <1>3 DEF IInv, Structs, Queues, Emptied, queueVars
<1>5. FdAccounting'
  <2>1. Open' = Open /\ WithBackend' = WithBackend
    BY <1>2 DEF Open, WithBackend, BackendFds
  <2>2. cur_fds = 1 + Cardinality(Open) + Cardinality(WithBackend) /\ want_fds = Len(fdwaitqueue) + 0
    BY <1>1 DEF IInv, FdAccounting, Open, WithBackend
  <2>3. cur_fds' = 1 + Cardinality(Open') + Cardinality(WithBackend')
    BY <1>1, <2>1, <2>2
  <2>4. want_fds' = Len(fdwaitqueue') + IF pc' = "waited" THEN 1 ELSE 0
    BY <1>1, <2>2 DEF queueVars
  <2>. QED  BY <2>3, <2>4 DEF FdAccounting, Open, WithBackend
<1>6. batch' = {}
  BY <1>1, AlreadyHandled
<1>7. Control'
  BY <1>1, <1>6 DEF IInv, Control
<1>. QED  BY <1>1, <1>4, <1>5, <1>6, <1>7, NoEvents DEF IInv

LEMMA AcceptKeeps ==
  ASSUME IInv, connection_accept
  PROVE  IInv' /\ \E c \in Cons : Others(c) /\ Turn(c)
<1>. DEFINE c == ptr[used]
            k == [NewConnection(con[c]) EXCEPT !.open = TRUE, !.state = "req_start"]
<1>1. /\ pc = "accept" /\ running = None /\ used < max_conns /\ running' = c /\ cur_fds < max_fds
      /\ con' = [con EXCEPT ![c] = k] /\ used' = used + 1 /\ cur_fds' = cur_fds + 1
      /\ counter' = counter + 1 /\ UNCHANGED <<ptr, queueVars, pc, batch, flagVars>>
  BY DEF connection_accept, At
<1>2. used \in 0 .. Cardinality(Cons) - 1 /\ used \in DOMAIN ptr /\ c \in Cons /\ used \in Nat
  BY <1>1, Capacity DEF IInv, Structs, Array, Places
<1>3. ~con[c].open /\ Struct(con[c])
  BY <1>2 DEF IInv, Structs, Array, ConnsArray
<1>4. Struct(k) /\ k.open = TRUE /\ k.ndx = used /\ k.hctx = "none" /\ k.state = "req_start"
  BY <1>3 DEF NewConnection, connection_reset, Struct, Has, Fields, States, Asking, AnswerStates, Clean, Blank
<1>. HIDE DEF c, k
<1>5. DOMAIN con' = Cons /\ con'[c] = k /\ \A d \in Cons \ {c} : con'[d] = con[d]
  BY <1>1, <1>2 DEF IInv, Structs, Array
<1>6. Array'
  <2>1. ASSUME NEW i \in DOMAIN ptr
        PROVE  IF i < used' THEN con'[ptr[i]].open /\ con'[ptr[i]].ndx = i
               ELSE ~con'[ptr[i]].open /\ con'[ptr[i]].ndx = -1
    <3>1. ptr[i] \in Cons /\ i \in Int
      BY DEF IInv, Structs, Array, Places
    <3>2. CASE i = used
      BY <1>1, <1>2, <1>4, <1>5, <3>2 DEF c
    <3>3. CASE i # used
      <4>1. ptr[i] # c
        BY <1>2, <3>3 DEF IInv, Structs, Array, ConnsArray, c
      <4>2. con'[ptr[i]] = con[ptr[i]] /\ (i < used' <=> i < used)
        BY <1>1, <1>2, <1>5, <3>1, <3>3, <4>1
      <4>. QED  BY <4>2 DEF IInv, Structs, Array, ConnsArray
    <3>. QED  BY <3>2, <3>3
  <2>2. ConnsArray'
    BY <1>1, <2>1 DEF IInv, Structs, Array, ConnsArray
  <2>3. Places'
    <3>1. used' \in 0 .. max_conns
      BY <1>1, <1>2, Capacity
    <3>. QED  BY <1>1, <3>1 DEF IInv, Structs, Array, Places
  <2>4. \A d \in Cons : Struct(con'[d])
    BY <1>4, <1>5 DEF IInv, Structs, Array
  <2>. QED  BY <1>5, <2>2, <2>3, <2>4 DEF Array
<1>7. Others(c)
  BY <1>5 DEF Others
<1>8. Counted(c)
  <2>1. BackendFds(k) = 0 /\ BackendFds(con[c]) = 0
    BY <1>3, <1>4, Fds DEF Struct, Clean, Blank
  <2>2. Held(con'[c]) - Held(con[c]) = 1
    BY <1>3, <1>4, <1>5, <2>1 DEF Held
  <2>3. cur_fds' <= max_fds
    BY <1>1, LimitAssumption DEF IInv, Structs, Queues
  <2>. QED  BY <1>1, <2>2, <2>3, Stays DEF Counted, IInv, Structs
<1>9. Queues' /\ FdAccounting'
  BY <1>1, <1>2, <1>7, <1>8, FdsCounted DEF IInv, Structs
<1>10. Emptied'
  BY <1>1, <1>2, <1>5, ConsAssumption DEF IInv, Structs, Emptied
<1>11. Structs'
  BY <1>1, <1>2, <1>6, <1>9, <1>10 DEF Structs
<1>12. Control'
  BY <1>1 DEF IInv, Control
<1>13. \A e \in batch : e.fd # "server" => e.con # c
  <2>1. ASSUME NEW e \in batch, e.fd # "server", e.con = c PROVE FALSE
    <3>1. e.fd \in {"client", "backend"}
      BY <2>1 DEF IInv, Batch
    <3>2. e.fd # "client"
      BY <1>3, <2>1 DEF IInv, EventsHaveHandlers
    <3>3. e.fd # "backend"
      <4>1. BackendFds(con[c]) = 0
        BY <1>3, Fds DEF Struct, Clean, Blank
      <4>2. e.fd = "backend" => BackendFds(con[e.con]) = 1
        BY DEF IInv, EventsHaveHandlers
      <4>. QED  BY <2>1, <4>1, <4>2
    <3>. QED  BY <3>1, <3>2, <3>3
  <2>. QED  BY <2>1
<1>14. Batch'
  BY <1>1, <1>13 DEF IInv, Batch
<1>15. EventsHaveHandlers'
  <2>1. ASSUME NEW e \in batch
        PROVE  CASE e.fd = "client"  -> con'[e.con].open
                 [] e.fd = "backend" -> BackendFds(con'[e.con]) = 1
                 [] e.fd = "server"  -> listening' # "closed"
    <3>1. e.fd \in {"client", "backend", "server"} /\ (e.fd # "server" => e.con \in Cons /\ e.con # c)
      BY <1>13 DEF IInv, Batch
    <3>2. e.fd # "server" => con'[e.con] = con[e.con]
      BY <1>5, <3>1
    <3>. QED  BY <1>1, <3>1, <3>2 DEF IInv, EventsHaveHandlers, flagVars
  <2>. QED  BY <1>1, <2>1 DEF EventsHaveHandlers
<1>16. cur_fds' <= max_fds
  BY <1>8, <1>9, LimitKept DEF Queues, Counted
<1>17. Turn(c)
  BY <1>3, <1>4, <1>5, PhaseOf, PhaseOfState DEF Turn, Allowed, Asking
<1>. QED  BY <1>2, <1>7, <1>9, <1>11, <1>12, <1>14, <1>15, <1>16, <1>17 DEF IInv

(* The steps of the main loop that leave connections and queues alone.     *)
LEMMA LoopKeeps ==
  ASSUME IInv, UNCHANGED machineVars, pc # "waited", pc' # "waited", Control',
         batch' = {} \/ (batch' \subseteq batch /\ UNCHANGED listening)
  PROVE  IInv'
<1>1. Structs'
  BY Unmoved DEF IInv
<1>2. FdAccounting'
  <2>1. UNCHANGED <<con, fdwaitqueue, cur_fds, want_fds>>
    BY DEF machineVars, baseVars, queueVars
  <2>2. Open' = Open /\ WithBackend' = WithBackend
    BY <2>1 DEF Open, WithBackend
  <2>3. cur_fds = 1 + Cardinality(Open) + Cardinality(WithBackend) /\ want_fds = Len(fdwaitqueue) + 0
    BY DEF IInv, FdAccounting, Open, WithBackend
  <2>4. cur_fds' = 1 + Cardinality(Open') + Cardinality(WithBackend')
    BY <2>1, <2>2, <2>3
  <2>5. want_fds' = Len(fdwaitqueue') + IF pc' = "waited" THEN 1 ELSE 0
    BY <2>1, <2>3
  <2>. QED  BY <2>4, <2>5 DEF FdAccounting, Open, WithBackend
<1>0. cur_fds' <= max_fds
  BY DEF IInv, machineVars, baseVars
<1>3. CASE batch' = {}
  BY <1>0, <1>1, <1>2, <1>3, NoEvents DEF IInv
<1>4. CASE batch' \subseteq batch /\ UNCHANGED listening
  <2>1. UNCHANGED con /\ UNCHANGED running
    BY DEF machineVars, baseVars
  <2>2. Batch' /\ EventsHaveHandlers'
    BY <1>4, <2>1 DEF IInv, Batch, EventsHaveHandlers
  <2>. QED  BY <1>0, <1>1, <1>2, <2>2 DEF IInv
<1>. QED  BY <1>3, <1>4

LEMMA PollKeeps ==
  ASSUME IInv, Poll
  PROVE  IInv'
<1>1. pc = "poll" /\ pc' = "events" /\ running = None /\ UNCHANGED <<machineVars, counter, flagVars>>
  BY DEF Poll, Step, At
<1>2. UNCHANGED <<con, running, fdwaitqueue, cur_fds, want_fds, listening>>
  BY <1>1 DEF machineVars, baseVars, queueVars, flagVars
<1>3. /\ \A e \in batch' : e \in Ready
      /\ \A e, f \in batch' : e.fd = f.fd /\ e.con = f.con => e = f
  <2>1. batch' \in Reportable
    BY DEF Poll
  <2>. QED  BY <2>1 DEF Reportable
<1>4. ASSUME NEW e \in Ready
      PROVE  \/ e.fd = "client" /\ e.con \in Cons /\ con[e.con].events # {}
             \/ e.fd = "backend" /\ e.con \in Cons /\ BackendFds(con[e.con]) = 1
             \/ e.fd = "server" /\ listening = "on"
  <2>1. CASE e \in {Event("client", c, r) : c \in {d \in Cons : con[d].events # {}}, r \in {"in", "out", "hup"}}
    BY <2>1 DEF Event
  <2>2. CASE e \in {Event("backend", c, "any") : c \in {d \in Cons : BackendFds(con[d]) = 1}}
    BY <2>2 DEF Event
  <2>3. CASE e \in {Event("server", None, "in") : s \in {listening} \cap {"on"}}
    BY <2>3 DEF Event
  <2>. QED  BY <2>1, <2>2, <2>3 DEF Ready
<1>5. \A c \in Cons : con[c].events # {} => con[c].open
  BY DEF IInv, Structs, Array, Struct
<1>6. Batch'
  <2>1. ASSUME NEW e \in batch'
        PROVE  /\ e.fd \in {"client", "backend", "server"}
               /\ e.fd # "server" => e.con \in Cons /\ e.con # running'
    BY <1>1, <1>2, <1>3, <1>4, ConsAssumption
  <2>. QED  BY <1>3, <2>1 DEF Batch
<1>7. EventsHaveHandlers'
  <2>1. ASSUME NEW e \in batch'
        PROVE  CASE e.fd = "client"  -> con[e.con].open
                 [] e.fd = "backend" -> BackendFds(con[e.con]) = 1
                 [] e.fd = "server"  -> listening # "closed"
    BY <1>3, <1>4, <1>5
  <2>. QED  BY <1>2, <2>1 DEF EventsHaveHandlers
<1>8. Structs'
  BY <1>1, Unmoved DEF IInv
<1>9. FdAccounting'
  <2>1. Open' = Open /\ WithBackend' = WithBackend
    BY <1>2 DEF Open, WithBackend
  <2>2. cur_fds = 1 + Cardinality(Open) + Cardinality(WithBackend) /\ want_fds = Len(fdwaitqueue) + 0
    BY <1>1 DEF IInv, FdAccounting, Open, WithBackend
  <2>3. cur_fds' = 1 + Cardinality(Open') + Cardinality(WithBackend')
    BY <1>2, <2>1, <2>2
  <2>4. want_fds' = Len(fdwaitqueue') + IF pc' = "waited" THEN 1 ELSE 0
    BY <1>1, <1>2, <2>2
  <2>. QED  BY <2>3, <2>4 DEF FdAccounting, Open, WithBackend
<1>10. Control'
  BY <1>1, <1>2 DEF IInv, Control
<1>. QED  BY <1>2, <1>6, <1>7, <1>8, <1>9, <1>10 DEF IInv

(* The steps that take a connection from a queue.                          *)
LEMMA QueueKeeps ==
  ASSUME IInv, FdWait \/ FdWaited \/ Job
  PROVE  IInv'
<1>1. /\ running = None /\ pc \in {"fdwait", "waited", "joblist"}
      /\ UNCHANGED <<con, ptr, used, cur_fds, batch, flagVars>>
  BY DEF FdWait, FdWaited, Job, Step, At, arrayVars, loopVars
<1>2. batch' = {}
  BY <1>1, AlreadyHandled
<1>3. /\ joblist' \in Seq(Cons) /\ fdwaitqueue' \in Seq(Cons) /\ running' \in Cons \cup {None}
      /\ want_fds' \in Int /\ counter' \in Int /\ pc' \in {"fdwait", "waited", "joblist"}
      /\ want_fds' = Len(fdwaitqueue') + (IF pc' = "waited" THEN 1 ELSE 0)
      /\ pc' \notin {"fdwait", "waited"} => counter' >= 0
  <2>1. /\ joblist \in Seq(Cons) /\ fdwaitqueue \in Seq(Cons) /\ want_fds \in Int /\ counter \in Int
        /\ want_fds = Len(fdwaitqueue) + (IF pc = "waited" THEN 1 ELSE 0)
        /\ pc \notin {"fdwait", "waited"} => counter >= 0
    BY DEF IInv, Structs, Queues, Control, FdAccounting
  <2>2. ASSUME NEW q \in Seq(Cons), q # <<>>
        PROVE  Head(q) \in Cons /\ Tail(q) \in Seq(Cons) /\ Len(Tail(q)) = Len(q) - 1
    BY <2>2
  <2>3. Len(fdwaitqueue) \in Nat
    BY <2>1
  <2>4. CASE FdWait
    <3>1. /\ pc = "fdwait" /\ pc' = "waited" /\ fdwaitqueue # <<>> /\ counter' = counter
          /\ running' = Head(fdwaitqueue) /\ fdwaitqueue' = Tail(fdwaitqueue)
          /\ joblist' = joblist /\ want_fds' = want_fds
      BY <2>4 DEF FdWait, Step, At
    <3>2. running' \in Cons /\ fdwaitqueue' \in Seq(Cons) /\ Len(fdwaitqueue') = Len(fdwaitqueue) - 1
      BY <2>1, <2>2, <3>1
    <3>. QED  BY <2>1, <2>3, <3>1, <3>2
  <2>5. CASE FdWaited
    <3>1. /\ pc = "waited" /\ pc' = "fdwait" /\ counter' = counter - 1 /\ want_fds' = want_fds - 1
          /\ running' = None /\ fdwaitqueue' = fdwaitqueue /\ joblist' = joblist
      BY <1>1, <2>5 DEF FdWaited, Step, At
    <3>. QED  BY <2>1, <2>3, <3>1
  <2>6. CASE Job
    <3>1. /\ pc = "joblist" /\ pc' = "joblist" /\ joblist # <<>> /\ counter' = counter
          /\ running' = Head(joblist) /\ joblist' = Tail(joblist)
          /\ fdwaitqueue' = fdwaitqueue /\ want_fds' = want_fds
      BY <2>6 DEF Job, At, loopVars
    <3>2. running' \in Cons /\ joblist' \in Seq(Cons)
      BY <2>1, <2>2, <3>1
    <3>. QED  BY <2>1, <2>3, <3>1, <3>2
  <2>. QED  BY <2>4, <2>5, <2>6
<1>4. Structs'
  <2>1. Array'
    BY <1>1 DEF IInv, Structs, Array, Places, ConnsArray
  <2>2. Emptied'
    BY <1>1, ConsAssumption DEF IInv, Structs, Emptied
  <2>3. Queues'
    BY <1>1, <1>3 DEF IInv, Structs, Queues
  <2>. QED  BY <1>3, <2>1, <2>2, <2>3 DEF Structs
<1>5. FdAccounting'
  <2>1. Open' = Open /\ WithBackend' = WithBackend
    BY <1>1 DEF Open, WithBackend
  <2>2. cur_fds = 1 + Cardinality(Open) + Cardinality(WithBackend)
    BY DEF IInv, FdAccounting, Open, WithBackend
  <2>3. cur_fds' = 1 + Cardinality(Open') + Cardinality(WithBackend')
    BY <1>1, <2>1, <2>2
  <2>. QED  BY <1>3, <2>3 DEF FdAccounting, Open, WithBackend
<1>6. Control'
  BY <1>2, <1>3 DEF Control
<1>. QED  BY <1>1, <1>2, <1>4, <1>5, <1>6, NoEvents DEF IInv

LEMMA LoopStepKeeps ==
  ASSUME IInv,
         \/ SameSecond \/ TimeoutsDone \/ Sockets \/ Graceful \/ FdWaitDone \/ ServerEvent
         \/ AcceptDone \/ EventsDone \/ JobsDone \/ LoopEnds \/ Sigint
  PROVE  IInv'
<1>1. UNCHANGED machineVars /\ running = None
  <2>1. UNCHANGED machineVars
    BY DEF SameSecond, TimeoutsDone, Sockets, Graceful, FdWaitDone, ServerEvent, AcceptDone, EventsDone,
           JobsDone, LoopEnds, Sigint
  <2>. QED  BY <2>1 DEF SameSecond, TimeoutsDone, Sockets, Graceful, FdWaitDone, ServerEvent, AcceptDone,
                    EventsDone, JobsDone, LoopEnds, Sigint, Step, At
<1>2. running' = None
  BY <1>1 DEF machineVars
<1>3. pc # "waited" /\ pc' # "waited"
  BY DEF SameSecond, TimeoutsDone, Sockets, Graceful, FdWaitDone, ServerEvent, AcceptDone, EventsDone,
         JobsDone, LoopEnds, Sigint, Step, At
<1>4. batch' = {} \/ (batch' \subseteq batch /\ UNCHANGED listening)
  <2>1. CASE pc \notin {"events", "accept"}
    <3>1. batch = {}
      BY <2>1, AlreadyHandled
    <3>2. batch' = batch
      BY <2>1 DEF SameSecond, TimeoutsDone, Sockets, Graceful, FdWaitDone, ServerEvent, AcceptDone,
                  EventsDone, JobsDone, LoopEnds, Sigint, Step, At
    <3>. QED  BY <3>1, <3>2
  <2>2. CASE pc \in {"events", "accept"}
    BY <2>2 DEF SameSecond, TimeoutsDone, Sockets, Graceful, FdWaitDone, ServerEvent, AcceptDone,
                EventsDone, JobsDone, LoopEnds, Sigint, Step, At, flagVars
  <2>. QED  BY <2>1, <2>2
<1>5. Control'
  <2>1. counter \in Int /\ (pc \notin {"fdwait", "waited"} => counter >= 0)
    BY DEF IInv, Control
  <2>2. counter' \in Int
    <3>1. max_fds \in Int /\ Reserve \in Int /\ cur_fds \in Int
      BY LimitAssumption DEF IInv, Structs, Queues
    <3>. QED  BY <2>1, <3>1 DEF SameSecond, TimeoutsDone, Sockets, Graceful, FdWaitDone, ServerEvent,
                  AcceptDone, EventsDone, JobsDone, LoopEnds, Sigint
  <2>3. pc' \notin {"fdwait", "waited"} => counter' >= 0
    BY <2>1 DEF SameSecond, TimeoutsDone, Sockets, Graceful, FdWaitDone, ServerEvent,
                AcceptDone, EventsDone, JobsDone, LoopEnds, Sigint, Step, At
  <2>4. batch' # {} => pc' \in {"events", "accept"}
    <3>1. batch # {} => pc \in {"events", "accept"}
      BY DEF IInv, Control
    <3>. QED  BY <1>4, <3>1 DEF SameSecond, TimeoutsDone, Sockets, Graceful, FdWaitDone, ServerEvent,
                AcceptDone, EventsDone, JobsDone, LoopEnds, Sigint, Step, At
  <2>. QED  BY <1>2, <2>2, <2>3, <2>4 DEF Control
<1>. QED  BY <1>1, <1>3, <1>4, <1>5, LoopKeeps

LEMMA NextKeeps == IInv /\ [Next]_vars => IInv'
<1>. SUFFICES ASSUME IInv, [Next]_vars PROVE IInv'
  OBVIOUS
<1>1. CASE UNCHANGED vars
  <2>1. UNCHANGED machineVars /\ UNCHANGED <<pc, counter, batch, listening>>
    BY <1>1 DEF vars, loopVars, flagVars
  <2>2. UNCHANGED <<con, running, fdwaitqueue, cur_fds, want_fds>>
    BY <2>1 DEF machineVars, baseVars, queueVars
  <2>3. Structs'
    BY <2>1, Unmoved DEF IInv
  <2>. QED  BY <2>1, <2>2, <2>3 DEF IInv, FdAccounting, Control, Batch, EventsHaveHandlers
<1>2. CASE Next
  <2>1. CASE \E e \in batch : HandleEvent(e)
    BY <2>1, HandleEventKeeps
  <2>. QED  BY <1>1, <1>2, <2>1, SecondKeeps, TimeoutKeeps, AcceptKeeps, PollKeeps, QueueKeeps,
              LoopStepKeeps, MachineKeeps DEF Next, MainStep, Over
<1>. QED  BY <1>1, <1>2

(* Every step is a step of one connection through RequestCycle, or none.   *)
LEMMA OneTurn ==
  ASSUME IInv, Next
  PROVE  (\E c \in Cons : Others(c) /\ Turn(c)) \/ \A c \in Cons : Phase(con'[c]) = Phase(con[c])
<1>1. CASE Second
  <2>1. ASSUME NEW c \in Cons PROVE Phase(con'[c]) = Phase(con[c])
    <3>1. con'[c] = Aged(con[c]) /\ Has(con[c])
      BY <1>1 DEF Second, IInv, Structs, Array, Struct
    <3>2. /\ con'[c].open = con[c].open /\ con'[c].state = con[c].state
          /\ con'[c].hctx = con[c].hctx /\ con'[c].started = con[c].started
      BY <3>1 DEF Aged, Has, Fields, States, Asking, AnswerStates
    <3>. QED  BY <3>2, SamePhase
  <2>. QED  BY <2>1
<1>2. CASE Machine \/ Timeout \/ connection_accept
  BY <1>2, MachineKeeps, TimeoutKeeps, AcceptKeeps
<1>3. CASE \E e \in batch : HandleEvent(e)
  BY <1>3, HandleEventKeeps
<1>4. ASSUME UNCHANGED con PROVE \A c \in Cons : Phase(con'[c]) = Phase(con[c])
  BY <1>4
<1>5. CASE Poll \/ FdWait \/ FdWaited \/ Job
  <2>1. UNCHANGED con
    BY <1>5 DEF Poll, FdWait, FdWaited, Job, Step, machineVars, baseVars
  <2>. QED  BY <1>4, <2>1
<1>6. CASE \/ SameSecond \/ TimeoutsDone \/ Sockets \/ Graceful \/ FdWaitDone \/ ServerEvent
           \/ AcceptDone \/ EventsDone \/ JobsDone \/ LoopEnds \/ Sigint
  <2>1. UNCHANGED machineVars
    BY <1>6 DEF SameSecond, TimeoutsDone, Sockets, Graceful, FdWaitDone, ServerEvent, AcceptDone,
                EventsDone, JobsDone, LoopEnds, Sigint
  <2>. QED  BY <1>4, <2>1 DEF machineVars, baseVars
<1>7. CASE Over
  BY <1>4, <1>7 DEF Over, vars, machineVars, baseVars
<1>. QED  BY <1>1, <1>2, <1>3, <1>5, <1>6, <1>7 DEF Next, MainStep

THEOREM Invariance == Spec => []IInv
BY InitIInv, NextKeeps, PTL DEF Spec

-----------------------------------------------------------------------------
(* Every connection goes through requests and answers one at a time, and   *)
(* ends after an answer or in failure, whatever its client, its backend    *)
(* and the clock do; of a failure the client is only told if nothing of an *)
(* answer had been made yet.                                               *)
THEOREM Refinement == Spec => ImplementsCycle
<1>. DEFINE phases == [c \in Cons |-> Phase(con[c])]
<1>1. Init => Cycle!Init
  <2>1. Phase(Fresh) = "closed"
    BY PhaseOf DEF Fresh
  <2>2. ASSUME Init PROVE \A c \in Cons : con[c] = Fresh
    BY <2>2 DEF Init, BaseInit
  <2>. QED  BY <2>1, <2>2 DEF Cycle!Init
<1>2. IInv /\ [Next]_vars => [Cycle!Next]_phases
  <2>. SUFFICES ASSUME IInv, [Next]_vars PROVE [Cycle!Next]_phases
    OBVIOUS
  <2>1. ASSUME \A c \in Cons : Phase(con'[c]) = Phase(con[c]) PROVE phases' = phases
    BY <2>1
  <2>2. ASSUME NEW c \in Cons, Others(c), Turn(c) PROVE [Cycle!Next]_phases
    <3>1. phases' = [phases EXCEPT ![c] = Phase(con'[c])]
      <4>1. \A d \in Cons \ {c} : Phase(con'[d]) = Phase(con[d])
        BY <2>2, SamePhase DEF Others
      <4>. QED  BY <4>1
    <3>2. phases[c] = Phase(con[c])
      BY <2>2
    <3>. DEFINE p == Phase(con[c])
                q == Phase(con'[c])
    <3>3. CASE p = q
      <4>1. \A d \in Cons : Phase(con'[d]) = Phase(con[d])
        BY <2>2, <3>3, SamePhase DEF Others
      <4>. QED  BY <2>1, <4>1
    <3>4. CASE p # q
      <4>1. \/ p = "closed" /\ q = "receiving"
            \/ p = "receiving" /\ q \in {"deciding", "failed"}
            \/ p = "deciding" /\ q \in {"answering", "hindered", "failed"}
            \/ p = "answering" /\ q \in {"receiving", "closed", "failed"}
            \/ p = "hindered" /\ q \in {"deciding", "closed", "failed"}
            \/ p = "failed" /\ q = "closed"
        BY <2>2, <3>4 DEF Turn, Allowed
      <4>. HIDE DEF phases, p, q
      <4>2. phases' = [phases EXCEPT ![c] = q] /\ phases[c] = p
        BY <3>1, <3>2 DEF p, q
      <4>3. Cycle!Next
        BY <4>1, <4>2
           DEF Cycle!Next, Cycle!Goes, Cycle!Accepted, Cycle!Decides, Cycle!Answers, Cycle!Answered,
               Cycle!Fails, Cycle!Closes, Cycle!Hinders, Cycle!Apologises, phases
      <4>. QED  BY <4>3
    <3>. QED  BY <3>3, <3>4
  <2>3. CASE Next
    BY <2>1, <2>2, <2>3, OneTurn
  <2>4. CASE UNCHANGED vars
    <3>1. UNCHANGED con
      BY <2>4 DEF vars, machineVars, baseVars
    <3>. QED  BY <3>1
  <2>. QED  BY <2>3, <2>4
<1>. QED  BY <1>1, <1>2, Invariance, PTL DEF Spec, ImplementsCycle, Cycle!Spec

(* The pointer array holds every struct exactly once, the open connections *)
(* first, whichever of them is closed and swapped with the last.           *)
THEOREM ArrayHolds == Spec => []ConnsArray
<1>1. IInv => ConnsArray
  BY DEF IInv, Structs, Array
<1>. QED  BY <1>1, Invariance, PTL

(* No descriptor is lost or counted twice, in whatever order requests,     *)
(* reconnects, failures and time outs come.                                *)
THEOREM DescriptorsCounted == Spec => []FdAccounting
<1>1. IInv => FdAccounting
  BY DEF IInv
<1>. QED  BY <1>1, Invariance, PTL

(* No handler is looked up for a descriptor that was closed since the poll *)
(* that reported it.                                                       *)
THEOREM HandlersFound == Spec => []EventsHaveHandlers
<1>1. IInv => EventsHaveHandlers
  BY DEF IInv
<1>. QED  BY <1>1, Invariance, PTL

(* The struct that the next client is given is as new, but for the mark    *)
(* that a traffic limit has been reached, which may be the last client's.  *)
THEOREM SlateClean == Spec => []CleanSlate
<1>1. ASSUME IInv, NEW c \in Cons, ~con[c].open, running # c, NEW field \in DOMAIN Fresh \ {"limited", "age"}
      PROVE  con[c][field] = Fresh[field]
  <2>1. Struct(con[c]) /\ con[c].rq = <<>> /\ con[c].count = 0
    BY <1>1 DEF IInv, Structs, Array, Emptied
  <2>2. con[c].ndx = -1
    <3>1. DOMAIN ptr = 0 .. Cardinality(Cons) - 1
      BY <1>1 DEF IInv, Structs, Array, Places
    <3>2. PICK i \in 0 .. Cardinality(Cons) - 1 : ptr[i] = c
      BY <1>1 DEF IInv, Structs, Array, Places
    <3>. QED  BY <1>1, <3>1, <3>2 DEF IInv, Structs, Array, ConnsArray
  <2>3. con[c].open = FALSE /\ con[c].state = "connect" /\ con[c].events = {} /\ Clean(con[c])
    BY <1>1, <2>1 DEF Struct
  <2>4. field \in Fields
    BY <1>1 DEF Fresh, Fields
  <2>5. /\ con[c].state = Fresh.state /\ con[c].ndx = Fresh.ndx /\ con[c].events = Fresh.events
        /\ con[c].rq = Fresh.rq /\ con[c].count = Fresh.count
    BY <2>1, <2>2, <2>3 DEF Fresh
  <2>6. /\ con[c].body = Fresh.body /\ con[c].status = Fresh.status /\ con[c].mode = Fresh.mode
        /\ con[c].hctx = Fresh.hctx /\ con[c].reconnects = Fresh.reconnects
    BY <2>3 DEF Fresh, Clean, Blank
  <2>7. /\ con[c].open = Fresh.open /\ con[c].readable = Fresh.readable
        /\ con[c].writable = Fresh.writable /\ con[c].out = Fresh.out
    BY <2>3, Zenon DEF Fresh, Clean, Blank
  <2>8. /\ con[c].keep_alive = Fresh.keep_alive /\ con[c].handler = Fresh.handler
        /\ con[c].started = Fresh.started /\ con[c].finished = Fresh.finished
    BY <2>3, Zenon DEF Fresh, Clean, Blank
  <2>. QED  BY <2>4, <2>5, <2>6, <2>7, <2>8 DEF Fields
<1>2. IInv => CleanSlate
  BY <1>1 DEF CleanSlate
<1>. QED  BY <1>2, Invariance, PTL
=============================================================================
