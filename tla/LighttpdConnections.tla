------------------------- MODULE LighttpdConnections -------------------------
(***************************************************************************)
(* connections.c: the state machine of a connection, one action per case   *)
(* of its switch, and the handler of the events of its socket. A step of   *)
(* the machine reads, writes and calls plugins; what those return is       *)
(* chosen among the outcomes the kernel and mod_fastcgi have.              *)
(***************************************************************************)
EXTENDS LighttpdBase

VARIABLE running       \* the connection whose machine runs, or None

machineVars == <<baseVars, running>>

Headers(rq) == {i \in DOMAIN rq : rq[i] = "end"}
From(s, i) == SubSeq(s, i, Len(s))

(* connection_handle_read: takes what is there, and clears is_readable     *)
(* unless the read filled its buffer; ready means that the kernel has said *)
(* that there is something. (read on a non-blocking socket is not          *)
(* interrupted, so EINTR is left out.)                                     *)
Received(k, packets, left) == [k EXCEPT !.rq = @ \o packets, !.readable = left > 0, !.age = 0]
Returned(k, code) == [k |-> k, code |-> code]
connection_handle_read(k, ready) ==
  {Returned(Received(k, packets, left), 0) :
     packets \in {<<"part">>, <<"end">>, <<"end", "end">>}, left \in 0 .. 1}
  \cup {Returned([Received(k, <<>>, 0) EXCEPT !.state = "error"], -1),
        Returned(Received(k, <<>>, 0), -2)}
  \cup (IF ready THEN {} ELSE {Returned(Received(k, <<>>, 0), 0)})

(* What the read queue holds of the request: a whole header, one that is   *)
(* too long, a part of the body or all of it, or nothing that changes the  *)
(* state; an upload whose temporary file fails is denied.                  *)
Denied(k) == [k EXCEPT !.status = "decided", !.keep_alive = FALSE, !.state = "handle"]
Parsed(k) ==
  CASE k.state = "read" /\ Headers(k.rq) # {} ->
         LET i == CHOOSE i \in Headers(k.rq) : \A j \in Headers(k.rq) : i <= j
         IN {[k EXCEPT !.rq = From(@, i + 1), !.state = "req_end"]}
    [] k.state = "read" /\ Headers(k.rq) = {} /\ Len(k.rq) > HeaderLimit -> {Denied(k)}
    [] k.state = "read_post" /\ k.rq # <<>> ->
         LET n == IF Len(k.rq) < k.body THEN Len(k.rq) ELSE k.body
             m == [k EXCEPT !.rq = From(@, n + 1), !.body = @ - n]
         IN {IF m.body = 0 THEN [m EXCEPT !.state = "handle"] ELSE m, Denied(k)}
    [] OTHER -> {k}

connection_handle_read_state(k, ready) ==
  LET reads == IF k.readable THEN connection_handle_read(k, ready) ELSE {Returned(k, 0)}
  IN UNION {{IF r.code = -2 /\ j.state = k.state THEN [j EXCEPT !.state = "error"] ELSE j :
               j \in Parsed(r.k)} : r \in reads}

(* connection_handle_write: everything goes out, or the socket is full, or *)
(* a traffic limit is reached before or after, or the client is gone.      *)
(* jobs counts the calls of joblist_append.                                *)
AllSent(k) == IF k.finished THEN [k EXCEPT !.out = FALSE, !.state = "resp_end"]
              ELSE [k EXCEPT !.out = FALSE, !.age = 0]
Blocked(k) == [k EXCEPT !.writable = FALSE, !.age = 0]
Limited(r) == [k |-> [r.k EXCEPT !.limited = TRUE], jobs |-> r.jobs + 1]
connection_handle_write(k) ==
  LET written == {[k |-> AllSent(k), jobs |-> IF k.finished THEN 1 ELSE 0], [k |-> Blocked(k), jobs |-> 0]}
  IN written \cup (IF kbytes_per_second THEN {Limited(r) : r \in written} ELSE {})
       \cup {[k |-> [k EXCEPT !.state = "error"], jobs |-> 1]}

(* The plugin's part of a request (mod_fastcgi_handle_subrequest): it     *)
(* opens a descriptor and connects, at once or with a delay, sends the     *)
(* request, and waits for the answer; or it comes back for a descriptor,   *)
(* tries another backend, or gives up. A connection that is dropped after  *)
(* accept() (ENOTCONN) is made anew, without a word to the joblist.        *)
Result(k, fds, jobs, r) == [k |-> k, fds |-> fds, jobs |-> jobs, result |-> r]
GivesUp(k) == [fcgi_connection_close(k) EXCEPT !.mode = "direct", !.status = "decided"]
fcgi_reconnect(k) == [k EXCEPT !.hctx = "nofd", !.reconnects = @ + 1]
(* Mutant: one attempt too many.                                           *)
BackendFailsOnceMore(k) ==
  IF k.reconnects <= Reconnects
  THEN Result(fcgi_reconnect(k), -BackendFds(k), 1, "WAIT_FOR_FD")
  ELSE Result(GivesUp(k), -BackendFds(k), 1, "FINISHED")
BackendFails(k) ==
  IF k.reconnects < Reconnects
  THEN Result(fcgi_reconnect(k), -BackendFds(k), 1, "WAIT_FOR_FD")
  ELSE Result(GivesUp(k), -BackendFds(k), 1, "FINISHED")
Dropped(k) ==
  IF drops /\ k.reconnects < Reconnects THEN {Result(fcgi_reconnect(k), -BackendFds(k), 0, "WAIT_FOR_FD")} ELSE {}
Waiting(k, hctx, fds) == Result([k EXCEPT !.hctx = hctx], fds, 0, "WAIT_FOR_EVENT")
Connected(k, fds) ==
  {Waiting(k, hctx, fds) : hctx \in {"writing", "reading"}}
    \cup {Result(GivesUp(k), -BackendFds(k), 1, "FINISHED")} \cup Dropped(k)
handle_subrequest(k) ==
  CASE k.hctx = "none" -> {Result(k, 0, 0, "FINISHED")}
    [] k.hctx = "nofd" ->
         {Result(GivesUp(k), 0, 0, "FINISHED"), BackendFails(k)}
           \cup (IF cur_fds < max_fds
                 THEN {Waiting(k, "connecting", 1)} \cup Connected([k EXCEPT !.reconnects = 0], 1)
                 ELSE {Result(k, 0, 0, "WAIT_FOR_FD")})
    [] k.hctx = "connecting" -> {BackendFails(k)} \cup Connected(k, 0)
    [] k.hctx = "writing" -> Connected(k, 0)
    [] k.hctx = "reading" -> {Result(k, 0, 0, IF k.started THEN "FINISHED" ELSE "WAIT_FOR_EVENT")}

(* http_response_prepare: a request that is decided is left alone; one     *)
(* that is not is the last one if there were too many, and is a static     *)
(* file, has another answer (a redirect, a failure, or the status of an    *)
(* authorizer), is refused, is a plugin's if none has authorized it, or    *)
(* fails.                                                                  *)
http_response_prepare(k) ==
  IF k.mode = "direct" /\ k.status # "none"
  THEN {Result([k EXCEPT !.out = k.out /\ k.finished], 0, 0, "FINISHED")}
  ELSE IF k.mode = "direct"
  THEN LET l == [k EXCEPT !.keep_alive = @ /\ k.count <= max_keep_alive_requests]
       IN {Result([l EXCEPT !.status = "decided", !.finished = TRUE, !.out = TRUE], 0, 0, "FINISHED"),
           Result([l EXCEPT !.status = "decided"], 0, 0, "FINISHED"),
           Result([l EXCEPT !.status = IF error_handler THEN "refused" ELSE "decided"], 0, 0, "FINISHED"),
           Result(l, 0, 0, "ERROR")}
          \cup (IF k.started THEN {} ELSE handle_subrequest([l EXCEPT !.mode = "fastcgi", !.hctx = "nofd"]))
  ELSE handle_subrequest(k)

-----------------------------------------------------------------------------
(* The end of a run: the descriptor waits for what the state waits for.    *)
Waits(k) ==
  IF k.state \in {"read", "read_post", "close"} THEN {"in"}
  ELSE IF k.state = "write" /\ k.out /\ ~k.writable /\ ~k.limited THEN {"out"}
  ELSE {}

(* The switch has made k of connection c: the machine goes on while the    *)
(* state changes.                                                          *)
Leaves(c, k) ==
  IF k.state = con[c].state
  THEN con' = [con EXCEPT ![c] = [k EXCEPT !.events = Waits(k)]] /\ running' = None
  ELSE con' = [con EXCEPT ![c] = k] /\ UNCHANGED running
ComesBack(c, k) == con' = [con EXCEPT ![c] = k] /\ UNCHANGED running

In(c, s) == running = c /\ con[c].state = s

RequestStart(c) ==
  /\ In(c, "req_start")
  /\ Leaves(c, [con[c] EXCEPT !.state = "read", !.age = 0, !.count = @ + 1])
  /\ UNCHANGED <<arrayVars, queueVars, cur_fds>>

(* http_request_parse: a request with a body or without, with keep-alive   *)
(* or without, or a bad one.                                               *)
RequestEnd(c) ==
  /\ In(c, "req_end")
  /\ \/ Leaves(c, Denied(con[c]))
     \/ \E n \in Bodies, a \in BOOLEAN :
          Leaves(c, [con[c] EXCEPT !.state = IF n > 0 THEN "read_post" ELSE "handle", !.body = n, !.keep_alive = a])
  /\ UNCHANGED <<arrayVars, queueVars, cur_fds>>

Read(c) ==
  /\ In(c, "read") \/ In(c, "read_post")
  /\ \E k \in connection_handle_read_state(con[c], FALSE) : Leaves(c, k)
  /\ UNCHANGED <<arrayVars, queueVars, cur_fds>>

(* A refused request goes once through the error handler.                  *)
ToHandler(k) == k.mode = "direct" /\ k.status = "refused" /\ ~k.handler
HandleRequest(c) ==
  /\ In(c, "handle")
  /\ \E r \in http_response_prepare(con[c]) :
       /\ CASE r.result = "FINISHED" /\ ToHandler(r.k) ->
                 ComesBack(c, [r.k EXCEPT !.status = "none", !.handler = TRUE])
            [] r.result = "FINISHED" /\ ~ToHandler(r.k) ->
                 Leaves(c, [r.k EXCEPT !.state = "resp_start", !.status = IF @ = "none" THEN "decided" ELSE @])
            [] r.result = "ERROR" -> Leaves(c, [r.k EXCEPT !.state = "error"])
            [] OTHER -> Leaves(c, r.k)
       /\ joblist_append(c, r.jobs)
       /\ cur_fds' = cur_fds + r.fds
       /\ want_fds' = want_fds + (IF r.result = "WAIT_FOR_FD" THEN 1 ELSE 0)
       /\ fdwaitqueue' = fdwaitqueue \o Appended(c, IF r.result = "WAIT_FOR_FD" THEN 1 ELSE 0)
  /\ UNCHANGED arrayVars

(* connection_handle_write_prepare: the header is written in front of what *)
(* there is; an error page, a HEAD request and a status without a body end *)
(* the response; an answer of unknown length ends the connection.          *)
Prepared(k) ==
  IF k.mode = "direct" THEN {[k EXCEPT !.finished = TRUE, !.out = TRUE]}
  ELSE {[k EXCEPT !.finished = TRUE, !.out = TRUE]}
       \cup {[k EXCEPT !.out = TRUE, !.keep_alive = a] : a \in {k.keep_alive, k.keep_alive /\ k.finished}}
ResponseStart(c) ==
  /\ In(c, "resp_start")
  /\ \E k \in Prepared(con[c]) : Leaves(c, [k EXCEPT !.state = "write"])
  /\ UNCHANGED <<arrayVars, queueVars, cur_fds>>

Write(c) ==
  /\ In(c, "write")
  /\ IF con[c].out /\ con[c].writable
     THEN \E r \in connection_handle_write(con[c]) : Leaves(c, r.k) /\ joblist_append(c, r.jobs)
     ELSE Leaves(c, con[c]) /\ UNCHANGED joblist
  /\ UNCHANGED <<arrayVars, fdwaitqueue, cur_fds, want_fds>>

(* Mutant: the plugin's descriptor is closed, and not counted.             *)
connection_closeLeaks(c, k, fds) ==
  /\ con' = Deleted(c, k) /\ connection_del(c) /\ used' = used - 1
  /\ cur_fds' = cur_fds - 1
  /\ UNCHANGED <<running, queueVars>>

(* connection_close and the reset after it: k is what is left of c. The    *)
(* plugin has closed its descriptor, fds of them.                          *)
connection_close(c, k, fds) ==
  /\ con' = Deleted(c, k) /\ connection_del(c) /\ used' = used - 1
  /\ cur_fds' = cur_fds - 1 - fds
  /\ UNCHANGED <<running, queueVars>>

Ended(k) == connection_reset(fcgi_connection_close(k))

ResponseEnd(c) ==
  /\ In(c, "resp_end")
  /\ IF con[c].keep_alive
     THEN /\ Leaves(c, [Ended(con[c]) EXCEPT !.state = "req_start"])
          /\ cur_fds' = cur_fds - BackendFds(con[c])
          /\ UNCHANGED <<arrayVars, queueVars>>
     ELSE connection_close(c, Ended(con[c]), BackendFds(con[c]))

(* The lingering close of a keep-alive connection (shutdown may fail) does *)
(* not last: keep_alive is cleared right after the state is set.           *)
Error(c) ==
  /\ In(c, "error")
  /\ \/ /\ con[c].keep_alive
        /\ Leaves(c, [Ended(con[c]) EXCEPT !.state = "close", !.keep_alive = FALSE])
        /\ cur_fds' = cur_fds - BackendFds(con[c])
        /\ UNCHANGED <<arrayVars, queueVars>>
     \/ connection_close(c, [Ended(con[c]) EXCEPT !.keep_alive = FALSE], BackendFds(con[c]))

(* close_timeout_ts is set to 0 for a connection without keep-alive.       *)
Close(c) == In(c, "close") /\ ~con[c].keep_alive /\ connection_close(c, con[c], 0)

(* Mutant: what the last client had sent is kept for the next one.         *)
ConnectKeeps(c) ==
  /\ In(c, "connect")
  /\ Leaves(c, [con[c] EXCEPT !.count = 0])
  /\ UNCHANGED <<arrayVars, queueVars, cur_fds>>

Connect(c) ==
  /\ In(c, "connect")
  /\ Leaves(c, [con[c] EXCEPT !.rq = <<>>, !.count = 0])
  /\ UNCHANGED <<arrayVars, queueVars, cur_fds>>

connection_state_machine(c) ==
  \/ RequestStart(c) \/ RequestEnd(c) \/ Read(c) \/ HandleRequest(c) \/ ResponseStart(c)
  \/ Write(c) \/ ResponseEnd(c) \/ Error(c) \/ Close(c) \/ Connect(c)
=============================================================================
