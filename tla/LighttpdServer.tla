---------------------------- MODULE LighttpdServer ----------------------------
(***************************************************************************)
(* server.c: the main loop of lighttpd with one worker. Each turn looks at *)
(* the clock, at the limits and at the queue for descriptors, polls, calls *)
(* the handler of each event, and then runs the machine of every           *)
(* connection in the joblist. The kernel reports any event of a descriptor *)
(* that is asked for; the signal that asks for a graceful shutdown comes   *)
(* at any time.                                                            *)
(***************************************************************************)
EXTENDS LighttpdConnections

CONSTANTS
  Accepts,             \* the clients accepted for one event (100)
  Sigints              \* bound: how many times the signal comes
ASSUME LoopAssumption == {Accepts, Sigints} \subseteq Nat

VARIABLES
  pc,                  \* where the main loop is
  counter,             \* ndx of the loop over srv->conns, free_fds, or loops
  batch,               \* the events of the last poll that are not handled
  listening,           \* whether events of the server socket are asked for, or it is closed
  sockets_disabled, graceful_shutdown, srv_shutdown

flagVars == <<listening, sockets_disabled, graceful_shutdown, srv_shutdown>>
loopVars == <<pc, counter, batch, flagVars>>
vars == <<machineVars, loopVars>>

Init ==
  /\ BaseInit /\ running = None
  /\ pc = "top" /\ counter = 0 /\ batch = {}
  /\ listening = "on" /\ sockets_disabled = FALSE /\ graceful_shutdown = FALSE /\ srv_shutdown = FALSE

At(p) == pc = p /\ running = None
Step(from, to) == At(from) /\ pc' = to

-----------------------------------------------------------------------------
(* A new second: every age grows, up to one more than what is asked for.   *)
Older(a, limit) == IF a > limit THEN a ELSE a + 1
IdleLimit(k) == IF k.count = 1 THEN max_read_idle ELSE max_keep_alive_idle
Aged(k) ==
  CASE k.state \in {"read", "read_post"} -> [k EXCEPT !.age = Older(@, IdleLimit(k))]
    [] k.state = "write" -> [k EXCEPT !.age = Older(@, max_write_idle)]
    [] OTHER -> k

Second ==
  /\ Step("top", "timeouts") /\ ~srv_shutdown
  /\ con' = [c \in Cons |-> Aged(con[c])]
  /\ UNCHANGED <<arrayVars, queueVars, cur_fds, running, counter, batch, flagVars>>

SameSecond ==
  /\ Step("top", "sockets") /\ ~srv_shutdown
  /\ UNCHANGED <<machineVars, counter, batch, flagVars>>

(* The loop over srv->conns: what has been idle for too long is in error;  *)
(* the traffic limit is lifted when the average is low enough.             *)
(* Mutant: only the first request of a connection has a time out.          *)
TimedOutFirst(k) ==
  \/ k.state \in {"read", "read_post"} /\ k.count = 1 /\ k.age > IdleLimit(k)
  \/ k.state = "write" /\ k.age > max_write_idle
TimedOut(k) ==
  \/ k.state \in {"read", "read_post"} /\ k.age > IdleLimit(k)
  \/ k.state = "write" /\ k.age > max_write_idle
Timely(k) == IF TimedOut(k) THEN [k EXCEPT !.state = "error"] ELSE k
Unlimited(k) == IF k.limited THEN {k, [k EXCEPT !.limited = FALSE]} ELSE {k}
Timeout ==
  /\ At("timeouts") /\ counter < used
  /\ LET c == ptr[counter] IN
       \E k \in Unlimited(Timely(con[c])) :
         /\ con' = [con EXCEPT ![c] = k]
         /\ running' = IF k # con[c] THEN c ELSE None
  /\ counter' = counter + 1
  /\ UNCHANGED <<arrayVars, queueVars, cur_fds, pc, batch, flagVars>>

TimeoutsDone ==
  /\ Step("timeouts", "sockets") /\ counter >= used /\ counter' = 0
  /\ UNCHANGED <<machineVars, batch, flagVars>>

(* The server socket is enabled again, or disabled for want of descriptors *)
(* or for a graceful shutdown, which closes it.                            *)
Enable == cur_fds + want_fds < FdsLow /\ used < ConnsLow /\ ~graceful_shutdown
Disable == cur_fds + want_fds > FdsHigh \/ used > max_conns \/ graceful_shutdown
Sockets ==
  /\ Step("sockets", "graceful")
  /\ \/ sockets_disabled /\ Enable /\ listening' = "on" /\ sockets_disabled' = FALSE
     \/ ~sockets_disabled /\ Disable /\ sockets_disabled' = TRUE
        /\ listening' = IF graceful_shutdown THEN "closed" ELSE "off"
     \/ (IF sockets_disabled THEN ~Enable ELSE ~Disable) /\ UNCHANGED <<listening, sockets_disabled>>
  /\ UNCHANGED <<machineVars, counter, batch, graceful_shutdown, srv_shutdown>>

(* Mutant: the check stands in the branch of enabled sockets.              *)
GracefulEnabled ==
  /\ Step("graceful", "fdwait")
  /\ counter' = IF want_fds = 0 THEN 0 ELSE max_fds - cur_fds - Reserve
  /\ srv_shutdown' = (srv_shutdown \/ (graceful_shutdown /\ used = 0 /\ ~sockets_disabled))
  /\ UNCHANGED <<machineVars, batch, listening, sockets_disabled, graceful_shutdown>>

Graceful ==
  /\ Step("graceful", "fdwait")
  /\ counter' = IF want_fds = 0 THEN 0 ELSE max_fds - cur_fds - Reserve
  /\ srv_shutdown' = (srv_shutdown \/ (graceful_shutdown /\ used = 0))
  /\ UNCHANGED <<machineVars, batch, listening, sockets_disabled, graceful_shutdown>>

(* The connections that wait for a descriptor run while some are free.     *)
FdWait ==
  /\ Step("fdwait", "waited") /\ counter > 0 /\ fdwaitqueue # <<>>
  /\ running' = Head(fdwaitqueue) /\ fdwaitqueue' = Tail(fdwaitqueue)
  /\ UNCHANGED <<arrayVars, con, joblist, want_fds, cur_fds, counter, batch, flagVars>>
FdWaited ==
  /\ Step("waited", "fdwait") /\ want_fds' = want_fds - 1 /\ counter' = counter - 1
  /\ UNCHANGED <<arrayVars, con, joblist, fdwaitqueue, cur_fds, running, batch, flagVars>>
FdWaitDone ==
  /\ Step("fdwait", "poll") /\ (counter <= 0 \/ fdwaitqueue = <<>>) /\ counter' = 0
  /\ UNCHANGED <<machineVars, batch, flagVars>>

-----------------------------------------------------------------------------
(* fdevent_poll: any events of the descriptors that are asked for some, at *)
(* most one for each; an error is reported whatever is asked for.          *)
Event(fd, c, revent) == [fd |-> fd, con |-> c, revent |-> revent]
Ready ==
  {Event("client", c, e) : c \in {d \in Cons : con[d].events # {}}, e \in {"in", "out", "hup"}}
    \cup {Event("backend", c, "any") : c \in {d \in Cons : BackendFds(con[d]) = 1}}
    \cup {Event("server", None, "in") : s \in {listening} \cap {"on"}}
Reportable ==
  {es \in SUBSET {e \in Ready : e.fd = "client" => e.revent \in con[e.con].events \cup {"hup"}} :
     \A e, f \in es : e.fd = f.fd /\ e.con = f.con => e = f}
Poll ==
  /\ Step("poll", "events")
  /\ batch' \in Reportable
  /\ UNCHANGED <<machineVars, counter, flagVars>>

(* connection_handle_fdevent: the connection goes into the joblist, and is *)
(* read or written at once, but its machine does not run.                  *)
Noted(k, revent) ==
  [k EXCEPT !.readable = @ \/ revent = "in", !.writable = @ \/ revent = "out",
            !.state = IF revent = "hup" THEN "error" ELSE @]
(* Mutant: a connection that was read from is not put into the joblist.    *)
HandlingQuietly(k, ready) ==
  IF k.state \in {"read", "read_post"}
  THEN {[k |-> r, jobs |-> 0] : r \in connection_handle_read_state(k, ready)}
  ELSE {[k |-> k, jobs |-> 1]}
Handling(k, ready) ==
  IF k.state \in {"read", "read_post"}
  THEN {[k |-> r, jobs |-> 1] : r \in connection_handle_read_state(k, ready)}
  ELSE IF k.state = "write" /\ k.out /\ k.writable
  THEN {[k |-> r.k, jobs |-> 1 + r.jobs] : r \in connection_handle_write(k)}
  ELSE {[k |-> k, jobs |-> 1]}
(* Mutant: the machine runs at once, with other events still in the batch. *)
connection_handle_fdeventRuns(e) ==
  /\ e.fd = "client"
  /\ \E r \in Handling(Noted(con[e.con], e.revent), e.revent = "in") :
       con' = [con EXCEPT ![e.con] = r.k]
  /\ running' = e.con
  /\ UNCHANGED <<joblist, cur_fds>>
connection_handle_fdevent(e) ==
  /\ e.fd = "client"
  /\ \E r \in Handling(Noted(con[e.con], e.revent), e.revent = "in") :
       /\ con' = [con EXCEPT ![e.con] = r.k]
       /\ joblist_append(e.con, r.jobs)
  /\ UNCHANGED <<running, cur_fds>>

(* fcgi_handle_fdevent: a request that is on its way to the backend goes   *)
(* on; of an answer there is a part, the header, data, the end, or it      *)
(* breaks off, with or without a HUP. The end of an authorizer's answer    *)
(* that approves hands the request back to be decided without the plugin.  *)
(* Mutant: a request is tried again although its answer has begun.         *)
AnswersAgain(k) ==
  LET gone == fcgi_connection_close(k)
  IN IF k.hctx # "reading" THEN handle_subrequest(k)
     ELSE {Result(k, 0, 0, "part"), Result([k EXCEPT !.started = TRUE], 0, 0, "header"),
           Result([gone EXCEPT !.state = "handle", !.status = "decided", !.mode = "direct"], -1, 1, "died")}
Answers(k) ==
  LET gone == fcgi_connection_close(k)
      hup  == Result([gone EXCEPT !.state = "error"], -1, 1, "hup")
  IN IF k.hctx # "reading" THEN handle_subrequest(k) \cup {hup}
     ELSE {Result(k, 0, 0, "part"), hup,
           Result([k EXCEPT !.started = TRUE], 0, 0, "header"),
           Result([k EXCEPT !.started = TRUE, !.out = TRUE], 0, 1, "data"),
           IF k.started THEN Result([gone EXCEPT !.state = "error"], -1, 1, "died")
           ELSE Result([gone EXCEPT !.state = "handle", !.status = "decided", !.mode = "direct"], -1, 1, "died")}
       \cup {Result([gone EXCEPT !.started = started, !.out = TRUE, !.finished = TRUE], -1, 1, "end") :
              started \in {k.started, TRUE}}
       \cup {Result([gone EXCEPT !.started = TRUE, !.finished = TRUE, !.mode = "direct"], -1, 1, "authorized") :
              a \in {authorizer} \cap {TRUE}}
fcgi_handle_fdevent(e) ==
  /\ e.fd = "backend"
  /\ \E r \in Answers(con[e.con]) :
       /\ con' = [con EXCEPT ![e.con] = r.k]
       /\ joblist_append(e.con, r.jobs)
       /\ cur_fds' = cur_fds + r.fds
  /\ UNCHANGED running

HandleEvent(e) ==
  /\ At("events") /\ e \in batch /\ batch' = batch \ {e}
  /\ connection_handle_fdevent(e) \/ fcgi_handle_fdevent(e)
  /\ UNCHANGED <<arrayVars, fdwaitqueue, want_fds, pc, counter, flagVars>>

(* network_server_handle_fdevent: accepts, and runs the machine of, as     *)
(* many clients as there are and as the limits allow.                      *)
ServerEvent ==
  /\ Step("events", "accept")
  /\ \E e \in batch : e.fd = "server" /\ batch' = batch \ {e}
  /\ UNCHANGED <<machineVars, counter, flagVars>>

connection_accept ==
  /\ At("accept") /\ counter < Accepts /\ used < max_conns /\ cur_fds < max_fds
  /\ LET c == ptr[used] IN
       /\ con' = [con EXCEPT ![c] = [NewConnection(@) EXCEPT !.open = TRUE, !.state = "req_start"]]
       /\ running' = c
  /\ used' = used + 1 /\ cur_fds' = cur_fds + 1 /\ counter' = counter + 1
  /\ UNCHANGED <<ptr, queueVars, pc, batch, flagVars>>

AcceptDone ==
  /\ Step("accept", "events") /\ counter' = 0
  /\ UNCHANGED <<machineVars, batch, flagVars>>

EventsDone ==
  /\ Step("events", "joblist") /\ batch = {}
  /\ UNCHANGED <<machineVars, counter, batch, flagVars>>

(* The joblist grows while it is worked off: in_joblist, which joblist     *)
(* append looks at, is never set.                                          *)
Job ==
  /\ At("joblist") /\ joblist # <<>>
  /\ running' = Head(joblist) /\ joblist' = Tail(joblist)
  /\ UNCHANGED <<arrayVars, con, fdwaitqueue, want_fds, cur_fds, loopVars>>

JobsDone ==
  /\ Step("joblist", "top") /\ joblist = <<>>
  /\ UNCHANGED <<machineVars, counter, batch, flagVars>>

(* The loop ends after the turn in which srv_shutdown was set, and what    *)
(* is left is closed (network_close).                                      *)
LoopEnds ==
  /\ Step("top", "ended") /\ srv_shutdown /\ listening' = "closed"
  /\ UNCHANGED <<machineVars, counter, batch, sockets_disabled, graceful_shutdown, srv_shutdown>>
Over == pc = "ended" /\ UNCHANGED vars

(* SIGINT: it only matters before the two places that look at the flag.    *)
Sigint ==
  /\ At("sockets") \/ At("graceful")
  /\ Sigints > 0 /\ ~graceful_shutdown /\ graceful_shutdown' = TRUE
  /\ UNCHANGED <<machineVars, pc, counter, batch, listening, sockets_disabled, srv_shutdown>>

Machine == \E c \in Cons : connection_state_machine(c) /\ UNCHANGED loopVars

MainStep ==
  \/ Second \/ SameSecond \/ Timeout \/ TimeoutsDone \/ Sockets \/ Graceful
  \/ FdWait \/ FdWaited \/ FdWaitDone \/ Poll
  \/ (\E e \in batch : HandleEvent(e)) \/ ServerEvent \/ connection_accept \/ AcceptDone \/ EventsDone
  \/ Job \/ JobsDone \/ LoopEnds \/ Machine

Next == MainStep \/ Sigint \/ Over

Spec == Init /\ [][Next]_vars

(* The clock advances; a client takes what is written in the end; a        *)
(* backend answers in the end, and fdevent_poll reports it.                *)
WriteEnds(c)     == MainStep /\ con[c].state = "write" /\ con[c].out /\ ~con'[c].out
BackendAnswers(c) == (\E e \in batch : HandleEvent(e)) /\ con'[c].hctx # con[c].hctx
BackendReported(c) == Poll /\ \E e \in batch' : e.fd = "backend" /\ e.con = c
Fairness ==
  /\ WF_vars(MainStep) /\ SF_vars(Second)
  /\ \A c \in Cons : SF_vars(WriteEnds(c)) /\ SF_vars(BackendAnswers(c)) /\ SF_vars(BackendReported(c))
FairSpec == Spec /\ Fairness

-----------------------------------------------------------------------------
Connection ==
  [state : {"connect", "req_start", "read", "req_end", "read_post", "handle", "resp_start",
            "write", "resp_end", "error", "close"},
   ndx : -1 .. Cardinality(Cons) - 1, open : BOOLEAN, events : {{}, {"in"}, {"out"}},
   readable : BOOLEAN, writable : BOOLEAN, rq : Seq({"part", "end"}), body : Nat, out : BOOLEAN,
   keep_alive : BOOLEAN, count : Nat, status : {"none", "decided", "refused"}, handler : BOOLEAN,
   mode : {"direct", "fastcgi"}, hctx : {"none", "nofd"} \cup Backend,
   reconnects : 0 .. Reconnects, started : BOOLEAN, finished : BOOLEAN, limited : BOOLEAN, age : Nat]

(* The type of every variable.                                             *)
TypeOK ==
  /\ con \in [Cons -> Connection] /\ ptr \in [0 .. Cardinality(Cons) - 1 -> Cons]
  /\ used \in 0 .. max_conns /\ {joblist, fdwaitqueue} \subseteq Seq(Cons)
  /\ cur_fds \in 0 .. max_fds /\ want_fds \in Nat /\ running \in Cons \cup {None}
  /\ pc \in {"top", "timeouts", "sockets", "graceful", "fdwait", "waited", "poll", "events",
            "accept", "joblist", "ended"}
  /\ counter \in Int /\ listening \in {"on", "off", "closed"}
  /\ {sockets_disabled, graceful_shutdown, srv_shutdown} \subseteq BOOLEAN
  /\ \A e \in batch : e.fd \in {"client", "backend", "server"} /\ e.con \in Cons \cup {None}

(* The array of connections survives accepting and closing in any order:   *)
(* no struct is lost or in it twice, those in use come first, and each of  *)
(* them knows its place (connection_del swaps the last one in).            *)
ConnsArray ==
  /\ \A i, j \in DOMAIN ptr : ptr[i] = ptr[j] => i = j
  /\ \A i \in DOMAIN ptr : IF i < used THEN con[ptr[i]].open /\ con[ptr[i]].ndx = i
                           ELSE ~con[ptr[i]].open /\ con[ptr[i]].ndx = -1

(* cur_fds counts the server socket, every client and every backend        *)
(* descriptor, and want_fds the connections in the fdwaitqueue, whatever   *)
(* order requests, reconnects, failures and time outs come in.             *)
FdAccounting ==
  /\ cur_fds = 1 + Cardinality({c \in Cons : con[c].open})
                 + Cardinality({c \in Cons : BackendFds(con[c]) = 1})
  /\ want_fds = Len(fdwaitqueue) + IF pc = "waited" THEN 1 ELSE 0

(* fdevent_get_handler never meets a descriptor that has been unregistered *)
(* since the poll (it would SEGFAULT): what the handler of one event does  *)
(* closes no descriptor with another event in the same batch.              *)
EventsHaveHandlers ==
  \A e \in batch : CASE e.fd = "client"  -> con[e.con].open
                     [] e.fd = "backend" -> BackendFds(con[e.con]) = 1
                     [] e.fd = "server"  -> listening # "closed"

(* When the loop is about to wait in fdevent_poll, every connection has    *)
(* something that will wake it: an event it asks for, an answer it waits   *)
(* for, a place in the fdwaitqueue, or the second that lifts its traffic   *)
(* limit; and nothing that it has received or could write is left lying.   *)
(* There is one exception: of an authorizer that approves after the answer *)
(* has begun, nothing is left to write, and nobody says so.                *)
Stranded(k) == authorizer /\ k.state = "write" /\ ~k.out /\ k.finished /\ k.mode = "direct"
NothingForgotten ==
  At("poll") => \A c \in Cons : LET k == con[c] IN
    IF ~k.open THEN k.events = {} ELSE
    /\ k.events = Waits(k)
    /\ \/ k.state = "read" /\ Headers(k.rq) = {}
       \/ k.state = "read_post" /\ k.rq = <<>> /\ k.body > 0
       \/ k.state = "handle" /\ (BackendFds(k) = 1 \/ \E i \in DOMAIN fdwaitqueue : fdwaitqueue[i] = c)
       \/ k.state = "write" /\ k.out /\ ~k.writable
       \/ k.state = "write" /\ ~k.out /\ ~k.finished /\ k.hctx = "reading"
       \/ Stranded(k)

(* A struct that the next client will be given is as new: of the client    *)
(* that had it, of its requests and of their backends nothing is left but  *)
(* traffic_limit_reached, which connection_reset does not clear and the    *)
(* loop lifts in the end, and a clock that is set before it is read.       *)
CleanSlate ==
  \A c \in Cons : ~con[c].open /\ running # c =>
    \A field \in DOMAIN Fresh \ {"limited", "age"} : con[c][field] = Fresh[field]

(* Each connection goes through the cycle of RequestCycle: in particular   *)
(* no request is answered a second time because its backend, its client or *)
(* the clock interferes while it is being answered. One that fails while   *)
(* its backend has not begun to answer may still be told so by the latter. *)
Hindered(k) == k.state = "error" /\ BackendFds(k) = 1 /\ ~k.started
Phase(k) ==
  CASE ~k.open -> "closed"
    [] k.open /\ k.state \in {"req_start", "read", "req_end", "read_post"} -> "receiving"
    [] k.open /\ k.state = "handle" -> "deciding"
    [] k.open /\ k.state \in {"resp_start", "write", "resp_end"} -> "answering"
    [] k.open /\ Hindered(k) -> "hindered"
    [] OTHER -> "failed"
Cycle == INSTANCE RequestCycle WITH phase <- [c \in Cons |-> Phase(con[c])]
ImplementsCycle == Cycle!Spec

(* Every connection that is accepted is closed in the end, after its last  *)
(* answer, a failure or a time out, or together with the server.           *)
ConnectionsEnd == \A c \in Cons : con[c].open ~> (~con[c].open \/ pc = "ended")

(* After SIGINT the server ends, however many clients are still there.     *)
GracefulEnds == graceful_shutdown ~> pc = "ended"
=============================================================================
