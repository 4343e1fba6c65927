----------------------------- MODULE LighttpdBase -----------------------------
(***************************************************************************)
(* What lighttpd's connection handling works on (base.h): the connection   *)
(* structs in the array srv->conns, the queues of connections, and the     *)
(* counters of file descriptors.                                           *)
(***************************************************************************)
EXTENDS Integers, Sequences, FiniteSets

CONSTANTS
  Cons,                \* the connection structs the array is allocated with
  None,
  max_conns,           \* srv->max_conns
  max_fds,             \* srv->max_fds, beyond which socket() and accept() fail
  Reserve,             \* the descriptors the fdwaitqueue leaves alone (16)
  FdsHigh, FdsLow,     \* 90% and 80% of max_fds
  ConnsLow,            \* 90% of max_conns
  max_read_idle, max_keep_alive_idle, max_write_idle,
  max_keep_alive_requests,
  kbytes_per_second,   \* whether a traffic limit is configured
  error_handler,       \* whether a handler for refused requests is configured
  HeaderLimit,         \* the packets an unfinished header may take (64 kB)
  Bodies,              \* bound: the packets the body of a request may take
  drops,               \* whether a backend drops connections after accept()
  authorizer,          \* whether a backend may be one that only authorizes
  Reconnects           \* how often a request is sent to another backend (5)

ASSUME ConsAssumption == IsFiniteSet(Cons) /\ None \notin Cons
ASSUME LimitAssumption ==
  /\ {max_conns, max_fds, Reserve, FdsHigh, FdsLow, ConnsLow} \subseteq Nat
  /\ max_conns <= Cardinality(Cons) /\ max_fds > 0 /\ FdsLow <= FdsHigh
  /\ {max_read_idle, max_keep_alive_idle, max_write_idle} \subseteq Nat
  /\ {max_keep_alive_requests, HeaderLimit, Reconnects} \subseteq Nat
  /\ Bodies \subseteq Nat /\ {kbytes_per_second, error_handler, drops, authorizer} \subseteq BOOLEAN

VARIABLES
  con,                 \* the connection structs
  ptr, used,           \* srv->conns
  joblist,             \* srv->joblist: connections whose machine is to run
  fdwaitqueue,         \* connections that wait for a free descriptor
  cur_fds, want_fds

arrayVars == <<ptr, used>>
queueVars == <<joblist, fdwaitqueue, want_fds>>
baseVars  == <<con, arrayVars, queueVars, cur_fds>>

-----------------------------------------------------------------------------
(* A connection struct. rq is what has been received and not parsed: a     *)
(* packet is the end of a header or a part of one, or any part of a body;  *)
(* body is what is missing of the latter. hctx is what mod_fastcgi keeps:  *)
(* its descriptor is open while it is "connecting", "writing" the request  *)
(* or "reading" the answer, and "nofd" has none. age is the seconds since  *)
(* read_idle_ts in a state that reads, and since write_request_ts in the   *)
(* state that writes.                                                      *)
Fresh ==
  [state |-> "connect", ndx |-> -1, open |-> FALSE, events |-> {},
   readable |-> TRUE, writable |-> TRUE, rq |-> <<>>, body |-> 0, out |-> FALSE,
   keep_alive |-> FALSE, count |-> 0, status |-> "none", handler |-> FALSE,
   mode |-> "direct", hctx |-> "none", reconnects |-> 0,
   started |-> FALSE, finished |-> FALSE, limited |-> FALSE, age |-> 0]

BaseInit ==
  /\ con = [c \in Cons |-> Fresh]
  /\ ptr \in [0 .. Cardinality(Cons) - 1 -> Cons]
  /\ \A c \in Cons : \E i \in DOMAIN ptr : ptr[i] = c
  /\ used = 0 /\ joblist = <<>> /\ fdwaitqueue = <<>>
  /\ cur_fds = 1 /\ want_fds = 0

(* connection_reset: a new request, or a new client, begins with this. The *)
(* read queue, keep_alive, the counters and the times survive it.          *)
connection_reset(k) ==
  [k EXCEPT !.readable = TRUE, !.writable = TRUE, !.out = FALSE, !.body = 0,
            !.status = "none", !.handler = FALSE, !.mode = "direct",
            !.started = FALSE, !.finished = FALSE]

(* The plugin is told of the end of a request and closes its descriptor.   *)
Backend == {"connecting", "writing", "reading"}
BackendFds(k) == IF k.hctx \in Backend THEN 1 ELSE 0
fcgi_connection_close(k) == [k EXCEPT !.hctx = "none", !.reconnects = 0]

Appended(c, n) == [i \in 1 .. n |-> c]
joblist_append(c, n) == joblist' = joblist \o Appended(c, n)

Last == used - 1

(* Mutant: the struct that is deleted is not put behind those in use.      *)
connection_delForgets(c) == ptr' = [ptr EXCEPT ![con[c].ndx] = ptr[Last]]

(* connections_get_new_connection gives out the struct behind the last one *)
(* in use; connection_del puts the last one in the place of its argument.  *)
NewConnection(k) == [connection_reset(k) EXCEPT !.ndx = used]
connection_del(c) ==
  ptr' = [ptr EXCEPT ![con[c].ndx] = ptr[Last], ![Last] = c]

(* The structs after c, now k, has been closed and deleted.                *)
Deleted(c, k) ==
  [[con EXCEPT ![ptr[Last]].ndx = con[c].ndx]
     EXCEPT ![c] = [k EXCEPT !.ndx = -1, !.open = FALSE, !.events = {}, !.state = "connect"]]
=============================================================================
