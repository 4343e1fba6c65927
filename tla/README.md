# Verification of hcyprojects

TLA+ models, TLC runs and TLAPS proofs for the programs of this repository. The repository is a
collection of independent programs; this development takes those whose logic is hardest to get right by
testing: **lighttpd** (`src/vimprojects/lighttpd-1.4.20`, an annotated copy of the web server), its
connections, its main loop and its FastCGI gateway; **MTTransfer** (`src/MTTransfer`), a multi-threaded
file transfer over TCP; and two exercises of the operating systems course, **memory** and **file system**
(`src/vimprojects/homeworks/os/OS3_memory.cpp` and `OS4_fs.cpp`).

1. [Inventory](#1-inventory)
2. [Modules and code](#2-modules-and-code)
3. [Runs](#3-runs)
4. [Bounds](#4-bounds)
5. [Fairness](#5-fairness)
6. [Proofs](#6-proofs)
7. [Where the code and its comments disagree](#7-where-the-code-and-its-comments-disagree)
8. [Modelling decisions](#8-modelling-decisions)
9. [What is not modelled](#9-what-is-not-modelled)
10. [Plan](#10-plan)

## 1. Inventory

### MTTransfer

| part | state it keeps | operations | talks to |
|---|---|---|---|
| `server/MainAcceptThread` | the server socket, `isshutdown`, where the current handshake is | `acceptConnection` (one loop, one connection at a time), `stop` | every client, over the queue of the server socket; starts a thread per request |
| `server/FileLengthFeedBackThread` | its socket | reads a name, writes the length, waits for a confirmation | `MClientMain` |
| `server/SendBackFileList` | its socket | reads a directory, writes its names | `GetFilelist` |
| `server/TransferThreadServer` | the file stream, a buffer, `totalLen`, `len` | `run`: skip to the segment, copy it | `TransferThreadClient` |
| `client/MClientMain` | file length, array of threads, `done` | `connect`, `receiveDataFromServer`, the inner thread `Acks` | starts the transfer threads, joins `Acks` |
| `client/TransferThreadClient` | its socket, its `RandomAccessFile` | handshake of four messages, then receive and write | its `TransferThreadServer`, the common destination file |
| `client/GetFilelist` | its socket | asks for a list | the acceptor, `SendBackFileList` |
| `client/ClientGUI`, `server/ServerGUI`, `ServerCLI` | `isTransferring`, `transfer`, `server` | buttons and a progress thread | start and stop the above |

What is hard about it: one acceptor thread serves the handshakes of all connections one after the other,
by reads that have no framing other than the client's waiting; every transfer thread writes the same file;
threads end in any order, some by an exception; the connection may break, the server may be stopped and
the client closed at any point; and the copy loop of the sender reads one buffer ahead of its own count.

Correct means: the bytes that reach the destination file are those of the file, at their place; the
segments cover the file once; success is reported when the transfer is over; a thread that ends leaves
nothing open that another waits for; the acceptor survives its clients and ends with `stop()`.

### lighttpd

| part | state it keeps | operations | talks to |
|---|---|---|---|
| `connections.c` | a struct per connection: state, socket, read and write queues, keep-alive, counters, times; the array `srv->conns` | `connection_state_machine`, `connection_accept`, `connection_close`, the handler of a socket's events | calls plugins; called by the main loop from five places |
| `server.c` | the flags of signals, `sockets_disabled`, `cur_fds`, `want_fds` | the main loop: time outs, limits, graceful shutdown, the queue for descriptors, poll, events, joblist | everything |
| `joblist.c` | `joblist`, `fdwaitqueue` | append, take the first | connections and plugins append, the main loop takes |
| `network.c`, `fdevent.c` | the table of handlers by descriptor | accept, write with traffic limits, register and poll | main loop |
| `response.c` | | `http_response_prepare`: decides who answers a request | state machine, plugins |
| `mod_fastcgi.c` | a context per request: its descriptor, its state, the attempts | connect, write, read, reconnect, give up, and the handler of its events | state machine, joblist |

What is hard about it: one thread serves all connections by callbacks, and a connection may be moved on by
the clock, by an event of its client, by one of its backend, by the joblist or by the queue for
descriptors, in any order; closing one moves another within the array that is being looped over; an event
of a batch may belong to a descriptor that an earlier event of the batch has closed; descriptors are
counted by hand in two files; structs are used again; and whoever forgets to ask for an event or to append
to the joblist leaves a client waiting.

Correct means: the array holds each struct once and the open ones first; descriptors are counted exactly; events
find their handler; a struct is given to a client as new; requests and answers alternate; no connection is
forgotten; all of them, and the server, end.

### The file system exercise

`OS4_fs.cpp` keeps a file system in static tables, written to `./fsdata` as a whole: bitmaps of directory
entries, inodes and blocks, the table of directories with up to 128 slots each, the inodes, and one open
file with a copy of its inode in memory. It is sequential; what is hard is that the same relation stands in
several places (slot, inode, table of directories), that slots move up when one is removed and keep what
they held, and that entries are used again: an error shows only after several commands. Correct means: the
places agree, nothing has two owners, and a command changes what it names and nothing else.

### The memory exercise

`OS3_memory.cpp` keeps a table of pages and a table of frames, draws a random sequence of page uses and
simulates FIFO, LRU, NUR and OPT on it, each in a function that finds the frame in its own way: a circular
queue, ages, flags cleared once a period, distances to the next use. Correct means: the two tables always
describe one mapping, each algorithm throws out a page that its policy allows, and OPT is the best. It is
sequential: what is hard is the arithmetic of the counters over long sequences.

### Other parts

| part | what it is | here |
|---|---|---|
| `src/vimprojects/homeworks/os/OS2_process.cpp` | signals and a locked pipe between parent and children | not modelled: two short exercises |
| `src/socket` | an older copy of MTTransfer and UDP/TCP exercises | not modelled: the same classes |
| `src/vimprojects/glftp/ftp` | an FTP client around ftplib | not modelled |
| AlgHomeWorks | sorting, knapsack and similar exercises | not modelled: sequential functions |
| compilers, JavaTest, MMX, scripts, codingPractice, DataMiningP3, apue, breakout, spreadsheet, showfileinclude, vimprojects/test | exercises and textbook code | not modelled; the reason for each is with the component list in `PROJECT.json` |
| the rest of lighttpd (other modules, buffers, request parsing) | vendored | not modelled |
| ftplib, tinyxml, PalmOS, uC/OS-II | vendored | not modelled |

The hazards of this code, each at its line, are listed in `PROJECT.json` with the properties that cover
them.

## 2. Modules and code

```
SegmentStream  <= TransferThreadServer               one sender (abstract <= detailed)
MClientMain    <- DownloadPlan                       one client, any environment
Connections    <- FileServer  <- MTTransfer          the whole system
MClientMain, Connections <- FileClient <- MTTransfer
FileCopy       <= MTTransfer                         (abstract <= detailed)
LighttpdBase   <- LighttpdConnections <- LighttpdServer    structs, state machine, main loop
LighttpdServer <- LighttpdServerProofs <- LighttpdWaitProofs   its theorems; those about waiting
RequestCycle   <= LighttpdServer                     (abstract <= detailed)
DemandPaging   <= OS3_memory                         (abstract <= detailed)
OS4_fs         <- OS4_fsPaths <- OS4_fsProofs        on its own; lemmas on its operators; theorems
```

`A <- B`: B extends A. `A <= B`: B is checked, or proved, to implement A. A module whose name ends in
`Proofs` holds the theorems of the module before it; one that begins with `MC` holds the values for TLC.

### TransferThreadServer, SegmentStream

`TransferThreadServer.run()` whole. `pc` says where it is: `open` (open and skip), `first` (the first read,
and the whole of a segment shorter than the buffer), `loop`, `rest` (what is left after the loop), then
`closed`, `aborted` (an exception, everything closed) or `leaked` (an exception in the `finally` block,
nothing closed). `len`, `totalLen` and `buffer` are the code's variables; `pos` is the position of the
stream; `sent` is what was written. A byte is identified by its position in the file.

`SegmentStream` is the promise to the receiver: what is written is at any time a beginning of the segment,
and all of it when the sender ends normally.

### MClientMain, DownloadPlan

`connect()` from the answer about the length on: the split into segments with its locals `tempstart`,
`remainLen`, `i`; the array `threads` (`allocated`, and the set of slots that hold a thread); `Acks`, which
looks at one slot per step. The single thread for a short file is kept in no slot of the array, as in the
code. `MClientMain` leaves open what the transfer threads do. `DownloadPlan` closes it with an environment
that answers any length and ends threads in any order and either way; `FileClient` closes it with the real
threads.

### Connections, FileServer, FileClient, MTTransfer, FileCopy

`Connections` is external code: `java.net.Socket` as `src/` uses it. It has the queue of the server socket
and, for each connection, two ends and two streams of messages. A read takes any number of messages up to
the buffer, but at most what is there. With `Coalesce` a read may take a text of the protocol together with
what follows it, as TCP allows; without, the texts arrive in reads of their own.

`FileServer` is the acceptor (`accepting`: which of its reads it is in; `conn`; `startPos`) and the worker
of each connection. `FileClient` is `MClientMain` with its own connection (`asking`), the transfer threads
(`transfer`, `filePointer`), the destination file `dest`, and another user's `GetFilelist` (`listing`).
`MTTransfer` composes them: the next-state relation interleaves all threads with the user (`Stop`, `Quit`,
`StartListing`) and the network (`ConnectionLost`).

`FileCopy` is the promise to the user: the destination only ever holds bytes of the file at their places,
and a download that is complete has all of them. The refinement mapping takes a download as complete when
`connect()` has returned, no thread runs, and none of those started has failed.

### LighttpdBase, LighttpdConnections, LighttpdServer, RequestCycle

`LighttpdBase` has what the files share: a connection struct `con[c]`, the array (`ptr`, `used`), the
queues and the counters, `connection_reset`, `connection_del`, `fcgi_connection_close`. The fields that
the control looks at are kept: `state`, `ndx`, `readable`, `writable`, `keep_alive`, `count`
(`request_count`), `mode`, `started`, `finished` (`file_started`, `file_finished`). `rq` is the read queue,
as packets that end a header (or are anything of a body) or do not; `out` says whether the write queue
holds something; `status` whether `http_status` is set, and by a refusal; `hctx` is mod_fastcgi's context;
`age` stands for the two time stamps; `events` is what the socket is registered for.

`LighttpdConnections` has an action for each case of the switch in `connection_state_machine`. A case is
one step, with all it calls: a read of any number of packets, a write of all or a part, the plugin's
answer. `running` is the connection whose machine runs; it stays so until the state no longer changes, and
then the events of its socket are set (`Leaves`). `handle_subrequest` is
`mod_fastcgi_handle_subrequest` with `fcgi_write_request` under it; it returns what becomes of the
connection, of `cur_fds` and of the joblist. A backend may be an authorizer (`authorizer`;
`mod_fastcgi.c:3271`, `3379`, `4141`): when it approves, its context is closed, the mode is `DIRECT` again
and `http_response_prepare` decides the request once more, without the plugin.

`LighttpdServer` is the main loop: `pc` is the place in it, `counter` the local variable of the loop that
`pc` is in, `batch` the events of the last poll that are still to be handled. `Next` interleaves nothing
but the signal: what is nondeterministic is what the kernel, the clients, the backends and the clock do.

`RequestCycle` is the promise to a client: `closed`, `receiving`, `deciding`, `answering`, and again, or
`failed`; a request is not decided, nor answered, twice. There is one way back: a connection is `hindered`
when its client's event has set it to `ERROR` while its backend has sent nothing yet; if the backend dies
in the same batch, `fcgi_handle_fdevent` sets the state to `HANDLE_REQUEST` once more (`Apologises`). From
`failed`, which is where a connection gets after its answer has begun, there is no way but to be closed.

### OS4_fs

One action per command, `find` as a recursive function over the slots. A path is a sequence of names. The
inode in memory is `t_fp`; `direct_addr` has as many entries as have been set, and for a directory its
place in the table first, as in the code. `Restart` is `halt` and a start with `read_fs`: everything is
written and read back, but for the current directory. The session is a careful one (see the head of the
module): names are new, a file is closed before another is opened.

### OS3_memory, DemandPaging

One step is one turn of an algorithm's loop; the algorithms run in the order of `run()`, with
`clear_memory()` in between. The boolean fields of `struct Page` and `struct Frame` are sets
(`is_in_memory`, `is_free`, `has_used`), the others functions. `loadedAt` is a history variable.
`c_distance` is computed anew before each use, so the operator `Distance` stands for it.

`DemandPaging` has no tables: a set of resident pages and, for each algorithm, the set `Victims` of the
pages it may throw out, defined on the sequence of instructions (first loaded; least recently used; not
used since the period began; needed last).

## 3. Runs

| run | asks | states |
|---|---|---|
| `transfer_long` | does a sender of a segment of at least a buffer implement `SegmentStream`, and send the exact length? | 1,080 |
| `transfer_any` | for every request, short ones and shrunk files included: is a segment that the file still holds delivered, and does the loop keep `LoopInvariant`? | 3,530 |
| `plan_any` | do the segments partition the file, is `done` never early, does success of a split download mean that all threads are over, does `connect()` return? | 2,299 |
| `mt_lost` | with broken connections, `stop()`, a closed client and a competing list request: does the system implement `FileCopy`, is every message of a handshake read at its step, does the acceptor die only of a client that left? | 2,684,000 |
| `mt_live` | with failing reads and `stop()`: is the list request answered, does `connect()` return, does the acceptor end after `stop()`? | 219,770 |
| `lighty` | two clients and few descriptors: do the array, the descriptor counts and the events of a batch stay in order? | 4,085,544 |
| `lighty_one` | one struct for several clients in turn, with bodies, pipelining, an error handler, authorizers and traffic limits: is a connection ever forgotten, is the struct of the next client as new, and does the server implement `RequestCycle`? | 874,031 |
| `lighty_live` | does every connection end, and the server after SIGINT? | 240,890 |
| `fs` | do slots, inodes, table and blocks stay consistent, and does a command change only what it names? | 284,689 |
| `memory` | do the four algorithms implement `DemandPaging`, with exact ages, flags and queue, and is OPT the best? | 540,672 |

Two runs expect a violation (section 7): `mt_coalesce` and `fs_mixed`.

Deadlock is checked in the runs of `TransferThreadServer`, `DownloadPlan` and `LighttpdServer`, whose ends
are marked by an explicit stuttering action, and in those of `OS4_fs`, which never ends. It is not in those of `MTTransfer`, where the server may have been stopped and
the client have ended, nor in that of `OS3_memory`, which ends. In `MTTransfer` the liveness properties say
instead that nobody waits for ever.

The mutants (comment "Mutant:" in the modules) are plausible errors in the code; each property is
violated by one.

## 4. Bounds

- `TransferThreadServer`: a buffer of 3 bytes, files up to 7 or 10, segments up to 8 or 10, every start.
  This covers segments shorter than a buffer, of exactly one, two and three buffers and one byte on
  either side, at every offset, ending before, at and after the end of the file. The proofs remove the bounds.
- `DownloadPlan`: 3 threads, threshold 4, lengths 0 to 9 and "does not exist": fewer bytes than threads
  cannot be split (the threshold), all remainders occur. The proofs remove the bounds of the safety
  properties.
- `MTTransfer`: 2 transfer threads, one list request and the main connection; buffer of 2 bytes;
  files missing, of 2 bytes (not split) and of 4 (split); a queue of one connection, so that connecting
  threads really wait for each other; one broken connection (`MaxLost`), at any moment. With two transfer
  threads there are two writers of the file, two handshakes to confuse, and a third and fourth connection
  competing for the acceptor. `mt_live` uses the file that is split and no broken connection, because
  the state graph is searched for cycles; failing reads on the server take the place of lost ones.
  `StartListing`, `Stop` and `Quit` happen at most once. The proofs remove the bounds of the safety properties
  and of the refinement.
- `LighttpdServer`: `lighty` has 2 connections, so that the one that is closed is not always the last; 4
  descriptors, so that the second request has to wait for one; one reconnect. `lighty_one` has one
  connection with the features that do not need a second: bodies of two packets, headers of up to two
  packets, two pipelined requests, keep-alive ending after two requests, traffic limits, an error
  handler, and up to two clients accepted for one event, who get the same struct one after the other.
  `lighty_live` leaves out the error handler and reconnects, because the graph is searched for
  cycles; there one connection with a backend is enough to disable the sockets for want of descriptors
  (`FdsHigh` 2), so that SIGINT also comes while they are. Backends may be authorizers in all three. All idle limits are 0 seconds, so that a time out comes with the first second. `Reserve` is 16 in
  the code and 0 or 1 here, in proportion to the descriptors. Clients send at most two requests in one
  read; the read queue stays bounded because only a state that reads takes packets. The proofs remove the
  bounds of the safety properties and of the refinement.
- `OS4_fs`: 2 names and paths of 2, words of 2 bits; three words of inodes, six of the table of
  directories and one of blocks. A directory removed and made again in the slot of another needs no more;
  inodes run out (`rmdir_t` never gives one back), and so do blocks, which no command gives back. Places
  in the table of directories do not: as in the code (1024 and 2048), there are fewer inodes than places.
  The proofs remove the bounds on the sizes, for directories that do not hold both files and directories.
  They do not remove `Room`, which is part of the specification and so of what is proved. `mkdir_t` and
  `create_f` check nothing of it: a directory has fewer than `DIR_INCLUDE_NUM` slots in use (the code
  would write past them, `OS4_fs.cpp:597`, `797`), the path is shorter than `Depth` (any number in the
  proofs), and an inode is left outside the first word, whose first one is the root's and not marked as
  taken (section 7). So the theorems do not speak of a session that overfills a directory, nor of
  `mkdir_t` without an inode (`OS4_fs.cpp:583`, section 7).
- `OS3_memory`: 4 pages, 3 frames, 7 instructions, a period of 3: the memory fills, a page is evicted and
  comes back, the queue wraps around, two periods end. All 4^7 sequences are checked. The proofs
  remove the bounds.

## 5. Fairness

Weak fairness for each thread of the program: every Java thread that can run runs. `TransferThreadServer`
has it for its own steps; `DownloadPlan` for `connect()`, `Acks`, the answer of the server and the end of
each transfer thread (in `MTTransfer` these are no longer assumed: the answer and the ends come from the
other threads); `MTTransfer` for the acceptor, each worker, `connect()`, `Acks`, the main connection, each
transfer thread and `GetFilelist`. No fairness is assumed of users (`StartListing`, `Quit`, `Stop`) or of
the network (`ConnectionLost`). `OS3_memory` and `OS4_fs` state only safety.

`LighttpdServer` has weak fairness of the main loop, which is one thread that never blocks for longer than
a second (`fdevent_poll(srv->ev, 1000)`), and strong fairness of what the loop meets again and again: the
clock moves on (`Second`); a client that is written to takes it in the end (`WriteEnds`); a backend that
has a request answers in the end, and the poll reports it (`BackendAnswers`, `BackendReported`). The first
is time; the second could be left to `max_write_idle`, but not for a client that takes a byte now and then,
which the code serves for ever; the third is needed because lighttpd 1.4.20 has no time out for a backend:
a connection in state `HANDLE_REQUEST` waits for ever for one that is silent. Nothing is assumed of the
arrival of requests or of the signal.

No strong fairness is needed in `MTTransfer`: the acceptor takes connections in the order of the queue, and a thread that
waits for room in the queue is modelled as retrying while the queue moves on; with a bounded number of
connections it is not overtaken for ever.

## 6. Proofs

All theorems are about every value of the constants that satisfies the named assumptions of the module
(`BufferSizeAssumption`, `RequestsAssumption`, `NumberOfThreadsAssumption`, `MultiThresholdAssumption`,
`FileLengthsAssumption`, `ConnectionsAssumption`, `FileServerAssumption`, `FileClientAssumption`,
`MemoryAssumption`, `ConsAssumption`, `LimitAssumption`, `LoopAssumption`, `SizeAssumption`,
`NoneAssumption`).

**MTTransferProofs.** Two inductive invariants, the second on top of the first.

- `ProtocolInvariant` gives `TypeCorrect` (`TypeOK`), `HandshakeCorrect` (`HandshakeInStep`) and
  `AcceptorCorrect` (`AcceptorDiesOfQuit`), without any assumption on breaks, quits, failing reads or
  coalesced ones. `HandshakeInStep` is not inductive: it speaks of the message that waits, and what may be
  written next depends on where the thread, the acceptor and the worker of the connection are. `Stage(t)`
  lists these places together: at most one message is under way until the connection is handed to a
  `TransferThreadServer`, so that no read before that can return two of them, `Coalesce` or not. A
  connection that broke is empty and stays so (`EndsInvariant`); that it is the worker's or the acceptor's,
  never both, is `WorkerInvariant`. `AcceptorDiesOfQuit` holds because a client that has not quit closes
  its end only after the server has (`EndsInvariant`). The client is an instance of `DownloadPlan`: what
  `DownloadPlanProofs` shows of it is cited, its environment being the real threads (`PlanKept`).
- `CopyInvariant` gives `DestCorrect` (`DestIsFile`) and `CopyCorrect`: `MTTransfer` implements `FileCopy`.
  `Flow(t)` says that what is on the connection and in the server's buffers is, in order, what thread `t`
  has still to write, up to the end of its segment; it is empty when the server has closed. So a thread
  that takes the end of the stream for the end of its segment is right. Together with `PlanInvariant` (the
  segments cover the file) a download without a failed thread has every byte. Both theorems assume
  `~Coalesce`, `~ReadErrors` and `[]NoShortSegment` (no started thread is asked for less than a buffer, or
  the file is empty); section 7 says what the code does without each.

**LighttpdServerProofs.** `ArrayHolds` (`ConnsArray`), `DescriptorsCounted` (`FdAccounting`),
`HandlersFound` (`EventsHaveHandlers`), `SlateClean` (`CleanSlate`), and `Refinement`: `LighttpdServer`
implements `RequestCycle`. All follow from one inductive invariant, `IInv`, since they need each other: that a descriptor is closed once depends on what is left in
the struct, and that an event finds its handler on who may close what while events are handled. It adds:

- `Struct`: what each state means for a struct. Without a client it is in state `CONNECT`, waits for
  nothing and is clean (`Clean`: every field that a request or its backend sets is as new); on its way to be
  closed it is clean already; before a request has been read it has no backend; and while an answer may be
  sent the backend only reads on (`Done`). The last is what the refinement needs: no handler of an event takes a
  connection from answering back to deciding.
- `Emptied`: a struct without a client, which the machine has left, has an empty read queue and counts no
  request. It holds
  because `connection_close` sets the state to `CONNECT`, so that the machine goes around once more.
- `Control`, `Batch`: events are only left where they are handled or clients accepted, no two are of the
  same descriptor, and none is of the connection whose machine runs. That is why `connection_accept` may
  run a machine, which may close, with events left in the batch, and `connection_handle_fdevent` may not.

`Others` and `Counted` say how a step on one connection leaves the rest and changes the counters; each
action is shown to have this `Effect`, and `StepOn` does the rest once for all of them. The cardinalities
in `FdAccounting` change by one because a single struct does (`FdsCounted`). `OneTurn` gives the refinement:
every step leaves the phases alone or changes that of one connection as `RequestCycle` allows.

**LighttpdWaitProofs.** `TypeCorrect` (`TypeOK`) and, for `~drops`, `NobodyForgotten`
(`NothingForgotten`). Both rest on `IInv` and on what each function of `connections.c` and
`mod_fastcgi.c` returns.

- `Fine` is the type of a struct with what its fields have to do with each other (`Sound`): for example, a
  response that is being written has an end and something to send, or a backend that is read from. The
  types alone are not inductive: the field `body` is a natural number because of what the parser takes
  from it, and `reconnects` is bounded because a backend is only tried again below the limit.
- `NothingForgotten` speaks of the moment before the poll and is not inductive. `Served` says what holds at
  every other: a connection's machine runs, or it has a job that this turn will work off, or it `Rests`,
  that is, it asks for what its state `Waits` for and something will wake it. When a machine stops, its
  connection rests (`StepFor`). `connection_handle_fdevent` puts each connection into the joblist,
  whatever it has done to it; `fcgi_handle_fdevent` does too, or leaves a request that waits for the
  same backend (`AnswersFine`). The joblist is empty when the loop goes back to its top, so that at the
  poll only resting connections are left.
- `~drops` is needed where `AnswersFine` says so: a connection to a backend that is made anew from an
  event handler gets no job and no place in the `fdwaitqueue` (section 7). `lighty_one`, which has `drops`
  FALSE, is the run of the property; the types hold in both cases.

**TransferThreadServerProofs.** `TypeCorrect`, `LoopCorrect`, `DeliveryCorrect`, `LongSegmentsExact`,
`LongSegmentsImplementStream`. The inductive invariant is `LoopInvariant` with the types: at the head of
the loop the buffer holds the last `len` of the `totalLen` bytes read, and all before them is sent. It is
stated for files that hold the whole segment; a shrunk file breaks it, which is why delivery is promised
only for the others. That exactly the segment is sent needs the further assumption that no request is
shorter than the buffer, and is false without (section 7).

**DownloadPlanProofs.** `TypeCorrect`, `SplitCorrect` (`EachByteOnce`), `DoneCorrect`,
`PlanInvariantCorrect`, `SplitSuccessCorrect`. `EachByteOnce` speaks of the moment when all threads are
started and is not inductive. `PlanInvariant` says what holds before: the threads started so far cover the
bytes before `tempstart` once, and `tempstart + remainLen` is the length. For `Acks`, it says that a slot
already passed in a round without a living thread cannot get one, since by then all threads are started.

**OS3_memoryProofs.** `TypeCorrect`, `TablesCorrect`, `QueueCorrect`, `AgesCorrect`, `UsesCorrect`,
`PagingCorrect`, the refinement of `DemandPaging`, and `OPTCorrect` (`OPTIsBest`). The inductive invariant `MemoryInvariant` adds to the
properties that in FIFO the queue and the table of frames hold the same pages at the same indices
(`FIFOShape`: both are filled from 0 on, and the head stands at the frame that is replaced), and that free
frames have no age. The refinement then needs, for each algorithm, that the frame found by its loop holds
one of the `Victims`: `FIFOVictim`, `LRUVictim`, `NURVictim`, `OPTVictim`. The maxima and minima that the
loops compute exist because sets of naturals have least elements (`FirstIsLeast`, `GreatestExists`).

That OPT is never worse is shown on the steps of `DemandPaging`, without exchanging choices, which would
be an induction over schedules. `BestInvariant` says that what an algorithm did so far is a schedule (the
memory before each instruction, from empty on, with the page just used in it and nothing else new), and
that OPT is `Ahead` of every schedule there is: for every later instruction x, OPT's faults plus the pages
needed up to x in the schedule's memory are at most the schedule's faults plus such pages in OPT's memory.
The lemma `Compare` is one use of a page: if OPT throws out a page needed up to x, then by its choice all
its pages are, so it keeps at least as many as any other memory can hold beside the page just used. At the
end nothing is needed, and only the faults are left. Both halves are one invariant because FIFO, LRU and
NUR have finished before OPT begins.

**OS4_fsPaths, OS4_fsProofs.** `TypeCorrect`, `EntriesCorrect` (`EntriesAgree`), `PathCorrect`
(`PathIsHere`), `NamesCorrect` (`OneName`), `BlocksCorrect` (`BlocksOwned`) and `CommandsCorrect`
(`CommandsKept`), each for `~Mixed`: no directory holds both files and directories. That hypothesis is
needed: run `fs_mixed` has the counterexample to `CommandsKept` without it (section 7).

- The properties speak of what `find` reaches, and none of them is inductive. The inductive invariant
  `IInv` speaks of all directories in use instead (`Taken`), found or not, because `rmdir_t` leaves behind
  what is below the directory it removes. `TreeInv`: those directories form a forest by their slots and
  parents, no two slots have one inode, and going up ends at the root or at a place that was given up.
  `NodeInv`: which bits are set, and what an inode says of its file or directory (`OwnInode`).
  `BlocksOnce` and `Here` are the rest of what the properties need.
- The root's place in the table, 0, is not marked as taken. `mkdir_t` does not get it as long as an inode
  is left, because there are fewer inodes than places and each directory has one of its own: this is where
  `IMAP_SIZE < DMAP_SIZE` is used.
- `OS4_fsPaths` shows that the recursive functions in `find`, `PathName` and `Allocated` exist, and what
  they return one step at a time. What holds of paths of every length is shown by the shortest path of
  which it would not hold. `PathsGrow` and `PathsShrink` say which paths exist when a slot is added or
  removed, and `TreeGrows` and `TreeShrinks` what that makes of the tree; every command that changes the
  table is one of the two.

**Only model-checked:** the liveness properties (`ConnectReturns`, `ListerAnswered`, `StopEndsAcceptor`,
`ConnectionsEnd`, `GracefulEnds`), which are beyond this prover.

## 7. Where the code and its comments disagree

Two disagreements have a run; their comments are quoted in `PROJECT.json`.

| run | what happens | where |
|---|---|---|
| `mt_coalesce` | the read that waits for the last acknowledgement throws away the data that came with it; the rest is written at the wrong place | `TransferThreadClient.java:215` |
| `fs_mixed` | `create_f` leaves the old id of a directory in its slot, and `rmdir_t`, which looks for the id, removes the file's entry in place of the directory's | `OS4_fs.cpp:676`, `797` |

Others were met while modelling and have no run of their own.

- `TransferThreadServer.java:75`: a segment shorter than the buffer is sent with one byte too many
  (`ExactLength` is proved for the others).
- `TransferThreadServer.java:130`: for a file that is gone the `finally` block throws first, and the socket
  stays open (state `leaked`).
- `MClientMain.java:320`: for a file of at most 10240 bytes `Acks` dies at once and `connect()` reports
  success while the transfer runs. `SplitSuccessMeansStopped` is the part of `SuccessMeansStopped` that is
  true.
- `GetFilelist.java:107`: when request and directory are read together (`Coalesce`), the request is not
  recognised and its user waits for ever.
- `TransferThreadClient.java:228`: a server that cannot read the file closes the connection
  (`ReadErrors`), and the client takes the end of the stream for the end of the segment.
- `OS3_memory.cpp:16` says of `frame_id` that -1 means "not in memory"; only FIFO resets it (line 201), the
  other three leave the old number. Nothing reads it: `FramesMatchPages` holds because it asks
  `is_in_memory` first.
- lighttpd, `mod_fastcgi.c:3882`: when a backend drops the connection after `accept()` and this is noticed
  in an event handler, `WAIT_FOR_FD` goes to the main loop, which ignores it, and nothing is appended to
  the joblist: the request waits for an event of its client. `NothingForgotten` fails with `drops`, and
  the run has it FALSE.
- lighttpd, `connections.c:899`: `connection_reset` does not clear `traffic_limit_reached`, nor do
  `connection_close` and `connection_accept`. A client that is given the struct of one whose limit was
  reached inherits the mark: as soon as its socket is full, its descriptor is not polled
  (`connections.c:2244`), until the loop finds its average low enough (`server.c:1759`). `CleanSlate` is
  about all other fields (`age` apart, which is set before it is read).
- lighttpd, `mod_fastcgi.c:4143`, "We need now to handle authorized request": with an explicit status 200
  the request is taken for decided (`mod_staticfile.c:485`), and the answer is empty.
- lighttpd, `mod_fastcgi.c:3379`: when an authorizer's answer is already being written (after `X-Sendfile`,
  or when the lifting of a traffic limit has run the machine meanwhile), its approval ends the request
  without an end of the chunks: nothing is left to write, and nobody moves the connection on but the write time-out
  (`Stranded`, the exception in `NothingForgotten`). `ConnectionsEnd` holds all the same.
- `MainAcceptThread.java:67`: a client that leaves during its handshake makes `read` return -1 and
  `new String` throw what no `catch` takes; the only accepting thread ends, with the server socket open.
  `AcceptorDiesOfQuit` says that nothing else ends it so.
- `MClientMain.java:322`: a transfer thread that dies of an exception is not alive like one that has
  ended, and `connect()` reports success. `FileCopy` takes the status of the threads, not that result.
- lighttpd, `server.c:1877`, "ready to terminate without harming anyone": a SIGINT between the check that
  closes the sockets and this one ends the loop one turn later, with the clients accepted in between.
- lighttpd, `joblist.c:13`: `in_joblist`, which is to prevent a connection from being appended twice
  (the comment of that line), is never set to anything but 0; the joblist holds duplicates, which the
  machine bears.
- lighttpd, `connections.c:2205`: the lingering close of a keep-alive connection is void, because
  `keep_alive` is cleared right after the state is set, and `CLOSE` looks at it.
- lighttpd, `server.c:1676`: a time out that closes its connection moves the last one to its place, and
  the loop goes on with the next index: the moved connection is looked at a second later. With sockets
  disabled for want of descriptors a graceful shutdown does not close them until the end.
- `OS4_fs.cpp:312`: `format_fs` marks the first bit of the last word as taken, but the root has inode and
  directory 0, the first bit of the first word: when all others are taken, 0 is given out again. `find`
  takes inode 0 for "no such file".
- `OS4_fs.cpp:587`: without a free inode `mkdir_t` frees `s_id` before it is set. `rmdir_t` frees neither
  the inode nor what the directory contains (`fs.h:39` warns that it does), `delete_f` no blocks
  (line 873 announces it).
- `OS4_fs.cpp:1512`: `str_cpy` ends what it copies with a 0 one place too late; for a full block that is
  `des[17]` of the 16 bytes of `tmp_buffer` in `write_f` (line 994). It is below what the model keeps of data.
- `OS4_fs.cpp:1024`: `write_f` stops when `length - 1` bytes are written: the last byte of 17, 33, ... is lost.

The passing runs are not made to pass by hiding these: `mt_lost` and `mt_live` assume what the protocol
itself relies on, that a read returns one text at a time (`Coalesce = FALSE`) and segments of at least a
buffer, and `mt_lost` that the server can read its file; `lighty_one` and `lighty_live` that backends do
not drop connections (`lighty` has them); `fs` that a directory holds only files or only directories.

## 8. Modelling decisions

- Texts of the protocol are short and written at once: they arrive whole. File data is split anywhere.
- `isshutdown` is true exactly when the server socket is closed: `stop()` is one step, and the acceptor
  looks at both in one place.
- A client step that reads an acknowledgement and writes the next message is one step: nobody else uses
  its connection.
- A broken connection loses what is under way, and both ends find out at their next call. A closed one
  delivers first what was written (FIN).
- A full queue makes a client wait; the operating system retries for it.
- A request that the acceptor does not know is not answered and its connection is left open, as in the code.
- The destination starts empty: `receiveDataFromServer` deletes an old file.
- In `MTTransfer` the file does not change; files that shrink are in `TransferThreadServer`, and in
  `ReadErrors`. There a worker's segment is what that module sends (`SegmentBytes`), first byte twice
  included when the segment is short.
- `GetFilelist` is another user's client: `Quit` does not close it.
- `ClientGUI` lets the user ask for 0 threads: `BeginSplit` then throws (division by zero).
- lighttpd runs with one worker, without SSL, and with a level-triggered poll. The kernel reports for a
  descriptor any event asked for, or HUP; a read may find nothing although it was reported.
- The machine of a connection is run to its end in several steps, during which nothing else happens:
  the steps are the cases of the switch, so that the refinement sees them.
- Traffic limits: that a limit is reached is a choice at each write, and that the average has fallen one
  at each second, since both depend on bytes.
- SIGINT comes once, and where it makes a difference; a second one and SIGTERM end the loop at once.
- A backend descriptor is "any" event: which of IN, OUT and HUP is reported, and in what order, only
  decides which of the outcomes of `fcgi_handle_fdevent` comes about.
- Failing `fcntl` after `accept` is left out: the connection would stay in `REQUEST_START`, counted and
  never served (`connections.c:1676`).
- OS4_fs: data is not below the block, and `write_f` is modelled up to the direct blocks. Rights play no part: all
  nodes get 75.
- Pages, frames, instructions and the period are constants of the C++ program; `INFINITE` is 65535, and
  `MemoryAssumption` asks that it be more than the number of instructions, as it is.

## 9. What is not modelled

MTTransfer: the user interfaces, logging, the text of file lists and of numbers, `available()` and
time-outs (the code sets none), and the performance of anything. lighttpd: SSL, several workers, SIGHUP and
the logs, the parsing of the configuration, the contents of requests and answers, modules other than mod_fastcgi, and within
that the processes of the backends, their load and respawning, which are choices of the environment.
`OS4_fs`: reading, the indirect blocks (whose loops mix data and index blocks), users and rights, and a
crash within `halt`. The display functions of `OS3_memory.cpp` (`*_show_*`, `*_print_*`) have no effect on
the state; the random generator is a choice of any sequence. The other programs of the repository are
listed in section 1 and, with a reason for each, in `PROJECT.json`.

The models cover a small part of the repository by lines, because most of its lines are vendored
(PalmOS, lighttpd's other modules, ftplib), generated, or exercises without state.

## 10. Plan

What could follow, in this order:

1. **mod_proxy, mod_cgi, mod_scgi** as further plugins of `LighttpdConnections`: their
   `handle_subrequest` in place of mod_fastcgi's, under the same properties.
2. **User interfaces of MTTransfer.** The progress thread polls `isTransferring` and the field `transfer`
   that each press of a button replaces; Start and Stop run around a thread that reads `server` late.
3. **OS4_fs**: `read_f` and the indirect blocks of `write_f`; users.
