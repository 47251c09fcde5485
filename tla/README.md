# A verification project for socket-to-http

The repository builds a network server in ten stages, from a blocking socket
(`01_skeleton`) to an HTTP/1.1 server on a share-nothing multi-reactor engine
(`10_HTTP`). This directory models all ten in TLA+: the HTTP server's request
parser, engine and application; stage 09, the engine from start to stop with the
client made for it; the thread pool of stage 08; and the echo servers of stages
01 to 08 with their client programs. TLC checks the models on small instances,
TLAPS proves the main safety properties for all sizes. In what follows, line
numbers without a directory refer to `src/10_HTTP`.

## 1. Inventory

| Component | State | Operations | Interacts with |
|---|---|---|---|
| HTTP session, `10_HTTP/HttpSession.*` | buffer, read_idx, write_idx, state, request, content_length | appendData, compact, parse | called by on_read on a worker thread |
| Engine, `MultiReactorServer.*` (same file in 09 and 10) | running_, workers_; per worker: listening socket, epoll instance, clients_map | start, stop, workerLoop | kernel (accept queues, epoll, descriptors), three callbacks |
| HTTP application, `10_HTTP/server.cpp` | the map `sessions`, shared by all workers without a lock | on_connect, on_read, on_disconnect, handleRequest | engine's callbacks, sessions, file system |
| TcpSocket (a copy per stage) | sock_fd_ | Bind, Listen, Accept, Connect, Send, Recv, SetNonBlocking, moves, destructor | kernel |
| Client, `09_MultiReactorEngine/MultiReactorClient.*` | running_, epfd_, io_thread_, socket_ | connect, send, disconnect, ioLoop | application thread and io thread |
| Thread-pool reactor, `08_MultiReactor/MultiR_server.cpp` | clients_map, jobq, stop_server under mtx and cv | reactor loop, pool workers | kernel |
| Share-nothing reactor `08/SNMRserver.cpp`, single reactor `07_epoll/EpollServer.cpp` | client map per thread | event loop | kernel |
| Latency clients (05, 07, 08) | per-thread and global totals under a mutex | RunClient, main | a server |
| Echo servers and clients of stages 01-06 | one socket, or one detached thread per socket | accept, recv, send | kernel |

What is hard here and what makes a component correct:

* *Session.* The byte stream arrives in arbitrary chunks. Correct means: the cut
  is invisible, no byte is lost when the buffer is compacted or grows, no index
  leaves the vector, parse always returns.
* *Engine.* Workers share only the descriptor table, and that is enough for
  trouble: a number closed by one worker is handed to another at once. Correct
  means: one owner per descriptor, no event for a descriptor that was closed, no
  client whose EPOLLONESHOT is spent without anybody looking after it, callbacks
  in order (connect once, data, disconnect once), recovery from EMFILE, an end
  after stop.
* *Application.* Sessions are keyed by descriptor number, in a map that several
  threads change. Correct means: each connected client has its own session and
  never an earlier client's; responses arrive whole.
* *TcpSocket.* Descriptors travel by move between scopes, containers and
  threads. Correct means: each open one is held by exactly one object, whatever
  fails on the way.
* *Engine's life, client of stage 09.* Threads that are joined twice or never,
  an epoll instance closed under a thread that waits on it, a worker that fails
  to start, the server's end and disconnect at once. Correct means: start, stop
  and disconnect return and leave no thread behind; replies and the end of the
  connection are noticed although EPOLLET reports them once.
* *Thread pool.* A job carries a descriptor number and uses a reference into a
  shared map after the unlock. Correct means: one job per client, none for a
  client that is gone, no lost wake-up, an end after the reactor has left.
* *Echo servers and clients.* Correct means: a client gets its own bytes back,
  in order, from a blocking server all of them; it is admitted, read and kept as
  long as it stays; the server for one client ends with it. The latency client's
  totals must be those of its threads.

`PROJECT.json` lists every hazard with its line and the property that covers it, or
says why none does.

## 2. Modules

| Module | Models | Lines of the source |
|---|---|---|
| `HttpSession` | the parser and the read callback that drives it | HttpSession.cpp 1-106, server.cpp 46-61 |
| `HttpFraming` | what a whole stream means, with no buffer, state or chunk; the properties that compare the parser with it | 10.md 23-48 (as the claim that is checked) |
| `ConnectionService` | abstract: the callbacks of a connection | the interface, MultiReactorServer.h 15-24 |
| `MultiReactorServer` | workerLoop, running_, kernel and clients | MultiReactorServer.cpp |
| `HttpServer` | the three callbacks and the shared map on top of `MultiReactorServer` | server.cpp |
| `EngineLifecycle` | constructor, start, stop, joins, destructor of the engine, whose workers only set up, serve and leave | 09/MultiReactorServer.cpp 7-60 |
| `MultiReactorClient` | connect, send, disconnect, destructor and ioLoop, in two threads | 09/MultiReactorClient.cpp, client.cpp |
| `Stage09` | both together, with the echo of 09/server.cpp | 09/server.cpp |
| `TcpSocket` | the class, as operations on the tables of objects and of descriptors; `SocketSpec` is any use of it | TcpSocket.cpp of each stage |
| `EchoKernel` | connections as the server's kernel keeps them; accept, recv, send | external, and TcpSocket.cpp |
| `Epoll` | registrations, one-shot ones included, ready sets and batches | external |
| `EchoService` | abstract: what an echo server promises its clients | the programs' common purpose |
| `ThreadPoolReactor` | reactor, job queue, condition variable, pool | 08/MultiR_server.cpp |
| `EchoServers` | servers with one client (01, 02, 03, 06) or a thread per client (04, 05) | their server.cpp, testServer.cpp, ThreadServer.cpp, NonBlockServer.cpp |
| `SingleReactor`, `ShareNothingReactor` | one event loop; one per thread with a listening socket each | 07/EpollServer.cpp, 08/SNMRserver.cpp |
| `EchoClients`, `LatencyClient` | line clients; measuring client with its totals | client programs of 01-08 |
| `EchoStages` | servers and clients composed, a stage per behaviour | |
| `HttpSession_proofs`, `MultiReactorServer_proofs`, `ConnectionService_proofs`, `HttpServer_proofs`, `TcpSocket_proofs`, `ThreadPoolReactor_proofs`, `EchoStages_proofs`, `Stage09_proofs` | theorems | |
| `MCHttpSession`, `MCMultiReactorServer`, `MCHttpServer`, `MCThreadPoolReactor`, `MCEchoStages` | instances for TLC (`Stage09` is its own) | |

The modules of the echo stages extend one another in this order: `TcpSocket`,
`EchoKernel`, then either `Epoll`, `ThreadPoolReactor`, or `EchoServers`,
`EchoClients` and the reactors up to `EchoStages`.

### How state and actions correspond to the code

`HttpSession`. The stream is a sequence of units: CR, LF, or a run of other
bytes ("get", "host1" for a `Host:` line). CR and LF are units of their own, so
chunks split `\r\n`. `buffer`, `capacity`, `read_idx`, `write_idx` are the
vector and its indices. `Recv` is one `recv` (at most `ChunkMax` units) with the
`appendData` on it, `Parse` one iteration of the loop in `parse`; COMPLETE is
entered and left in one iteration, as in the code. `pc` is "recv" between two
reads. A stored key ends in ":", because line 81 takes `substr(0, colon_pos+1)`;
the lookup of lines 67-68 compares with the bare name. `pc = "aborted"` is the
exception of `std::stoul`. `received` and `requests` are history.

`MultiReactorServer`. `wpc[w]` is the place of a worker in `workerLoop`: *bind*
(41), *epoll* (46), *loop* (63), *wait* (64), *dispatch* (70), *connect* (in
on_connect_, 86), *recv* (100), *read* (in on_read_, 104), *closing* (in
on_disconnect_, 119), *erase* (120), *exited*. A step ends where another thread,
a client or a callback can intervene; the system calls of `Register` and `Erase`
stand in one step with the bookkeeping behind them because nothing of theirs is
visible in between except through the kernel's tables, which change at once.
`clients[w]` is clients_map, `armed[w]` the one-shot registrations that are
armed, `batch[w]` what is left of `cev`, `fdtab` the process's descriptor table.
A socket closes its descriptor in its destructor: `Closed`. epoll_wait returns
all that is ready or, when more than `BatchMax` is, any `BatchMax` of it; a reset
or closed peer makes a socket readable, so its event carries EPOLLIN. `Faults` says which calls may fail. `DrainsEnd` is an
assumption of the liveness properties, explained below.

`HttpServer`. Each map operation takes time: `Begin...` enters it, `End...`
returns. A worker that enters while another is in an operation, at least one of
them a writer, makes both *racing*: the C++ standard leaves what follows
undefined, and the model takes the outcomes an unsynchronised hash table
produces: the operation is lost, the key is missed, or the process is gone. A
session is the number of units of its current request (`HttpSession` shows that chunks
do not matter). `Reply` is handleRequest and Send, which use the iterator of
line 48: that another worker's emplace may rehash meanwhile is not counted as an
overlap, only the five map operations are. What does not fit into the socket buffer is lost; after a reset SIGPIPE may end the process.

`TcpSocket`. `sock` is sock_fd_ of every place where an object may live: a local
variable, a map entry, a closure. Operations are functions of the pair of
tables, so that a statement such as `client_sock = listen_sock.Accept()` is the
composition of opening a temporary, assigning from it (which closes what was
held) and destroying it.

`EchoKernel`. The k-th byte (or unit) of client c is the pair <<c, k>>, so a
mixed-up buffer shows. A connection waits in the queue of one listener, then is
the file behind a descriptor. `sent`, `taken`, `echoed`, `got` count what has
gone each way; at most `TxMax` units are on their way to a client. A client that
closes with data unread, or is written to after it closed, resets the
connection; a send after that fails, or SIGPIPE ends the process.

`ThreadPoolReactor`. `pc[Main]` walks through socket() and then main: *wait*
(epoll_wait), *dispatch* (the loop over `cev`), *emplace*, *notify*, then *stop*,
*notify_all*, *join*. A pool thread is at *check* (the predicate of cv.wait, asleep
or not), *find*, *recv*, *send* or *close*. Each critical section is one step; what
happens between two of them, the notify after the unlock and the use of the
reference after the find, are steps of their own.

`EchoServers`, `SingleReactor`, `ShareNothingReactor`, `EchoClients`,
`LatencyClient`. A system call is a step, with the computation that follows it.
`stage` never changes in a behaviour and selects the program; each action names
the stages it belongs to. The merge of the latency client is two steps, the
reads and the writes of the globals, so that the mutex matters.

`EngineLifecycle` and `MultiReactorClient`. `spc` and `tpc` are where main and a
controller thread are in start and stop, `sjoin` and `tjoin` what the loop each is
in has still to look at of `workers`. A stop while start creates or joins makes
`server` *undefined*, after which it may abort, and it does so when
`workers_.clear()` destroys a thread that start has created meanwhile; all that follows an
undefined step and does not abort is explored too. `io` is where the io thread is in ioLoop: *enter* and
*waiting* separate an epoll_wait that fails on the closed descriptor from one that
was already inside and must wait for its timeout. `link` and `mine` are the two
ends of the connection, `edge` whether EPOLLET has something to report. `proc` becomes
*aborted* when a joinable std::thread is destroyed.

## 3. Runs

| Run | Instance | Shows |
|---|---|---|
| `http_parser` | all streams of up to 6 units over 4 letters, and 100 or so pipelined, cut or misplaced messages of up to 27 units; 3 cells, chunks of up to 3 | types, bounds, no byte lost, chunking invisible, parse returns |
| `http_body` | pairs of requests with and without a body | **violation**: Content-Length is never found |
| `engine` | 2 workers, 3 connections, 2 descriptors, all faults, stop, batches of 2 | ownership, wake-ups, fresh events, `ConnectionService` implemented |
| `engine_live` | 2 workers, 2 connections, 1 descriptor, failing EPOLL_CTL_ADD, stop | liveness |
| `http_server` | 2 workers, 2 clients that wait for answers, stop, SIGPIPE | sessions exact, responses whole |
| `http_lost` | 2 workers, 2 clients | **violation**: a connected client without a session |
| `http_torn` | 1 worker, 1 client that pipelines | **violation**: a response cut and followed by the next |
| `thread_pool` | reactor, 2 pool threads, 2 clients that may close or reset, 3 descriptors | one job per client, no stale reference, no lost wake-up, `EchoService` implemented, liveness, end of the pool |
| `echo_stages` | each of the stages 01 to 08; a program and somebody else, or two threads of the latency client; 2 workers in stage 08 | descriptors owned once, `EchoService` implemented, clients admitted, read, answered and kept, totals merged, programs that should end do |
| `stage09` | 2 workers each of which may fail, a controller that may stop at any time, 1 client of 2 threads that enters 2 lines | no worker left when start returns, disconnect and stop return, replies and ends noticed |
| `latency_max` | 1 thread, 2 round trips, stage 08 | **violation**: the highest latency is a sum |
| `stage06_connect` | stage 06 | **violation**: Connect fails while the server listens |

Why the bounds are enough. Six units hold a complete request with a header, and
every malformed beginning; buffers of three cells make every longer message
compact and grow. Two workers and two descriptors are what it takes to hand a
number from one worker to the other, three connections what it takes to reuse it
while the first two live on; one descriptor for two connections makes accept
fail. Two events per batch leave one ready event behind. In `engine_live` a
batch is never cut (BatchMax is above the number of sockets): the model's choice
of events is arbitrary, whereas the kernel's ready list is a queue, so a smaller batch
would starve sockets as the kernel does not.

In the echo runs three descriptors are one listening socket and two clients,
so that a third party (the second socket of a share-nothing worker, a
temporary) meets a full table. A client of stages 04 to 07 does not: that an
accept fails for want of a descriptor is left to `Faults` there and to the
theorems, which hold for any number of descriptors, and that an engine
recovers from it is checked in `engine_live`. RecvMax and TxMax of one unit
make every message of two units take several receives and meet a full buffer.
Two threads and two clients are what it takes to exchange jobs, buffers,
results or descriptors. `SendMax` bounds what a client sends, `Rounds` and
`Latencies` a measurement, `LineMax` and `Lines` what a user types, `Window`
what the kernel buffers in stage 09. In `stage09` lines of two bytes against a
Recv of one make the io thread loop, and a window of two makes a send drop its
rest; the client has one connection in its life, and the server has a worker
that may serve it and one that may not have started, or none that has. An
interruption of the latency client is placed where a round trip is under way: at
another time its effect on the server is that of threads that end.

Symmetry is used in `engine` and `http_server` only, which check no liveness.
Deadlock checking is off: clients may all be gone and threads exited, a parser
may have no input left, and a user may stop typing.

### Fairness

`HttpSession!FairSpec` is weak fairness of `Parse`: a loop that runs on its
thread goes on. `MultiReactorServer!FairSpec` is weak fairness of each worker's
next step: threads are scheduled and callbacks return. Clients and `Stop` have
none. The drain loop (99-116) has no bound, so a client that sends as fast as
the worker reads holds the worker: this starvation is real, and the liveness
properties therefore assume `DrainsEnd`, that every drain comes to an end.
`QueueServed` also assumes that clients end their connections, without which a
full descriptor table stays full.

`ThreadPoolReactor!FairSpec`, `EchoStages!FairSpec` and `Stage09!FairSpec` are
weak fairness of each thread and each client program. No fairness is assumed of
users who type, of clients that are somebody else's, of the controller's decision to stop, of an
accept that fails or of a signal. A mutex needs no strong fairness here: a
critical section is one step, or (in the latency client) is entered once by each
of finitely many threads. The drain loops have the same lack of a bound as the engine's;
`SendMax` ends them.

### Findings

1. `BodiesDelivered`: HttpSession.cpp:81 against 10.md:35-41. No request ever
   has a body; the body's bytes become the next request line.
2. `SessionPerClient`: server.cpp:38-66 against 10.md:18. The shared map has no
   lock.
3. `ResponsesWhole` under pipelining: server.cpp:59 against 10.md:10-11. Partial
   sends are ignored.
4. `MaximumIsMaximum`: 08_MultiReactor/LatencyClient.cpp:47-48 against its own
   line 84 and 08.md:73-75. The "highest latency" is the largest sum of a
   thread's latencies. Stage 07 has the same file; in stage 05 the maximum is
   right.
5. `ConnectFindsServer`: 06_NonBlock/TcpSocket.cpp:91 against 05_NonBlock.md:5.
   Connect does not open the socket, so the client of stage 06 never connects.

## 4. Proofs

All theorems hold for every value of the constants that satisfies the `ASSUME`
of their module, and for unbounded behaviours.

`HttpSession_proofs` proves `TypeOK`, `IndicesInBuffer` and
`WindowIsStreamTail`. The inductive invariant `IInv` adds to them that the buffer is
never smaller than a new one (so one doubling makes room for any chunk: this is where
`ChunkMax <= BufInit`, 1023 and 8192 in the code, is used), that every stored key
ends in its ':' (so it is none of the two names looked up), and hence that the parser never
reads a body (`NoBodies`). The last is no requirement but what finding 1 leaves of
the code, and the proofs that follow need it. Lemmas state what Compact, Resize and CopyIn do to
the window.

It also proves `ChunkingInvisible`: between two reads the callback has been given
exactly the messages `HttpFraming` reads in the stream received so far, whatever
the chunks and whatever was compacted or reallocated. The second invariant,
`FramesInv`, forgets the buffer: `Pos` is the place of `read_idx` in the stream, and
`FirstBreak` says that the first line break of the window is the first one of
the stream from there. There are marks, one where each message handed out starts
and one where the next does (`Framed`), and the parser stands in the last message,
before its line (`InLine`) or behind a line break of its header block, with the
fields up to there stored and no empty line passed (`InBlock`). Receiving keeps it
because a message that is whole stays what it is when more comes in
(`BreaksStay`, `FieldsStay`, `FramesStay`); a header line because storing it is
adding its field, of which the last of a name counts (`FieldsOfLine`,
`StoreHeaderStored`); the empty line because two line breaks never overlap, so the
parser cannot have stepped over one (`BreaksApart`). `Decode` is a recursive function
over the stream; that there is one follows from the least position from which it
can be defined, and what it gives at the first mark from the least mark at which
it is known, going back from the last (`ReadingExists`, `ReadMarks`). That a field's
name holds no line break is an assumption on the constants: it is part of a run of
bytes without one.

`MultiReactorServer_proofs` proves `TypeOK`, `OneOwner`, `OneWakeup` and
`EventsFresh` under all faults. The inductive invariant `EInv` ties `cur` to the
program counter (`CurInv`), registrations and events to descriptors of the same
worker (`EventInv`), open descriptors to owners (`OwnerInv`) and connections to
one queue or one descriptor (`ConnInv`). `OneWakeup` alone is not inductive:
that `Erase` takes nobody else's registration needs the owners, and that
`Register` starts with a clean descriptor needs that all registrations of a
worker are on descriptors it owns.

`ConnectionService_proofs` proves that the engine implements `ConnectionService`
(`CallbacksInOrder`): on_connect once, on_read for the data in order,
on_disconnect once and only when the client has ended, whatever fails. The
mapping finds the status of a connection from the worker that handles it, so the
proof first says what it gives for a connection by its descriptor
(`OpenMapped`), then that a step changes it for no connection but its own
(`OtherConns`), and then which step of `ConnectionService` it is. The invariant
adds to `EInv` that an open connection has a descriptor (`OpenInv`) and what the
abstract guards ask for: that on_read has data and that on_disconnect comes after
the drain (`HandlerInv`).

`HttpServer_proofs` proves that HttpServer implements the engine
(`HttpServerRefinesEngine`), so all engine theorems hold of it, overlapping map
operations included, the order of the callbacks too (`HttpCallbacksInOrder`);
`SessionsExact` and `HTypeOK`; and `ResponsesWhole` (`ResponsesInOrder`) for
clients that wait for an answer and a response that fits into the socket buffer.
Without the first hypothesis the run `http_torn` tears a response; without the second
line 59 cuts each response, and a client waits for the rest in vain. `HInv` adds to `EInv` that a worker in a
map operation is in the callback that calls it, and that nothing has been read
of a connection without session. For `ResponsesWhole`, `RInv` says that
what the server has of a waiting client's units, in the socket, in the worker and in
the session, never makes a second request beside the one being answered
(`QueueInv`, `AheadInv`), and that what is on its way to the client is the end of one
response (`TxInv`), so that the buffer is empty when the next is written (`TodoInv`).

`TcpSocket_proofs` proves `SingleOwner` of any use of the class
(`DescriptorsClosedOnce`): every statement of the programs of stages 03 to 08 is
a composition of these operations. The inductive invariant `Owned` is
`SingleOwner` with the types; an assignment is proved as what it is, the target's
destructor followed by a move into an empty object.

`ThreadPoolReactor_proofs` proves `OneJob`, `SingleOwner`, `TypeOK` and
`NoLostWakeup` of the thread pool, and that it implements `EchoService`
(`PoolEchoes`; a client's units in order, some of which a full socket buffer may cost). `OneJob` is not inductive: that a new client's
descriptor has no job, event or registration left needs that whatever has one is
in the map (`FreshInv`, `WaitInv`) and that the map's sockets are open and owned
once (`Owned`, from `TcpSocket_proofs`); that an event disarms its client needs
that an entry holds a connection (`EntriesInv`). Counting is done last, from "at
most one". `NoLostWakeup` says that for every job in the queue
somebody is on the way to it who is awake (a thread about to test the predicate or
to come back to it, or the reactor about to notify) as long as anybody sleeps,
and that nobody sleeps once the pool is to stop unless notify_all is the reactor's
next step. It is inductive with `WakeInv`: a thread that sleeps is in front of its test, so
whoever is woken is on the way to a job (`WakeOne`), and a thread that takes a job takes one
from the number of those on the way and one from the queue (`TakeJobWakes`). It
needs that the pool has a thread at all, and finitely many (MultiR_server.cpp 127-129). The refinement rests on `DInv`: at most `TxMax`
units on their way (`BoundsInv`), a connection has one descriptor (`ConnsInv`),
what was echoed is in the order in which it was sent (`EchoInv`), and what a
worker is about to send comes after it (`BufInv`). `OneJob` is what makes it
inductive: two workers on one client would interleave its bytes.

`EchoStages_proofs` proves `SingleOwner`, `TypeOK` and the action property
`KeepsClients` of the echo servers of all eight stages, for any number of
clients, workers, descriptors and rounds. A stage-by-stage proof would repeat
itself eight times, so it goes by the shape of a step: a server's step (`Served`)
opens one socket or closes those of some objects (`Effect`), moves a connection
between queues (`Queued`) and reads, writes or drops units (`Data`); a step of a
client leaves the process alone (`Outside`). That the invariant is kept is proved
once for the shapes, and each handler is shown to have its shape. The
invariant says which object may hold a socket at which place of the program
(`PlacesInv`), that `SingleOwner` holds (`OInv`), what the streams and events can be
(`DInv`), and what is known of the client the code at a place is about (`CInv`); for instance, a
thread of stage 04 logs an empty buffer only when its client has ended
(`LogInv`). `KeepsClients` is part of the shape: a socket is closed when its client has
ended, when a worker returns, or with the process. Besides the types of the constants
it assumes that main is neither a client nor a worker and that the places an
object may live in are different places (`PlacesAssumption`).

The same module proves `MergedTotals` of the latency client. The globals are
sums over the threads that have merged, in the order of a fold; the lemmas on
such sums go by the smallest set at which a claim would fail, because the
library's induction theorems take operators the provers cannot instantiate. The
invariant (`MergeInv`) says that the globals are the sums at every moment, and
that the thread that holds `mtx` has read what they still are: this is what the
lock is for.

And it proves that each of the eight servers implements `EchoService`
(`StagesEcho`: `EchoFaithful`). What was sent back to a client is in order
(`EchoInv`), and what a thread is about to send it comes after that
(`PendingInv`), with no gap from a server with blocking sockets. That such a server
loses nothing needs `AllSentInv`: of a client nobody is about to send to, all
that was received has been sent back. That two threads never serve one client
needs that a connection has one descriptor (`ConnsInv`) besides `SingleOwner`, and
that its socket stays with the thread that is about to send to it
(`SendersInv`). The steps are again taken by shape (`Turn`): a thread receives
(`Reading`), sends (`Writing`) or does neither, and all others keep what they are
about to send and to whom (`Stays`). The mapping takes the greeting of stage 01
away, and nothing else: what is in order holds no greeting (`NoGreeting`).

`Stage09_proofs` proves `TypeOK`, `NoOrphans` and `CleanQuit`. The second says that every
worker has ended when start returns, whenever a stop comes: before, while start
creates or joins, or after. Two facts carry it. A thread that has been created is in `workers_`
until somebody has joined it, because `clear()` either finds all joined or
terminates the process (`KeptInv`); and what start has still to look at are
the threads nobody has joined (`LeftInv`). The third rests on who may have
cleared `running_` while the io thread is still joinable (`EndInv`).

Only model-checked is all liveness: `ENABLED` and fairness are outside the prover's
reach. The five runs that end in a violation refute what they check, so there is
nothing to prove about those properties.

## 5. Not modelled

* Text: splitting of the request line at blanks, the wording of responses, the
  file system behind handleRequest, logging, and the `'\n'` that client.cpp puts
  behind what it prints.
* Time itself: a timeout may fire whenever it is waited for, a measurement may
  end at any test, and latencies are small numbers.
* What no program of the repository does: a callback that calls stop or
  disconnect, a second connect of one client, an engine that is started twice.
* Failures of thread creation in the client and of memory allocation, which end
  the process by an exception at that line.
* The binaries, editor files, pages and measurements, which have no behaviour.

A `MultiReactorServer` whose workers have every detail, composed with
start and stop, would be `MultiReactorServer` times `EngineLifecycle`: the first
gives the second that a worker leaves after `running_` is cleared
(`WorkersStop`), and the second is all the first needs to know of stop.

## 6. Plan

All modules and theorems of the plan are written. What may follow when the code
changes: once HttpSession.cpp:81 cuts a key before its ':', the parser reads bodies
and `BodiesDelivered` is the property to check and then to prove, with `Seen` taking no
':' off; `NoBodies` and `NoLengthField` of the proofs then go, and `Message` takes the length
from `BodyByContentLength`.
