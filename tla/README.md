# Verification of the compute-offloading server

The repository is a small offloading system. A *client* library sends the name and
the arguments of a Python script to a *server*; the server runs the script and
sends its result back. Scripts travel through a redis instance, a *master*
server tells clients which server to use. This directory holds TLA+ modules
translated from the C++ sources, TLC configurations that check them, and proofs
that TLAPS checks.

The control of the server is an epoll loop with its own thread pools, and that is
where the modules start: who owns a descriptor, an entry of the events map, a
queued event, a reply.

## 1. Inventory

| component | sources | state | operations |
|---|---|---|---|
| `EventHandler` thread pool | `server/src/eventHandler.cpp`, `com_inc/spinLock.h`, `com_inc/mtThread.hpp` | queue `fired`, spin lock `firedLock`, condition variable `cv`, atomic `parallels` | constructor, `handlerEvent`, `eventHandlerThreadTask`, `execCallback`, destructor |
| Event loop, poller, descriptor table | `server/src/eventLoop.cpp`, `poller.cpp`, `event.cpp` | `events` map with `eventsMapLock`, queues `waits` and `replys`, the epoll set, the wake-up pipe | `loop`, `beforePoll` (`handlerReplys`, `handlerWaits`), `poll`, `aweak`, `addEvent`, `deletEvent`, `addReplys` |
| Accept, command, reply, close handlers | `eventHandler.cpp`, `cmdHandler.cpp` | none of their own | `beforeHandlerEvent`, `handler_callback` of each |
| Script exchange and execution | `cmdHandler.cpp:20-118`, `scriptsExec.cpp` | the shared `redisContext`, the cache directory of each connection | `exec`, `downloadScript`, the removal of a directory by the close handler |
| Scheduler of the master | `shceduler.cpp`, `cpuInfo.cpp`, `main.cpp` | list `servs` with `servsMut`, `threadWait`, `ifRun` | `run`, `stop`, `addServer`, `serverFit`, the tick thread |
| Client library | `client/src/cmpOffloading.cpp` | one socket, the server's address, the prefix of the last `UNINIT` answer | `reFreshServIP`, `__connect`, `sendPack`, `exec`, `sendScript` |
| Packet protocol | `com_inc/cmpOffProto.hpp`, `com_src/CRC8.c` | a packet buffer | `parseFrom`, `generate`, CRC |
| `CVariant`, `CComVar` | `com_src/CVariant.cpp`, `com_inc/CVariant.h`, `client/inc/common.h` | reference-counted data, a dirty flag | assignment, copy on write, arrays, equality, `setValue` |
| Script runner | `scriptsRunner/pythonRunner.cpp` | none | one short process per call, from the variables it is given to those the script returns |
| base64 (third party) | `com_src/base64.cpp` | none | encode, decode |

How they interact. The loop thread calls `beforePoll`, which first sends the
replies in `replys` and then makes the additions and deletions in `waits`; then it
polls and gives each reported event to the handler registered for its type.
Handlers constructed with `parallels = 0` (accept, reply, close) run inside the
loop; `EventHandlerCMD` has one thread per processor, and gets a *copy* of the
events-map entry through the pool's queue. When a command thread has finished, it
stores its reply into the entry of the same descriptor **number** under
`eventsMapLock`, queues the number in `replys` and wakes the loop through a pipe.

A script travels apart from its calls. The client sends `EXEC` with the script's
name; a server that has neither the script in the connection's cache directory nor
in its redis answers `UNINIT` with a prefix, the address it knows the connection by;
the client stores the script in that redis under the prefix and calls again. The
server takes it out of redis into the directory and starts a runner process there.

What is hard here:

- *Interleaving*: entries are used by the loop without the lock the workers take;
  a condition variable with a hand-written spin lock and `notify_one`.
- *Stale state*: a worker knows its client only by a descriptor number, which
  may have been closed and accepted again.
- *Ordering*: edges are reported once; `close` is postponed to the next turn of
  the loop; a second reply overwrites the first.
- *Liveness and deadlock*: a blocking pipe that is read until a short read; a
  destructor that joins threads.
- *Failure*: clients leave at any moment, requests arrive in pieces, writing to a
  reset connection raises `SIGPIPE`, redis cannot be reached, servers restart.
- *Time-outs and retries*: a client gives up after a second and asks again, and the
  answer it gave up still comes.
- *Boundaries*: lengths and checksums of packets, integers of eight widths that become
  decimal text, Python numbers and text again.

What makes each part correct. The pool: exclusion, no sleeping thread while there is
work, each event run once and in order, progress. The loop: sockets, entries and
pending operations agree; nothing is closed under a new owner; a reply goes to
the client that asked; a waiting client gets exactly its answer; the loop never
hangs; a leaver's descriptor is closed. Script exchange: what is executed for a connection is the text of its client, one
upload suffices, and results keep coming. Client: what a call takes for its answer is
the answer to it. Runner: the script finds the values that were sent. Scheduler: the list is
read only while it is whole, a server that answers stays, the tick thread ends on
`stop`. Protocol: what `generate` makes `parseFrom` accepts, and nothing is lost
around it. `CVariant`: value semantics behind shared data.

## 2. The modules

| module | what it is |
|---|---|
| `TaskQueue` | abstract: events are handed over, started in order, finished |
| `HandlerPool` | the thread pool, with its lock, condition variable, spurious wake-ups and destructor; implements `TaskQueue` |
| `Exchange` | abstract: each request of a client is answered once, in order, by its own answer |
| `EventLoop` | the loop, the poller, the four handlers, the command threads, and clients, TCP, epoll and the pipe as their environment; implements `Exchange` |
| `Scheduler` | the master's list of servers: tick thread, accepting loop thread, command threads, the signal handler, and the slaves |
| `Values` | abstract: variables that hold values and share nothing |
| `Variant` | `CVariant` and `CComVar`: shared cells with counts, copied before a change; implements `Values` |
| `ClientSession` | clients and servers over many calls: choice of a server, `EXEC`, `UNINIT`, upload, cache directory, time-outs, restarts |
| `ProPack` | one direction of a connection as a stream of bytes: `generate`, `parseFrom`, the checksum, damage |
| `Wire` | operators only: a variable on its way into a script and back |
| `MCHandlerPool`, `MCEventLoop`, `MCScheduler`, `MCVariant`, `MCClientSession`, `MCProPack` | the instances for TLC; `MCProPack` also evaluates `Wire` |
| `HandlerPool_proofs`, `EventLoop_proofs`, `Scheduler_proofs`, `ClientSession_proofs`, `ClientSession_answer_proofs`, `ProPack_proofs` (with `Wire`), `Variant_proofs`, `Variant_values_proofs` | theorems |

### HandlerPool

One action per step of `eventHandlerThreadTask` between two points where another
thread can interfere: test of `parallels` (`Check`), the spin lock (`Lock`), a
false predicate (`Wait`), a true one with the pop and the unlock (`Pop`), the
callback (`Exec`). The loop thread's `handlerEvent` is `HandlerEvent` (which
prepares the event), `LockFired`, `Push`, `NotifyOne`; the destructor is `Destroy`,
`NotifyAll`, `Join`. `condition_variable_any` gives the lock back and begins to wait
atomically, a wake-up takes the lock again, and it may be spurious. The events
themselves are model values.

### EventLoop

`lpc` says where the loop is, `cur` the descriptor its handler works on, `fired` what
the last poll reported and has not been dispatched, `waits` the pending operations.
`events[f]` is the entry of descriptor `f`: the client's name, how much unparsed
data `recv` holds, and the reply buffer `send`. Each worker has a program counter
and the event it executes. What a handler does in the loop, with no other point of
interference, is one action (`Accept`, `ReadCmd`, `CloseConn`, `FlushReply`); a
worker's `addReplys` is split at its lock, its store, its push and its wake-up.

- The hand-over to the command threads is the queue `tasks` with `Take`: what
  `TaskQueue` says and `HandlerPool` implements.
- Requests are numbered and each is two *halves* of a byte stream, the smallest
  unit in which a request can arrive incomplete. `Parsed` is what `parseFrom` makes
  of a buffer of halves; `ReadCount` is the chunk arithmetic of `Event::read`.
- **Races.** `StoreReply` is the only writer under `eventsMapLock`; the loop moves
  the reply buffer out and copies it *without* that lock. When both are at the same
  entry (`Racers`) the loop may see the old buffer, the new one, or a garbled one
  (`Torn`), and the process may crash (`RaceCrash`).
- **epoll** is edge-triggered: `ready` collects the edges, `Poll` reports and clears
  them. A closed peer is reported as a closing, whatever is unread.
- **Leaving.** A client's close arrives as FIN or RST. Data written to a peer that
  has closed turns the connection into a reset one; writing to that one fails or
  kills the process (`alive`), because nobody handles `SIGPIPE`.
- Left out: the modification branch of `handlerWaits` (nobody calls it), short
  writes, a full pipe, failing `epoll_ctl`, moving a handler to another loop. What a
  command computes is not modelled: an answer is the pair of client and request.

### Scheduler

`servs` is the list, an entry being a server, its load and the collections it has
missed (`faildCount`). Four parties are at it:

- the tick thread (`tpc`, with its place `pos` in the list): `TickStart` adds the master
  itself, then each round is `TickCheck`, one `SendQuery` per server, `Sleep`, one of
  `CollectLocal`, `CollectAnswer`, `CollectNothing` per server, `Sort`, `Wait`;
- the loop thread, which accepts slaves and adds them: `Accept`, `LockServs`, `PushServ`;
- the command threads, which hand out the front: `GetIp` (tests `ifRunning`), `ServerFit`;
- SIGINT: `serv_exit` runs `stop` and `exit` *in the loop thread*, wherever it is: `Interrupt`,
  `Join`, `CloseAll`. While it runs, `LoopUp` holds the loop thread back.

What it abstracts:

- A load stands for load divided by processors, the key of the sort; `Unknown` is
  the 0xFFFFFFFF of a new server, above every load a server can report.
- Per slave, `asked` says that a query waits for it and `inbox` is the oldest answer
  not read: `parseFrom` takes the first packet of what was read and the rest is
  thrown away.
- The iterators of the two loops are the index `pos`. A push while the iterator has
  already reached the end is, for every state that can be told apart, a push right
  after the loop.
- **Races.** Only `addServer` and `stop` take `servsMut`; the tick thread's loops, its
  `erase` and `sort`, and `serverFit` do not. Where two threads are at the list and one
  changes it (`Race`) the process may crash; if it does not, an element pushed during
  the sort is either sorted in or lost, and `serverFit` during a collection or a sort,
  or on an empty list, reads anything.
- A slave that has left resets the connection at the first query it gets; the next
  one may kill the master by `SIGPIPE`.
- `threadWait` only shortens the wait between two rounds, so it is not a variable.

### Variant

`ref[v]` is the cell that variable `v` points at, `heap[c]` a cell: `data`, `type` and the
count behind `refCount` in one record, since copies always share all three. An
array's cell lists the cells of its elements. The helpers take a heap and return
a heap, as the code's private functions work on one object: `Drop` is `clear()`
(with the destructors of an array's elements), `Own` is `_copyself()`, `Write` the
assignment of a base value, `Insert` is `_upgrade()` and `_insert()`. Each public
operation is an action: `Clear`, `Set`, `SetArray`, `Assign`, `Take` (`v = w[i]`),
`InsertItem`, `InsertVar`, `Erase`, `SetAt` (`v[i] = x`), `Add`, and `SetValue` of the
`CComVar`.

- `Assign(v, v)` is in the model: `operator=` clears its left side first, so `v = v` empties
  `v`. `Values` says so too.
- `setValue` keeps the old array when the new one is a prefix of it, or it of the new
  one's: `operator==` tests the end of one array only. `Values` has this exception
  in its `SetValue` (`Begins`), so that the rest of the refinement is checked with it.
- `IndexShared` allows the use that the finding is about; the passing run excludes it
  and only it.
- Numbers are `0 .. Width - 1`, without conversions; arrays hold base values,
  and `v[i] = x` is made with values of the array's type.
- Left out: strings, conversions, `toString`; arrays within arrays, which arise when an
  array is passed to `insert` or `append` as a variable; `v = v[i]`, which reads freed
  memory when `v` is the only holder; vectors and C arrays inserted at once, the
  erasing of a range, `setType`; the constructor from a C array, which calls `clear()`
  before its members are initialised.

### ClientSession

`EventLoop` follows one request through the server; this module follows clients
through many calls and keeps of the loop only what it does to one connection:
`Dispatch` (the entry is copied with what its socket holds), `Flush`, `CloseConn`. Where
`EventLoop` has the races on an entry, this module has those on scripts.

- The client is `Refresh` (`reFreshServIP` with `__connect`), `Exec`, then `Receive`, `Eof` or
  `Timeout`, then perhaps `SendScript`. What the central server says is a choice of a
  server; connecting may always fail, and a call without a connection is executed
  by the client's own interpreter. `Receive` reads everything in the socket, takes the
  first packet and drops the rest.
- `state[k]` is what the client can notice of its connection: `fin` and `rst` are an end
  that it has not noticed, `pipe` one behind a write or a reported reset, where the
  next write kills the client (`dead`).
- A command thread (`wpc`) is split where another thread can interfere: `Access`, `Get`,
  `GetReply`, `Write`, `Del`, `DelReply`, `Run`, `Store`. Between opening the script's file
  and writing it the directory may be removed.
- `pending[s]` are the replies redis has sent into the one `redisContext` of a server. A
  thread that reads takes the first of them, whoever asked. `overlapped` records that two
  threads have been there at once: from then on scripts may be swapped, and
  `OwnScript`, `UploadOnce` and `Results` say nothing.
- Everyone executes one script *name*; a client's text is the client itself. A
  connection's name is the address the server sees, and `Name` may give two connections
  the same one. `Free` says when an address can be used again, for all servers at once,
  which is more careful than TCP, that tells connections to different servers apart.
- Left out: answers to malformed requests and to scripts that are not Python, the `AUTH`
  of the redis connection, a script file the client cannot read, failures of the local
  interpreter.

### ProPack

The receiver's buffer is the part of the stream between `taken` and `arrived`; `Arrive(n)`
delivers any number of bytes, so that packets are cut anywhere. One turn of
`parseFrom`'s loop is an action: `ReturnFalse`, `Skip`, `ReturnTrue`, `Discard`. `Damage` changes
one byte between a packet's length and its checksum. When `parseFrom` returns FALSE the
rest may be kept, as its contract has it, or thrown away with the buffer, as every
caller here does (`dropped`). `CRC8` is the code's loop over a table (`CrcStep`), with its
length in one byte. The error form of an answer is `generate` with short data.

### Wire

`Variables` are all values of all twelve kinds and arrays of them. `Tag` is the letter
`exec` writes, `ItemsSent` what it writes for the value, `Given` what the runner makes of it,
`Result` what the runner writes of a Python value, `Received` the client's variable.

- A floating-point number is an integer number of units, `Grain` of them to the sixth
  decimal: `std::to_string` rounds to multiples of `Grain`.
- `get()` leaves its argument as it is when the element is of another type; that
  variable was never initialised, so the item is any value (`ItemsSent`).
- What a script cannot be given (arrays of bool, empty arrays, arrays of more than
  `MaxItems`) is `{}`; a char becomes a `bytes` object, and results that are lists or bytes
  are not returned.
- `exec` never clears `dirty` of the results it sets, so the server's
  `SUCCESS_WITH_DATA_CHANGE` stays set once it was; no property is about it.

## 3. The runs

| run | expects | checks | shows |
|---|---|---|---|
| `pool` | pass | `TypeOK`, `WorkConserving`, `ImplementsTaskQueue`, `QueuedIsRun` | three threads, three events, the destructor at any moment between two hand-overs: one notification per event, sent after the unlock, is enough; every event is run once, in order, and eventually unless the handler is destroyed |
| `pool_shutdown` | violation | `DestructorReturns` | a finding, see below |
| `loop_serial` | pass | `TypeOK`, `NoRace`, `DrainReturns`, `ImplementsExchange`, `Answered` | clients that wait for each answer and stay are served exactly as `Exchange` says, with progress, without races, and the loop never hangs on its pipe |
| `loop_leave` | pass | `DescriptorsAccounted`, `RepliesStayHome`, `CloseHitsOwner`, `LeaverReleased` | clients leave at any moment, descriptors are reused while workers still execute for their former clients; a leaver's descriptor is eventually closed |
| `loop_fragment` | violation | `TailPutBack` | a finding, see below |
| `sched` | pass | `TypeOK`, `ListedOpen`, `Ordered`, `PromptKept`, `FitLeast`, `SilentEvicted`, `StopReturns` | the tick thread, the loop thread, a command thread and the signal, with a slave that answers in time and one that need not: the list is sound, a silent slave goes, and `stop` returns, unless the signal met the loop thread with `servsMut` |
| `variant` | pass | `TypeOK`, `Counted`, `ImplementsValues` | every count is the number of holders, and sharing cannot be observed |
| `variant_index` | violation | `CopyOnWrite` | a finding, see below |
| `session` | pass | `TypeOK`, `OwnScript`, `OwnAnswer`, `UploadOnce`, `Results` | two clients call for ever, two command threads, one fault of redis: own answers, own scripts, one upload, and results keep coming |
| `session_late` | pass | `NeverOlder`, `CacheServed` | a time-out, a fault, a restart, a change of server and a reused address in any order: a client falls behind but never back, and the cache holds nothing of connections that are gone, except what a thread outlived |
| `session_reconnect` | violation | `Reconnects` | a finding, see below |
| `pack` | pass | `TypeOK`, `InOrder`, `NothingLost`, `DamageSeen`, `Returns` | two packets cut anywhere, one damaged: returned as generated, in order, nothing lost, and `parseFrom` returns; with the properties of `Wire` evaluated for small integers (`WireChecked`) |

Bounds, and why they are enough.

- `pool`: with three threads and three events a notification can find no, some or
  all threads waiting, and a woken thread can be overtaken by one that never slept.
- `loop_serial`: two clients, two requests each, two workers, so that two replies can
  be pending, stored and flushed in any order. `DrainMsgs` is 5 where `poller.cpp` has
  32 (64 bytes, two per message); a client that waits for its answer contributes at
  most one message, a worker one more, so at most `|Conns| + |Workers| = 4` can be in
  the pipe. The bound is tight: with `DrainMsgs = 4` the run fails. In production
  a hang needs the clients of 32 replies, with a message each, between two polls.
- `loop_leave`: two clients are the least for a descriptor to change hands, and
  two descriptors let it also happen while the other is in use. Each client may have
  a request sent before it leaves. Stranger's replies, garbled replies, the
  death of the process and reuse under an executing worker all occur in this run (the
  negation of each is violated).
- `sched`: two slaves and the master make a list of three, so that an element can be
  erased before, at and behind the place of another and sorting has something to do.
  `MaxFaild` is 2 where the code has 5: a first miss and an eviction are told apart, which
  is all the properties speak of, and `Scheduler_proofs` has no bound. The prompt slave may be
  accepted at any point of a round, the other may answer late, never, leave, or any of
  these in turn.
- `variant`: three variables share one array or one element three ways; two elements
  tell an array from its prefix and allow the same cell twice in one array. An
  operation is possible while the heap has the cells it takes (`Memory`). Five cells are
  an array of two, its copy that shares both elements, and one for the element that is
  then changed; or an array of two beside an array of one. Two types and two
  numbers reach both branches of the assignment. Cells have no identity, so the view
  of `MCVariant` keeps of a state only what is shared with what, the cells' contents and
  the number of free ones.
- `session`: two clients and two threads of one server are the least for the
  `redisContext` to be shared. Each has one connection. Calls are numbered 1, 2, 1, 2, …,
  enough to tell the answer to a call from that to the one before, and `Results` needs
  calls without end. One fault strikes at either end of redis.
- `session_late`: one client with one thread per server; two connections have the same
  name, as when a port is reused. Five calls leave room for `UNINIT`, an upload, a
  time-out and two calls behind it; with one each of time-out, fault, restart and move
  any order of them can occur. One time-out, because `NeverOlder` is about the first: after
  a second one an older answer can come back behind a newer one.
- `pack`: `Base = 4` makes the carry in the length, a checksum over a length that has
  overflowed and data that look like a head all occur within two packets. Data are up to
  three bytes, cut anywhere.
- `Wire`: half ranges of 1, 2, 4 and 8 instead of 2^7, 2^15, 2^31 and 2^63; arrays up to two
  elements with a bound of one.
- `Window = 1` is the client library: it sends and waits (`cmpOffloading.cpp:181-200`).
- `CHECK_DEADLOCK FALSE` is set where the program can stop: the process dies, the
  pool is destroyed, all clients have left or made their calls, or everything sent has
  been parsed.

Fairness. Each thread of the pool, the loop, and each worker is weakly fair: the
operating system schedules every thread, and callbacks return. The spin lock is
not fair, and no more than weak fairness of the threads is assumed for it. TCP
delivers what was sent to a connection that is up (`WF` of `Deliver`). Clients
connect, ask and leave as they like, without fairness. In the scheduler the tick
thread, the loop thread and the handler that interrupts it are weakly fair, each as
one thread, and prompt slaves answer; that they answer *within the second* is what
`Sleep` waits for, and the definition of a prompt slave. Command threads, the other
slaves and the signal have no fairness. In a session every thread runs, and the client
goes on calling, as the program that uses the library does in its loop; time-outs, faults
and restarts have no fairness. In `pack` a call of `parseFrom` is carried on; that the rest of
a packet arrives is not assumed.

Each property has a mutant: a changed definition of a step, such as a bug in that
piece of code would make it, under which the same run finds the property
violated. They stand beside the definition they change, marked as such.

## 4. The proofs

All are for arbitrary constants, without fairness.

`HandlerPool_proofs`:

- `TypeCorrect`: `Spec => []TypeOK`. The type invariant with the conjuncts that say who
  holds the lock and an event; it is inductive as it stands.
- `WorkIsConserved`: `Spec => []WorkConserving`. While some thread waits, queued
  events are no more than the threads on their way to the queue, plus the one whose
  notification is still to come. Inductive with `TypeOK`: a thread begins to wait only
  with the lock and an empty queue, and a popping thread removes one event and one
  contender.
- `PoolImplementsTaskQueue`: `Spec => ImplementsTaskQueue`. The mapping is the
  identity on the queue and on the threads' events; the extra invariant is that an
  event handed over is new to queue, threads and results (`FreshInvariant`).

`EventLoop_proofs`, whether or not the clients leave, pipeline and fragment:

- `TypeCorrect`, `DescriptorsAgree`, `OnlyOwnersClosed` follow from one inductive invariant
  `Inv`: `TypeOK`, `DescriptorsAccounted`, `ReportsCurrent` and `ConnectedOnce`.
  `DescriptorsAccounted` alone is not inductive. A deletion is appended by the close
  handler without any test, so no descriptor gets two of them only because each poll
  reports a closing once and all reports are dispatched before `waits` is processed
  (`ReportsCurrent`); and a socket has one descriptor only because its connection
  leaves the backlog when it is accepted (`ConnectedOnce`).
- `RepliesReachTheirClients`: `Spec => []RepliesStayHome`. Added to `Inv` is
  `RepliesOwned`: an event in `tasks` or at a worker carries the name of the client
  now behind its descriptor number *or of one that has gone*, and every buffer
  holds only replies that may reach its client. It survives `DelWait` because a
  descriptor is closed only after its client has gone, and clients do not come back.

- `ReadsShortRequests`: which amounts of data `Event::read` takes completely.

and for clients that are `Patient`, which the client library is: `exec` sends one request
and waits for the answer (`Window = 1`), a client stays (`~MayLeave`), and a request is
shorter than two reads and arrives whole (`BufSize >= 2`, `~Fragmenting`). A client that
pipelines can lose replies (section 5). The invariant `SInv` says where a request is: it, or its answer, is in
one place on its way through `tasks`, a worker, the entry and `replys` (`OnePlace`), and
everything the server holds of a descriptor belongs to the one request its client has sent
and not got an answer to (`OneAtATime`, `TasksBear`, `WorkersBear`, `EntriesBear`); the loop reads
a descriptor only when something is unread (`ReadsDue`), so never while a worker has it.

- `PatienceAvoidsRaces`: `Spec => [](Patient => NoRace)`.
- `LoopImplementsExchange`: `Spec /\ Patient => ImplementsExchange`. `Request` is `Ask`, `FlushReply`
  is `Answer`, everything else a stutter. The answer flushed is the next one of its client
  by `EntriesBear`.
- `DrainingReturns`: `Spec => [](Patient /\ FewParties => DrainReturns)`. `FewParties` says that
  a read of the pipe takes more messages than there are clients and workers; the code
  takes 32, and has as many workers as the configuration says. Messages in the pipe,
  workers about to write one and answers that will be announced are counted together
  (`MInv`): they belong to different clients and workers, and a worker that has written may
  write again only for another client's answer.

`Scheduler_proofs` (every race included): one inductive invariant `Inv`, from which
follow

- `TypeCorrect` and `ListMatchesSockets`. `ListedOpen` needs `AddingOpen`: the slave being
  added has an open socket and is not listed, and before the tick thread's first
  step the master is not listed; otherwise a push could list a server twice.
- `ListStaysSorted`: `Ordered` with the types. Appending keeps the order only because
  a new server has the greatest load there is (`NewcomerLast`).
- `PromptSlavesStay`: `PromptKept` is not inductive. `PromptAsked` says why a second miss
  cannot follow: a prompt slave that has missed a collection has, behind the place
  of the sending loop, been asked or answered, and has an answer waiting ahead of the
  place of the collecting loop.
- `ClientsGetTheLeastLoaded`: `FitLeast`, an action property, from `Ordered`.

`ClientSession_proofs` (any number of everything, any names, faults and restarts):

- `TypeCorrect`, with `Opened` (a new connection is unused, a client's connection is its
  own) and `Working` (what is executed is for a connection that is served or that a
  thread outlives).
- `CacheCleared`: `CacheServed`, from `Working`. A directory appears only by a thread that
  executes for a known connection, and when the close handler forgets a connection
  either it removes the directory or a thread is still at work (`KnownStep`).
- `OwnScripts`: `OwnScript` is not inductive: an answer is right because the cache is, the
  cache because redis is, redis because the `UNINIT` answer told the client its own
  connection's name, and this because of where events are copied to. `Fitting` says so of
  every place where a text or a name can be. The text a thread takes out of the
  `redisContext` is the one it asked for because at most one thread is in there
  (`OneInContext`), which is what `~overlapped` means; a restart empties the context with
  the threads.

`ClientSession_answer_proofs`, first part (the same, but `MaxTimeouts = 0`):

- `OwnAnswers`: `Spec => []OwnAnswer`. `OwnAnswer` speaks only of answers already taken. The
  invariant `SInv` follows the request of a call: it is in one place, be it the socket, a
  task, a thread, the reply buffer or as an answer in the socket again (`OnePlace`, `OneTask`,
  `OneJob`), and wherever it is, its caller waits on that connection with that number
  (`QueuesAwaited`, `TasksAwaited`, `JobsAwaited`). A caller stops waiting without an answer only
  when the stream ends, and by then the server holds nothing of the connection (`Ended`),
  because everything executed for it was at the server that restarted (`Working`). A
  time-out breaks the second part, and nothing else: the caller leaves while its request
  is under way.

- `OneUpload`: `Spec => [](MaxTimeouts = 0 => UploadOnce)`. An `UNINIT` that is on its way, or
  about to be given, is charged to a fault of redis: `Charged` says that there were then no more
  uploads than faults. This is inductive because the script an upload has put into redis stays
  in redis or in the cache directory of the connection while the connection is served
  (`Stored`), so a thread is denied it only by a further fault; and a thread that finds the
  directory without a script is the only one at work for the connection (`SInv`, `Missing`).
  Without time-outs no thread outlives its connection (`outlived = {}` in `Placed`), hence
  none writes into, or deletes the script of, a later connection of the same name.

`ClientSession_answer_proofs`, second part (one time-out, one command thread, calls that differ by number):

- `NeverBehind`: `Spec => [](Late => NeverOlder)`. After a time-out the request given up, or its answer,
  is still on its way, and the next call's behind it. What a connection holds is in at most
  two places (`AtMost`, `Room`), and the further a place is on the way the older its calls
  (`InOrder`); a client asks for nothing older than it has heard (`Recent`). Steps of the
  server are maps between places that keep their order (`Moves`). The hypotheses are what this
  needs, and the run `session_late` has them: two command threads can pass each other, numbers
  that repeat are not ordered, and after a second time-out an older answer can indeed come
  back behind a newer one.

`ProPack_proofs` (any base, table, packets, cuts):

- `TypeCorrect`, `PacketsInOrder` (`InOrder`) and `AllReturned` (`NothingLost`) follow from `Inv`:
  the stream is the packets, one behind the other (`Layout`), and what is in it is what
  was generated as long as nothing is damaged (`Intact`); what has been returned is a
  prefix of what was sent and the buffer begins where the next packet does
  (`Consumed`); when `parseFrom` has returned FALSE less than a packet is left (`Waits`).
  `InOrder` alone is not inductive: it says nothing of where in the stream the buffer begins.

- `DamageIsSeen`: `Spec => []DamageSeen`, by a second invariant, `SeenInv`: a packet has at most one
  byte that is not as it was generated, one of its body (`Almost`, `Apart`); and since lengths
  are not damaged, the buffer begins with a packet until bytes are thrown away (`Aligned`).
  The rest is about `CRC8`: one byte of those it covers that is another makes another checksum
  (`OneByteSeen`). This is an induction over the bytes. The library's induction theorems
  cannot be used, so it is over sets of numbers (`Induction`, from `Least`), and first the
  recursive function in `CRC8` is shown to exist for every sequence (`ChecksumsExist`).

  For the values in the packets, integers of any width, floating-point numbers and strings of
  any kind: `NumbersArrive`, `ArraysArrive`, `ResultsAreStable`, `KillersKnown`, the four properties of
  `Wire`.

`Variant_proofs` (any variables, heap, types and lengths, elements of shared arrays assigned or not):

- `TypeCorrect` and `CountsExact` (`Counted`). An operation takes references in hand, copies, releases
  and stores them, and only at its end is the count of a cell the number of its holders. So the
  invariant is about a heap and a function `x`, the references from outside the heap: `Sound(x, h)`
  says that the count of each cell is `x` of it plus the places in arrays that hold it, and that
  arrays hold base values of their type which are not free (`Shaped`). Each piece of code, `Own`,
  `Drop`, `Write`, `Insert`, has a lemma that it leads from a sound heap to a sound heap with the
  references it took and gave (`OwnSound`, `ReleaseSound`, ...); between operations `x` counts the
  variables. `Drop` of an array is the hard one: it gives back one reference for each place,
  and several places may hold the same cell.

`Variant_values_proofs` (any variables, heap, types and lengths, `~IndexShared`: no element of a shared
array is assigned through `operator[]`, which `variant_index` shows to change its copies):

- `VariantsAreValues`: `~IndexShared /\ Spec => ImplementsValues`, one lemma for each operation
  (`SetValues`, `ShareValues`, `InsertValue`, `EraseValues`, ...). What the operation does for its own
  variable is a calculation; that no other variable shows anything else is the point, and it
  follows from `Counted`. A step changes contents in a few cells only (`Stable`), and for each of
  them its count is one after the step. Since counts are exact, its one holder is the variable
  (`SoleHolder`), or an element of an array that nobody else sees (`SoleElement`), so no other
  variable sees the cell (`Private`, `OthersKept`). Cells that others see may change their counts,
  and nothing of what they show.
- `CopiesOnWrite`: `~IndexShared /\ Spec => CopyOnWrite`, from the same step: no action of `Values` gives
  two variables another value. This is the property that `variant_index` finds violated with
  `IndexShared`: assignments through `operator[]` are the only way to break it.

Assumptions used: the named assumptions on the constants, in the modules that
declare them; every model run evaluates them. `ProPack` assumes of the checksum's table what
`crc_table` has: no number twice, so that another byte, or another checksum so far, makes
another checksum (`CrcAssumption`). `Variant` assumes that an array has room for
the two elements that appending to a base value makes, and that the variant of no type
is none of the values (`EmptyAssumption`).

Only model-checked: liveness (`QueuedIsRun`, `Answered`, `LeaverReleased`,
`SilentEvicted`, `StopReturns`, `Results`, `Returns`), which is beyond the prover. Every other
property of a passing run is proved.

## 5. Findings

- **The destructor of an asynchronous handler does not return** (`pool_shutdown`).
  `eventHandler.h:35` gives `parallels == -1` the meaning "being destroyed". The
  destructor stores -1, notifies and joins, but the predicate of `cv.wait` looks only
  at the queue, so a waiting thread waits again. The counterexample ends in `join`
  with a thread that can only wait, or wake spuriously and wait again, for ever. A
  slave that cannot reach its master returns from `main` with idle command threads
  (`main.cpp:135`) and runs into it.
- **The incomplete tail of the input is not put back** (`loop_fragment`), against the
  comment at `cmdHandler.cpp:218`: a request that arrives in two pieces is never
  answered.
- **Assigning an element of a copied array changes the original** (`variant_index`),
  against the copy-on-write of `CVariant.cpp:79` and `CVariant.h:173`.
- **A client does not connect again** (`session_reconnect`), against
  `cmpOffloading.cpp:556`: the descriptor stays positive when the server closes, so
  `__connect` returns at once; only a failing write resets it, and a write behind a reset
  raises `SIGPIPE`.

The modules also show, without a run of their own:

- A client can receive the reply to a client that left before it (`RepliesStayHome` says
  how far this goes), and two replies can be lost or garbled as soon as a client pipelines.
- `stop` hangs if the signal interrupts `addServer` between its lock and unlock (the
  exception in `StopReturns`), and a slave pushed while the list is being sorted can be
  lost, with its socket left open (`PushServ`).
- `setValue` drops an array that is a prefix of the current one, or the other way round,
  against `common.h:32` (`Begins` in `Values`).
- After a time-out the late answer is taken for the answer to the next call, together with
  that call's cost, against `cmpOffloading.cpp:513` (`NeverOlder` says what is left). The client
  stays a call behind until several answers come at once or its server changes.
- Two command threads in the `redisContext` swap the replies of redis: a script can be
  executed for the other client, or be deleted before it was read, and two clients can
  upload for ever (the `overlapped` in `OwnScript` and `Results`).
- A script uploaded for a connection that has gone stays in redis, and is executed for a
  later connection of the same address.
- A byte with the head's value in front of a packet makes `parseFrom` return FALSE before a
  packet that is complete, against `cmpOffProto.hpp:109`, until as many bytes have come as
  the false length claims; the callers throw the buffer away before that.
- An array of floating-point numbers, or an unsigned number of more than 63 bits, ends
  the runner with an exception (`KilledOnly`). Elements of arrays of short, char or unsigned
  types are sent as whatever was in memory (`ItemsSent`).

## 6. Not modelled

- The Python C API, hiredis, `CJsonObject` and base64 are other people's code, vendored
  here, and most of the repository's lines. The modules use them as the code in `src/` does: Python
  and redis are described where they are used, JSON and base64 carry what they are given.
- The measuring of loads (`cpuInfo.cpp`): a load is a choice of a number.
- Start-up: `main.cpp` of client and server, the reading of configurations, failing
  `socket`, `bind` and `epoll_ctl`.
- Limits of the operating system: no free descriptor in `accept`, a full socket buffer at
  `Event::write`, a full pipe. Where they bite is in the list of hazards.
- `CVariant`: strings, conversions, `toString`, nested arrays (see above).

## 7. The plan

Done: the pool, the loop with its handlers, the scheduler, the variants, the session,
the packets, the values, and the proofs listed in section 4. What could follow:

1. Descriptors that run out: `accept` failing on an edge-triggered listener, with the
   backlog that then waits for the next connection.
2. A slave's late load, read in the tick after the one it was measured for, as a property
   of the order of two answers.
