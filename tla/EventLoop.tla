------------------------------ MODULE EventLoop ------------------------------
(***************************************************************************)
(* The server's event loop (server/src/eventLoop.cpp, poller.cpp, event.cpp) *)
(* with the handlers it drives (eventHandler.cpp, cmdHandler.cpp).  The    *)
(* loop thread runs the accept, reply and close handlers itself; command   *)
(* events go to the threads of EventHandlerCMD through a queue that        *)
(* behaves as TaskQueue (HandlerPool shows how).                           *)
(*                                                                         *)
(* Outside src/: the clients, TCP, epoll and the pipe.  A client's         *)
(* requests are numbered, and each is two halves on the byte stream:       *)
(* halves 2n-1 and 2n of c's stream are request n.  A reply to it is the   *)
(* pair <<c, n>>.  The stream's state is three counts of halves.           *)
(***************************************************************************)
EXTENDS Integers, Sequences, FiniteSets

CONSTANTS Conns,        \* the connections clients open, each once
          Fds,          \* the descriptor numbers accept() can return
          Workers,      \* the threads of EventHandlerCMD
          None,
          Listener,     \* the listening socket, never closed
          Awake,        \* the read end of the poller's pipe
          Torn,         \* what a racing access may see of a reply buffer
          MaxReq,       \* bound: requests per connection
          Window,       \* requests a client leaves unanswered (1: it waits)
          Fragmenting,  \* a request may arrive in two pieces
          MayLeave,     \* clients may close their connection
          BufSize,      \* BUF_SIZE of Event::read, in halves
          DrainMsgs     \* wake-up messages per read of the pipe (32 in poller.cpp)

ASSUME BoundsAssumption ==
  /\ MaxReq \in Nat /\ Window \in Nat \ {0}
  /\ BufSize \in Nat \ {0} /\ DrainMsgs \in Nat \ {0}
ASSUME FlagsAssumption == Fragmenting \in BOOLEAN /\ MayLeave \in BOOLEAN
ASSUME NamesAssumption ==
  /\ None \notin Conns \cup Fds
  /\ Listener \notin Fds /\ Awake \notin Fds \cup {Listener}
  /\ Torn \notin Conns

VARIABLES
  (* The clients and the network. *)
  conn,      \* conn[c]: "new", "up", "left" (FIN arrived) or "rst" (reset)
  sent,      \* halves written by the client
  arrived,   \* halves in, or through, the server's receive buffer
  got,       \* replies the client has received
  backlog,   \* connections waiting for accept()
  (* The kernel's side of the server. *)
  sock,      \* sock[f]: the connection behind descriptor f, or None
  taken,     \* halves the server has read
  ready,     \* descriptors with an edge epoll has not reported yet
  pipe,      \* messages in the poller's pipe
  alive,     \* the process has neither been killed nor crashed
  (* The loop thread. *)
  lpc,       \* where the loop is
  cur,       \* the descriptor its current handler works on
  fired,     \* the events reported by the last poll, not yet dispatched
  waits,     \* additions and deletions to be made
  (* Shared with the worker threads. *)
  events,    \* events[f]: the entry of the events map, or None
  replys,    \* descriptors with a reply to send
  tasks,     \* EventHandlerCMD's queue
  (* The worker threads. *)
  wpc,       \* where worker w is
  task       \* the event worker w executes

clientVars == <<conn, sent, arrived, got, backlog>>
kernelVars == <<sock, taken, ready, pipe, alive>>
loopVars == <<lpc, cur, fired, waits>>
sharedVars == <<events, replys, tasks>>
workerVars == <<wpc, task>>
vars == <<clientVars, kernelVars, loopVars, sharedVars, workerVars>>
-----------------------------------------------------------------------------
(* Descriptors, buffers and the locks.                                     *)

Gone(c) == conn[c] \in {"left", "rst"}
Unread(f) == arrived[sock[f]] - taken[sock[f]]
FreeFds == {f \in Fds : sock[f] = None}

\* The registered descriptors of connection c: its edges are reported.
Registered(c) == {f \in Fds : sock[f] = c /\ events[f] # None}

\* The spin lock eventsMapLock is held only around a worker's store.
MapLockFree == \A w \in Workers : wpc[w] # "store"

\* The loop is at an access to the current entry, made without the lock,
\* while a worker stores into that entry.
Racers == {w \in Workers : wpc[w] = "store" /\ task[w].fd = cur}

\* What a read of the current entry's reply buffer may return.
SeenSend == {events[cur].send} \cup
            UNION {{task[w].send, <<<<Torn, 0>>>>} : w \in Racers}

\* Event::read: of n halves available, chunks of BufSize, and one chunk more
\* than n % BufSize of them.
ReadCount(n) == LET most == ((n % BufSize) + 1) * BufSize
                IN  IF n < most THEN n ELSE most

\* ProPack::parseFrom, until it returns false: the requests that are complete in
\* a buffer of len halves ending at half last of a stream.  A half without its
\* head is skipped, an incomplete tail ends the parsing.
Parsed(last, len) ==
  LET first == (last - len + 1) \div 2 + 1
  IN  [i \in 1 .. (last \div 2 - first + 1) |-> first + i - 1]

\* EventHandlerCMD::handler_callback: each request parsed is executed, and its
\* answer appended to what the event's reply buffer already holds.
HandlerCallback(e) ==
  LET requests == Parsed(e.last, e.recv)
  IN  e.send \o [i \in DOMAIN requests |-> <<e.name, requests[i]>>]

\* ::write on descriptor f.  A peer that has closed answers data with a reset; a write
\* after a reset fails, or raises SIGPIPE, which nobody handles.
Write(f, data) ==
  LET c == sock[f] IN
  \/ /\ conn[c] = "up"
     /\ got' = [got EXCEPT ![c] = @ \o data]
     /\ UNCHANGED <<conn, alive>>
  \/ /\ conn[c] = "left"
     /\ \/ UNCHANGED conn
        \/ data # <<>> /\ conn' = [conn EXCEPT ![c] = "rst"]
     /\ UNCHANGED <<got, alive>>
  \/ /\ conn[c] = "rst"
     /\ alive' \in BOOLEAN
     /\ UNCHANGED <<conn, got>>

\* EventLoop::addEvent and EventLoop::deletEvent, called by the handlers the
\* loop runs itself.
AddEvent(f, c) == waits' = Append(waits, [op |-> "add", fd |-> f, name |-> c])
DeletEvent(f) == waits' = Append(waits, [op |-> "del", fd |-> f, name |-> None])
-----------------------------------------------------------------------------
\* The listener is registered and the loop about to start (main.cpp:149).
Init ==
  /\ conn = [c \in Conns |-> "new"]
  /\ sent = [c \in Conns |-> 0]
  /\ arrived = [c \in Conns |-> 0]
  /\ got = [c \in Conns |-> <<>>]
  /\ backlog = <<>>
  /\ sock = [f \in Fds |-> None]
  /\ taken = [c \in Conns |-> 0]
  /\ ready = {}
  /\ pipe = 0
  /\ alive = TRUE
  /\ lpc = "replys" /\ cur = None /\ fired = {} /\ waits = <<>>
  /\ events = [f \in Fds |-> None]
  /\ replys = <<>>
  /\ tasks = <<>>
  /\ wpc = [w \in Workers |-> "idle"]
  /\ task = [w \in Workers |-> None]
-----------------------------------------------------------------------------
(* The clients and the network.                                            *)

Connect(c) ==
  /\ conn[c] = "new"
  /\ conn' = [conn EXCEPT ![c] = "up"]
  /\ backlog' = Append(backlog, c)
  /\ ready' = ready \cup {Listener}
  /\ UNCHANGED <<sent, arrived, got, sock, taken, pipe, alive, loopVars, sharedVars, workerVars>>

\* A client sends its next request when fewer than Window are unanswered.
Request(c) ==
  /\ conn[c] = "up" /\ sent[c] + 2 <= 2 * MaxReq
  /\ sent[c] < 2 * (Len(got[c]) + Window)
  /\ sent' = [sent EXCEPT ![c] = @ + 2]
  /\ UNCHANGED <<conn, arrived, got, backlog, kernelVars, loopVars, sharedVars, workerVars>>

\* Data reaches the server's receive buffer: an edge for epoll.
Deliver(c) ==
  /\ \E n \in (IF Fragmenting THEN {1, 2} ELSE {2}) :
       arrived[c] + n <= sent[c] /\ arrived' = [arrived EXCEPT ![c] = @ + n]
  /\ ready' = ready \cup Registered(c)
  /\ UNCHANGED <<conn, sent, got, backlog, sock, taken, pipe, alive, loopVars, sharedVars, workerVars>>

\* The client closes: FIN, or RST if it had not read everything.
Leave(c) ==
  /\ MayLeave /\ conn[c] = "up" /\ arrived[c] = sent[c]
  /\ \E s \in {"left", "rst"} : conn' = [conn EXCEPT ![c] = s]
  /\ ready' = ready \cup Registered(c)
  /\ UNCHANGED <<sent, arrived, got, backlog, sock, taken, pipe, alive, loopVars, sharedVars, workerVars>>
-----------------------------------------------------------------------------
(* The loop: beforePoll, that is handlerReplys and handlerWaits.           *)

\* A descriptor without an entry is skipped.
PopReply ==
  /\ lpc = "replys" /\ replys # <<>> /\ MapLockFree
  /\ replys' = Tail(replys)
  /\ IF events[Head(replys)] # None
       THEN cur' = Head(replys) /\ lpc' = "flush"
       ELSE UNCHANGED <<cur, lpc>>
  /\ UNCHANGED <<clientVars, kernelVars, fired, waits, events, tasks, workerVars>>

\* Mutant of FlushReply: the reply buffer is copied instead of moved out.
FlushReplyKept ==
  /\ lpc = "flush"
  /\ \E data \in SeenSend : Write(cur, data)
  /\ lpc' = "replys"
  /\ UNCHANGED <<sent, arrived, backlog, sock, taken, ready, pipe, cur, fired, waits, sharedVars, workerVars>>

\* EventHandlerReply, run in the loop: the entry's reply buffer is moved out
\* without the lock, and written.
FlushReply ==
  /\ lpc = "flush"
  /\ \E data \in SeenSend : Write(cur, data)
  /\ events' = [events EXCEPT ![cur].send = <<>>]
  /\ lpc' = "replys"
  /\ UNCHANGED <<sent, arrived, backlog, sock, taken, ready, pipe, cur, fired, waits, replys, tasks, workerVars>>

EndReplys ==
  /\ lpc = "replys" /\ replys = <<>>
  /\ lpc' = "waits"
  /\ UNCHANGED <<clientVars, kernelVars, cur, fired, waits, sharedVars, workerVars>>

\* Registering a socket that is already readable or closed is an edge.
AddWait ==
  /\ lpc = "waits" /\ waits # <<>> /\ MapLockFree
  /\ Head(waits).op = "add"
  /\ LET f == Head(waits).fd IN
       /\ events' = [events EXCEPT ![f] = [name |-> Head(waits).name, recv |-> 0, send |-> <<>>]]
       /\ ready' = IF Unread(f) > 0 \/ Gone(sock[f]) THEN ready \cup {f} ELSE ready
  /\ waits' = Tail(waits)
  /\ UNCHANGED <<clientVars, sock, taken, pipe, alive, lpc, cur, fired, replys, tasks, workerVars>>

\* Mutant of DelWait: the entry stays in the map.
DelWaitWithoutErase ==
  /\ lpc = "waits" /\ waits # <<>> /\ MapLockFree
  /\ Head(waits).op = "del"
  /\ LET f == Head(waits).fd IN
       /\ ready' = ready \ {f}
       /\ sock' = [sock EXCEPT ![f] = None]
  /\ waits' = Tail(waits)
  /\ UNCHANGED <<clientVars, taken, pipe, alive, lpc, cur, fired, sharedVars, workerVars>>

\* The entry is erased under the lock, then the descriptor leaves epoll and is
\* closed.
DelWait ==
  /\ lpc = "waits" /\ waits # <<>> /\ MapLockFree
  /\ Head(waits).op = "del"
  /\ LET f == Head(waits).fd IN
       /\ events' = [events EXCEPT ![f] = None]
       /\ ready' = ready \ {f}
       /\ sock' = [sock EXCEPT ![f] = None]
  /\ waits' = Tail(waits)
  /\ UNCHANGED <<clientVars, taken, pipe, alive, lpc, cur, fired, replys, tasks, workerVars>>

EndWaits ==
  /\ lpc = "waits" /\ waits = <<>>
  /\ lpc' = "poll"
  /\ UNCHANGED <<clientVars, kernelVars, cur, fired, waits, sharedVars, workerVars>>
-----------------------------------------------------------------------------
(* The loop: poll and the dispatching of the events it reports.            *)

\* One event per descriptor with an edge that still has a reason; a closed
\* peer hides unread data.
Reported(f) ==
  \/ f = Listener /\ backlog # <<>>
  \/ f \in Fds /\ (Gone(sock[f]) \/ Unread(f) > 0)

\* Mutant of EventType: data goes before the end of the stream.
EventTypeDataFirst(f) ==
  IF f \in Fds /\ Unread(f) = 0 /\ Gone(sock[f]) THEN "close" ELSE "read"

EventType(f) == IF f \in Fds /\ Gone(sock[f]) THEN "close" ELSE "read"

\* Without an edge the poll times out with nothing to dispatch.
Poll ==
  /\ lpc = "poll"
  /\ fired' = {[fd |-> f, type |-> EventType(f)] : f \in {g \in ready : Reported(g)}}
  /\ ready' = {}
  /\ lpc' = IF Awake \in ready /\ pipe > 0 THEN "drain" ELSE "dispatch"
  /\ UNCHANGED <<clientVars, sock, taken, pipe, alive, cur, waits, sharedVars, workerVars>>

\* Mutant of Drain: the pipe is read until a read returns nothing.
DrainUntilEmpty ==
  /\ lpc = "drain" /\ pipe > 0
  /\ pipe' = IF pipe >= DrainMsgs THEN pipe - DrainMsgs ELSE 0
  /\ UNCHANGED <<clientVars, sock, taken, ready, alive, loopVars, sharedVars, workerVars>>

\* The pipe is read until a read returns less than it asked for.  The pipe is
\* blocking: a read of the empty pipe waits for the next message.
Drain ==
  /\ lpc = "drain" /\ pipe > 0
  /\ IF pipe >= DrainMsgs
       THEN pipe' = pipe - DrainMsgs /\ UNCHANGED lpc
       ELSE pipe' = 0 /\ lpc' = "dispatch"
  /\ UNCHANGED <<clientVars, sock, taken, ready, alive, cur, fired, waits, sharedVars, workerVars>>

\* The entry is looked up under the lock and used without it.
Dispatch(e) ==
  /\ lpc = "dispatch" /\ e \in fired /\ MapLockFree
  /\ fired' = fired \ {e}
  /\ \/ e.fd = Listener /\ lpc' = "accept" /\ UNCHANGED cur
     \/ e.fd # Listener /\ events[e.fd] # None /\ lpc' = e.type /\ cur' = e.fd
     \/ e.fd # Listener /\ events[e.fd] = None /\ UNCHANGED <<lpc, cur>>
  /\ UNCHANGED <<clientVars, kernelVars, waits, sharedVars, workerVars>>

EndDispatch ==
  /\ lpc = "dispatch" /\ fired = {}
  /\ lpc' = "replys"
  /\ UNCHANGED <<clientVars, kernelVars, cur, fired, waits, sharedVars, workerVars>>

\* EventHandlerAccept: one accept() of its loop.
Accept(f) ==
  /\ lpc = "accept" /\ backlog # <<>> /\ f \in FreeFds
  /\ sock' = [sock EXCEPT ![f] = Head(backlog)]
  /\ AddEvent(f, Head(backlog))
  /\ backlog' = Tail(backlog)
  /\ UNCHANGED <<conn, sent, arrived, got, taken, ready, pipe, alive, lpc, cur, fired, sharedVars, workerVars>>

\* Mutant of EndAccept: the handler need not accept until accept() fails.
EndAcceptEarly ==
  /\ lpc = "accept"
  /\ lpc' = "dispatch"
  /\ UNCHANGED <<clientVars, kernelVars, cur, fired, waits, sharedVars, workerVars>>

\* accept() fails: nobody is waiting, or there is no descriptor left.
EndAccept ==
  /\ lpc = "accept" /\ (backlog = <<>> \/ FreeFds = {})
  /\ lpc' = "dispatch"
  /\ UNCHANGED <<clientVars, kernelVars, cur, fired, waits, sharedVars, workerVars>>

\* Mutant of ReadCmd: the connection is deleted once its request is handed over.
ReadCmdThenDelete ==
  /\ lpc = "read"
  /\ LET c == sock[cur]
         n == ReadCount(Unread(cur))
     IN  /\ taken' = [taken EXCEPT ![c] = @ + n]
         /\ tasks' = Append(tasks, [fd |-> cur, name |-> events[cur].name,
                                    recv |-> events[cur].recv + n, last |-> taken[c] + n,
                                    send |-> events[cur].send])
  /\ DeletEvent(cur)
  /\ lpc' = "dispatch"
  /\ UNCHANGED <<clientVars, sock, ready, pipe, alive, cur, fired, events, replys, workerVars>>

\* EventHandlerCMD::beforeHandlerEvent and the hand-over to the threads: the
\* entry is copied, its reply buffer included, and the copy reads the socket.
ReadCmd ==
  /\ lpc = "read"
  /\ LET c == sock[cur]
         n == ReadCount(Unread(cur))
     IN  /\ taken' = [taken EXCEPT ![c] = @ + n]
         /\ \E data \in SeenSend :
              tasks' = Append(tasks, [fd |-> cur, name |-> events[cur].name,
                                      recv |-> events[cur].recv + n, last |-> taken[c] + n,
                                      send |-> data])
  /\ lpc' = "dispatch"
  /\ UNCHANGED <<clientVars, sock, ready, pipe, alive, cur, fired, waits, events, replys, workerVars>>

\* Mutant of CloseConn: the handler closes the descriptor itself at once.
CloseConnAtOnce ==
  /\ lpc = "close"
  /\ sock' = [sock EXCEPT ![cur] = None]
  /\ DeletEvent(cur)
  /\ lpc' = "dispatch"
  /\ UNCHANGED <<clientVars, taken, ready, pipe, alive, cur, fired, sharedVars, workerVars>>

\* EventHandlerClose: the deletion is queued for handlerWaits.
CloseConn ==
  /\ lpc = "close"
  /\ DeletEvent(cur)
  /\ lpc' = "dispatch"
  /\ UNCHANGED <<clientVars, kernelVars, cur, fired, sharedVars, workerVars>>

\* An access that races with a worker's store may crash the process.
RaceCrash ==
  /\ lpc \in {"flush", "read", "close"} /\ Racers # {}
  /\ alive' = FALSE
  /\ UNCHANGED <<clientVars, sock, taken, ready, pipe, loopVars, sharedVars, workerVars>>
-----------------------------------------------------------------------------
(* The worker threads of EventHandlerCMD: execCallback and addReplys.      *)

\* Mutant of Take: the event is read but not popped.
TakeWithoutPop(w) ==
  /\ wpc[w] = "idle" /\ tasks # <<>>
  /\ task' = [task EXCEPT ![w] = Head(tasks)]
  /\ wpc' = [wpc EXCEPT ![w] = "exec"]
  /\ UNCHANGED <<clientVars, kernelVars, loopVars, sharedVars>>

Take(w) ==
  /\ wpc[w] = "idle" /\ tasks # <<>>
  /\ task' = [task EXCEPT ![w] = Head(tasks)]
  /\ tasks' = Tail(tasks)
  /\ wpc' = [wpc EXCEPT ![w] = "exec"]
  /\ UNCHANGED <<clientVars, kernelVars, loopVars, events, replys>>

\* Mutant of ExecCallback: addReplys does not take the lock.
ExecCallbackUnlocked(w) ==
  /\ wpc[w] = "exec"
  /\ LET e == task[w] IN
       IF events[e.fd] # None
         THEN /\ task' = [task EXCEPT ![w].send = HandlerCallback(e)]
              /\ wpc' = [wpc EXCEPT ![w] = "store"]
         ELSE /\ task' = [task EXCEPT ![w] = None]
              /\ wpc' = [wpc EXCEPT ![w] = "idle"]
  /\ UNCHANGED <<clientVars, kernelVars, loopVars, sharedVars>>

\* The callback answers the complete requests, and addReplys takes the lock and
\* finds the entry: a reply nobody is registered for is dropped.
ExecCallback(w) ==
  /\ wpc[w] = "exec" /\ MapLockFree
  /\ LET e == task[w] IN
       IF events[e.fd] # None
         THEN /\ task' = [task EXCEPT ![w].send = HandlerCallback(e)]
              /\ wpc' = [wpc EXCEPT ![w] = "store"]
         ELSE /\ task' = [task EXCEPT ![w] = None]
              /\ wpc' = [wpc EXCEPT ![w] = "idle"]
  /\ UNCHANGED <<clientVars, kernelVars, loopVars, sharedVars>>

\* The reply replaces what the entry held; the lock is given back.
StoreReply(w) ==
  /\ wpc[w] = "store"
  /\ events' = [events EXCEPT ![task[w].fd].send = task[w].send]
  /\ wpc' = [wpc EXCEPT ![w] = "push"]
  /\ UNCHANGED <<clientVars, kernelVars, loopVars, replys, tasks, task>>

PushReply(w) ==
  /\ wpc[w] = "push"
  /\ replys' = Append(replys, task[w].fd)
  /\ wpc' = [wpc EXCEPT ![w] = "wake"]
  /\ task' = [task EXCEPT ![w] = None]
  /\ UNCHANGED <<clientVars, kernelVars, loopVars, events, tasks>>

\* Poller::aweak.
Wake(w) ==
  /\ wpc[w] = "wake"
  /\ pipe' = pipe + 1
  /\ ready' = ready \cup {Awake}
  /\ wpc' = [wpc EXCEPT ![w] = "idle"]
  /\ UNCHANGED <<clientVars, sock, taken, alive, loopVars, sharedVars, task>>
-----------------------------------------------------------------------------
LoopStep ==
  \/ PopReply \/ FlushReply \/ EndReplys
  \/ AddWait \/ DelWait \/ EndWaits
  \/ Poll \/ Drain \/ EndDispatch
  \/ \E e \in fired : Dispatch(e)
  \/ (\E f \in Fds : Accept(f)) \/ EndAccept
  \/ ReadCmd \/ CloseConn

WorkerStep(w) == Take(w) \/ ExecCallback(w) \/ StoreReply(w) \/ PushReply(w) \/ Wake(w)

ClientStep == \E c \in Conns : Connect(c) \/ Request(c) \/ Deliver(c) \/ Leave(c)

Next ==
  \/ ClientStep
  \/ alive /\ LoopStep
  \/ alive /\ RaceCrash
  \/ alive /\ \E w \in Workers : WorkerStep(w)

Spec == Init /\ [][Next]_vars
\* The loop, each worker and the network are scheduled; clients do as they like.
FairSpec ==
  /\ Spec
  /\ WF_vars(alive /\ LoopStep)
  /\ \A w \in Workers : WF_vars(alive /\ WorkerStep(w))
  /\ \A c \in Conns : WF_vars(Deliver(c))
-----------------------------------------------------------------------------
(* Properties.                                                             *)

Replies == (Conns \cup {Torn}) \X Int
Entries == [name : Conns, recv : Nat, send : Seq(Replies)]
Events == [fd : Fds, name : Conns, recv : Nat, last : Nat, send : Seq(Replies)]
Ops == [op : {"add", "del"}, fd : Fds, name : Conns \cup {None}]
Reports == [fd : Fds \cup {Listener}, type : {"read", "close"}]
LoopPCs == {"replys", "flush", "waits", "poll", "drain", "dispatch", "read", "accept", "close"}
WorkerPCs == {"idle", "exec", "store", "push", "wake"}

ASSUME NoneAssumption == None \notin Entries \cup Events

\* Types; a worker has an event exactly while it executes one; only one worker
\* is inside eventsMapLock; a handler of the loop works on a live entry.
TypeOK ==
  /\ conn \in [Conns -> {"new", "up", "left", "rst"}]
  /\ sent \in [Conns -> 0 .. 2 * MaxReq]
  /\ arrived \in [Conns -> Nat] /\ taken \in [Conns -> Nat]
  /\ \A c \in Conns : taken[c] <= arrived[c] /\ arrived[c] <= sent[c]
  /\ got \in [Conns -> Seq(Replies)]
  /\ backlog \in Seq(Conns)
  /\ sock \in [Fds -> Conns \cup {None}]
  /\ ready \subseteq Fds \cup {Listener, Awake}
  /\ pipe \in Nat /\ alive \in BOOLEAN
  /\ lpc \in LoopPCs /\ cur \in Fds \cup {None}
  /\ fired \subseteq Reports
  /\ waits \in Seq(Ops)
  /\ events \in [Fds -> Entries \cup {None}]
  /\ replys \in Seq(Fds)
  /\ tasks \in Seq(Events)
  /\ wpc \in [Workers -> WorkerPCs]
  /\ task \in [Workers -> Events \cup {None}]
  /\ \A w \in Workers : (task[w] # None) <=> (wpc[w] \in {"exec", "store", "push"})
  /\ \A v, w \in Workers : wpc[v] = "store" /\ wpc[w] = "store" => v = w
  /\ \A w \in Workers : wpc[w] = "store" => events[task[w].fd] # None
  /\ lpc \in {"flush", "read", "close"} => cur \in Fds /\ events[cur] # None

Adding(f) == \E i \in DOMAIN waits : waits[i].op = "add" /\ waits[i].fd = f
Deleting(f) == \E i \in DOMAIN waits : waits[i].op = "del" /\ waits[i].fd = f

\* The socket table, the events map and the operations in waits agree: an open
\* socket is either registered under its client's name or about to be, so no
\* descriptor leaks; a deletion is pending only for a registered descriptor
\* whose client has gone; no descriptor has two operations pending
\* (eventLoop.cpp:121-150, eventHandler.cpp:190-257).
DescriptorsAccounted ==
  /\ \A f \in Fds : sock[f] # None <=> (events[f] # None \/ Adding(f))
  /\ \A f \in Fds : Adding(f) => events[f] = None
  /\ \A f \in Fds : events[f] # None => events[f].name = sock[f]
  /\ \A f \in Fds : Deleting(f) => events[f] # None /\ Gone(sock[f])
  /\ \A i, j \in DOMAIN waits : waits[i].fd = waits[j].fd => i = j
  /\ \A f, g \in Fds : sock[f] # None /\ sock[f] = sock[g] => f = g

\* close() never hits a descriptor that accept() has given to somebody else in
\* the meantime: a descriptor is closed only when its own client has left, and
\* it is free before it is used again (eventLoop.cpp:136-150).
CloseHitsOwner ==
  [][\A f \in Fds : sock[f] # None /\ sock'[f] # sock[f]
                     => sock'[f] = None /\ Gone(sock[f])]_vars

\* A worker may answer on a descriptor that has been closed and reused since it
\* took its event.  A client then receives a stranger's reply, but only that of
\* a client that has left (eventLoop.cpp:176-196).
RepliesStayHome ==
  \A c \in Conns : \A i \in DOMAIN got[c] :
    LET d == got[c][i][1] IN d \in {c, Torn} \/ Gone(d)

\* Clients that wait for each answer and stay never make a worker store into an
\* entry while the loop, which takes no lock for it, uses the entry's buffer
\* (eventHandler.cpp:241 and cmdHandler.cpp:215 against eventLoop.cpp:185).
NoRace == ~(lpc \in {"flush", "read", "close"} /\ Racers # {})

\* The loop is not left reading an empty pipe (poller.cpp:110), as long as the
\* messages that can pile up between two polls are fewer than one read takes.
DrainReturns == lpc = "drain" => pipe > 0

\* Toward clients that wait for each answer and stay, the loop, the workers and
\* the buffers in between implement the exchange of requests and answers.
Client == INSTANCE Exchange WITH
            asked <- [c \in Conns |-> sent[c] \div 2], answers <- got
ImplementsExchange == Client!Spec

\* Such a client gets its answer.
Answered ==
  \A c \in Conns : \A n \in 1 .. MaxReq : sent[c] >= 2 * n ~> Len(got[c]) >= n

\* The descriptor of a client that has left is closed, unless the process dies.
LeaverReleased ==
  \A f \in Fds : \A c \in Conns :
    (sock[f] = c /\ Gone(c)) ~> (sock[f] # c \/ ~alive)

\* "Trim the incomplete packet at the end and put it back into event"
\* (cmdHandler.cpp:218): what was read of a request whose rest is still to come
\* is kept in the entry.
TailPutBack ==
  \A f \in Fds : events[f] # None /\ taken[sock[f]] % 2 = 1 => events[f].recv = 1
=============================================================================
