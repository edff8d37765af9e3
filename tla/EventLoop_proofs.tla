-------------------------- MODULE EventLoop_proofs --------------------------
(***************************************************************************)
(* Proofs about EventLoop, for any clients, descriptors and workers.       *)
(* First, whatever the clients do: types, the descriptor tables, and where *)
(* a reply can end up.  Then, for patient clients, which is what the       *)
(* client library is: no access races, the server implements Exchange, and *)
(* reading the pipe returns.                                               *)
(***************************************************************************)
EXTENDS EventLoop, FiniteSetTheorems, TLAPS

(* The inductive invariant: TypeOK, DescriptorsAccounted, and these.       *)

\* A report of a poll is dispatched before waits is processed; a closing is
\* reported once, for a registered descriptor whose client has gone.
ReportsCurrent ==
  /\ lpc \in {"replys", "flush", "waits", "poll"} => fired = {}
  /\ lpc = "poll" => waits = <<>>
  /\ \A f \in Fds \cap ready : events[f] # None
  /\ \A e \in fired : e.type = "close" =>
       e.fd \in Fds /\ events[e.fd] # None /\ Gone(sock[e.fd]) /\ ~Deleting(e.fd)
  /\ lpc = "close" =>
       /\ Gone(sock[cur]) /\ ~Deleting(cur)
       /\ \A e \in fired : e.type = "close" => e.fd # cur

\* A connection waits in the backlog or is behind a descriptor, not both, and
\* neither before its client has connected; an addition bears its client's name.
ConnectedOnce ==
  /\ \A i \in DOMAIN backlog : conn[backlog[i]] # "new"
  /\ \A i \in DOMAIN backlog : \A f \in Fds : sock[f] # backlog[i]
  /\ \A i, j \in DOMAIN backlog : backlog[i] = backlog[j] => i = j
  /\ \A f \in Fds : sock[f] # None => conn[sock[f]] # "new"
  /\ \A i \in DOMAIN waits : waits[i].op = "add" => waits[i].name = sock[waits[i].fd]

Inv == TypeOK /\ DescriptorsAccounted /\ ReportsCurrent /\ ConnectedOnce

\* Whose reply r may be where client c's replies are: c's own, garbled by a
\* race, or that of a client that has gone.
MayReach(r, c) == r[1] \in {c, Torn} \/ Gone(r[1])

\* All replies in the entry or event x may reach the client it is for.
RepliesOf(x) == \A i \in DOMAIN x.send : MayReach(x.send[i], x.name)

\* A worker's event bears the name of the client behind its descriptor, unless
\* that client has gone.
Owed(e) == (e.name = sock[e.fd] \/ Gone(e.name)) /\ RepliesOf(e)

RepliesOwned ==
  /\ \A f \in Fds : events[f] # None => RepliesOf(events[f])
  /\ \A k \in DOMAIN tasks : Owed(tasks[k])
  /\ \A w \in Workers : task[w] # None => Owed(task[w])
-----------------------------------------------------------------------------
(* Lemmas about the operators.                                             *)

\* Event::read takes no more than there is.
LEMMA ReadCountBound ==
  ASSUME NEW n \in Nat
  PROVE  ReadCount(n) \in 0 .. n
<1>1. BufSize \in Nat \ {0}
  BY BoundsAssumption
<1>2. n % BufSize \in Nat
  BY <1>1
<1>3. ((n % BufSize) + 1) * BufSize \in Nat
  <2> DEFINE a == (n % BufSize) + 1
  <2>1. a \in Nat
    BY <1>2
  <2> HIDE DEF a
  <2>2. a * BufSize \in Nat
    BY <2>1, <1>1
  <2> QED BY <2>2 DEF a
<1> DEFINE most == ((n % BufSize) + 1) * BufSize
<1>4. most \in Nat
  BY <1>3
<1> HIDE DEF most
<1>5. (IF n < most THEN n ELSE most) \in 0 .. n
  BY <1>4
<1> QED BY <1>5 DEF ReadCount, most

\* Event::read takes all that is unread when it is less than two buffers, and
\* half of what is unread when it is exactly two (event.cpp:118-126): as many
\* chunks as n % BUF_SIZE are enough for the former and too few for the latter.
THEOREM ReadsShortRequests ==
  /\ \A n \in Nat : n < 2 * BufSize => ReadCount(n) = n
  /\ ReadCount(2 * BufSize) = BufSize
<1> DEFINE most(n) == ((n % BufSize) + 1) * BufSize
<1>1. BufSize \in Nat /\ BufSize >= 1
  BY BoundsAssumption
<1>2. \A n : ReadCount(n) = IF n < most(n) THEN n ELSE most(n)
  BY DEF ReadCount
<1>3. ASSUME NEW n \in Nat, n < 2 * BufSize PROVE ReadCount(n) = n
  <2> DEFINE r == n % BufSize
  <2>1. r \in Nat
    BY <1>1, SMT
  <2>2. CASE n < BufSize
    <3>1. r = n
      BY <1>1, <2>2, SMT
    <3>2. (n + 1) * BufSize > n
      BY <1>1, SMT
    <3> QED
      BY <1>2, <3>1, <3>2
  <2>3. CASE n = BufSize
    <3>1. r = 0
      BY <1>1, <2>3, SMT
    <3>2. most(n) = BufSize
      BY <3>1, <1>1, SMT
    <3> QED
      BY <1>1, <1>2, <2>3, <3>2, SMT
  <2>4. CASE n > BufSize
    <3>1. r = n - BufSize
      BY <1>1, <1>3, <2>4, SMT
    <3>2. r + 1 >= 2
      BY <1>1, <2>4, <3>1, SMT
    <3> HIDE DEF r
    <3>3. (r + 1) * BufSize >= 2 * BufSize
      BY <1>1, <2>1, <3>2, SMT
    <3>4. most(n) = (r + 1) * BufSize
      BY DEF r
    <3>5. n < most(n)
      BY <1>1, <1>3, <3>3, <3>4, SMT
    <3> QED
      BY <1>2, <3>5
  <2> QED
    BY <1>1, <2>2, <2>3, <2>4, SMT
<1>4. ReadCount(2 * BufSize) = BufSize
  <2>1. (2 * BufSize) % BufSize = 0
    BY <1>1, SMT
  <2>2. most(2 * BufSize) = BufSize
    BY <1>1, <2>1, SMT
  <2> QED
    BY <1>1, <1>2, <2>2, SMT
<1> QED
  BY <1>3, <1>4

\* A function on 1 .. k is a sequence, also for a negative k.
LEMMA IntervalSeq ==
  ASSUME NEW S, NEW k \in Int, NEW f \in [1 .. k -> S]
  PROVE  f \in Seq(S)
<1>1. CASE k >= 0
  BY <1>1, k \in Nat
<1>2. CASE k < 0
  <2>1. 1 .. k = 1 .. 0
    BY <1>2
  <2> QED BY <2>1
<1> QED BY <1>1, <1>2

\* The callback keeps what the event's reply buffer holds and appends replies to
\* the event's own client.
LEMMA CallbackAppends ==
  ASSUME NEW e \in Events
  PROVE  /\ HandlerCallback(e) \in Seq(Replies)
         /\ \A i \in DOMAIN HandlerCallback(e) :
              \/ i \in DOMAIN e.send /\ HandlerCallback(e)[i] = e.send[i]
              \/ HandlerCallback(e)[i][1] = e.name
<1> DEFINE first == (e.last - e.recv + 1) \div 2 + 1
           k == e.last \div 2 - first + 1
           requests == [i \in 1 .. k |-> first + i - 1]
           new == [i \in DOMAIN requests |-> <<e.name, requests[i]>>]
<1>1. e.last \in Nat /\ e.recv \in Nat /\ e.name \in Conns /\ e.send \in Seq(Replies)
  BY DEF Events
<1>2. first \in Int /\ k \in Int
  BY <1>1, SMTT(30)
<1> HIDE DEF first, k
<1>3. new \in [1 .. k -> Replies]
  BY <1>1, <1>2 DEF Replies
<1>4. new \in Seq(Replies)
  BY <1>2, <1>3, IntervalSeq
<1>5. \A i \in DOMAIN new : new[i][1] = e.name
  BY <1>1
<1> HIDE DEF new
<1>6. HandlerCallback(e) = e.send \o new
  BY DEF HandlerCallback, Parsed, new, first, k
<1> QED BY <1>1, <1>4, <1>5, <1>6, SMTT(30)
-----------------------------------------------------------------------------
(* Type correctness.                                                       *)

\* A registered descriptor has a client behind it, and an addition names one.
SocketsNamed == \A f \in Fds : events[f] # None => sock[f] \in Conns
AddNamed ==
  waits # <<>> /\ Head(waits).op = "add" => Head(waits).name \in Conns

LEMMA AccountedNames == Inv => SocketsNamed /\ AddNamed
<1> SUFFICES ASSUME Inv PROVE SocketsNamed /\ AddNamed
  OBVIOUS
<1>1. SocketsNamed
  BY NoneAssumption DEF Inv, TypeOK, DescriptorsAccounted, SocketsNamed, Entries
<1>2. ASSUME waits # <<>>, Head(waits).op = "add"
      PROVE  Head(waits).name \in Conns
  <2>1. 1 \in DOMAIN waits /\ Head(waits) = waits[1] /\ waits[1] \in Ops
    BY <1>2 DEF Inv, TypeOK
  <2>2. Adding(waits[1].fd) /\ waits[1].fd \in Fds
    BY <2>1, <1>2 DEF Adding, Ops
  <2>3. sock[waits[1].fd] # None
    BY <2>2 DEF Inv, DescriptorsAccounted
  <2> QED BY <2>1, <2>2, <2>3, <1>2 DEF Inv, TypeOK, ConnectedOnce
<1> QED BY <1>1, <1>2 DEF AddNamed

LEMMA SeenSendType ==
  ASSUME TypeOK, lpc \in {"flush", "read"}
  PROVE  SeenSend \subseteq Seq(Replies)
<1>1. events[cur].send \in Seq(Replies)
  BY DEF TypeOK, Entries
<1>2. \A w \in Racers : task[w].send \in Seq(Replies)
  BY DEF TypeOK, Racers, Events
<1>3. <<<<Torn, 0>>>> \in Seq(Replies)
  BY DEF Replies
<1> QED BY <1>1, <1>2, <1>3 DEF SeenSend

LEMMA WriteType ==
  ASSUME TypeOK, NEW f \in Fds, sock[f] \in Conns,
         NEW data \in Seq(Replies), Write(f, data)
  PROVE  /\ conn' \in [Conns -> {"new", "up", "left", "rst"}]
         /\ got' \in [Conns -> Seq(Replies)]
         /\ alive' \in BOOLEAN
<1> DEFINE c == sock[f]
<1>1. /\ conn \in [Conns -> {"new", "up", "left", "rst"}]
      /\ got \in [Conns -> Seq(Replies)] /\ alive \in BOOLEAN
      /\ got[c] \o data \in Seq(Replies)
  BY DEF TypeOK
<1>2. CASE conn[c] = "up" /\ got' = [got EXCEPT ![c] = @ \o data] /\ UNCHANGED <<conn, alive>>
  BY <1>1, <1>2
<1>3. CASE UNCHANGED <<got, alive>> /\ (UNCHANGED conn \/ conn' = [conn EXCEPT ![c] = "rst"])
  BY <1>1, <1>3
<1>4. CASE alive' \in BOOLEAN /\ UNCHANGED <<conn, got>>
  BY <1>1, <1>4
<1> QED BY <1>2, <1>3, <1>4 DEF Write

LEMMA TypeStep ==
  ASSUME TypeOK, SocketsNamed, AddNamed, [Next]_vars
  PROVE  TypeOK'
<1> USE BoundsAssumption, FlagsAssumption, NamesAssumption, NoneAssumption
<1> USE DEF clientVars, kernelVars, loopVars, sharedVars, workerVars,
            LoopPCs, WorkerPCs, Reports
<1>1. ASSUME NEW c \in Conns, Connect(c) PROVE TypeOK'
  BY <1>1, SMTT(30) DEF Connect, TypeOK
<1>2. ASSUME NEW c \in Conns, Request(c) PROVE TypeOK'
  <2>1. sent' \in [Conns -> 0 .. 2 * MaxReq] /\ sent[c] <= sent'[c]
    <3>1. sent[c] + 2 \in 0 .. 2 * MaxReq
      BY <1>2 DEF Request, TypeOK
    <3> QED BY <3>1, <1>2, SMTT(30) DEF Request, TypeOK
  <2>2. \A d \in Conns : taken[d] <= arrived[d] /\ arrived[d] <= sent'[d]
    BY <2>1, <1>2, SMTT(30) DEF Request, TypeOK
  <2> QED BY <2>1, <2>2, <1>2 DEF Request, TypeOK
<1>3. ASSUME NEW c \in Conns, Deliver(c) PROVE TypeOK'
  <2>1. PICK n \in {1, 2} : arrived[c] + n <= sent[c] /\ arrived' = [arrived EXCEPT ![c] = @ + n]
    BY <1>3 DEF Deliver
  <2>2. /\ arrived' \in [Conns -> Nat]
        /\ \A d \in Conns : taken[d] <= arrived'[d] /\ arrived'[d] <= sent[d]
    BY <2>1, SMTT(30) DEF TypeOK
  <2> QED BY <2>2, <1>3 DEF Deliver, Registered, TypeOK
<1>4. ASSUME NEW c \in Conns, Leave(c) PROVE TypeOK'
  BY <1>4, SMTT(30) DEF Leave, TypeOK, Registered
<1>5. CASE PopReply
  BY <1>5, SMTT(30) DEF PopReply, TypeOK
<1>6. CASE FlushReply
  <2>1. cur \in Fds /\ events[cur] \in Entries /\ sock[cur] \in Conns
    BY <1>6 DEF FlushReply, TypeOK, SocketsNamed
  <2>2. PICK data \in Seq(Replies) : Write(cur, data)
    BY <1>6, SeenSendType DEF FlushReply
  <2>3. /\ conn' \in [Conns -> {"new", "up", "left", "rst"}]
        /\ got' \in [Conns -> Seq(Replies)]
        /\ alive' \in BOOLEAN
    BY <2>1, <2>2, WriteType
  <2>4. [events[cur] EXCEPT !.send = <<>>] \in Entries
    <3>1. <<>> \in Seq(Replies)
      OBVIOUS
    <3> QED BY <2>1, <3>1 DEF Entries
  <2>5. /\ events' \in [Fds -> Entries \cup {None}]
        /\ \A f \in Fds : events[f] # None => events'[f] # None
    BY <2>1, <2>4, <1>6 DEF FlushReply, TypeOK
  <2> QED BY <2>3, <2>5, <1>6, SMTT(30) DEF FlushReply, TypeOK
<1>7. CASE EndReplys
  BY <1>7 DEF EndReplys, TypeOK
<1>8. CASE AddWait
  <2> DEFINE f == Head(waits).fd
             entry == [name |-> Head(waits).name, recv |-> 0, send |-> <<>>]
  <2>1. Head(waits) \in Ops /\ f \in Fds /\ waits' \in Seq(Ops)
    <3>1. waits \in Seq(Ops) /\ waits # <<>> /\ waits' = Tail(waits)
      BY <1>8 DEF AddWait, TypeOK
    <3>2. Head(waits) \in Ops /\ waits' \in Seq(Ops)
      BY <3>1
    <3> QED BY <3>2 DEF Ops
  <2>2. Head(waits).name \in Conns
    BY <1>8, <2>1 DEF AddWait, AddNamed
  <2>3. entry \in Entries
    BY <2>2 DEF Entries
  <2>4. /\ events' \in [Fds -> Entries \cup {None}]
        /\ \A g \in Fds : events[g] # None => events'[g] # None
    BY <2>1, <2>3, <1>8 DEF AddWait, TypeOK
  <2>5. ready' \subseteq Fds \cup {Listener, Awake}
    BY <2>1, <1>8 DEF AddWait, TypeOK
  <2>6. \A w \in Workers : wpc[w] = "store" => task[w].fd \in Fds
    BY DEF TypeOK, Events
  <2>7. /\ lpc = "waits"
        /\ UNCHANGED <<clientVars, sock, taken, pipe, alive, lpc, cur, fired, replys, tasks, workerVars>>
    BY <1>8 DEF AddWait
  <2> QED BY <2>1, <2>4, <2>5, <2>6, <2>7 DEF TypeOK
<1>9. CASE DelWait
  <2>1. Head(waits) \in Ops /\ Head(waits).fd \in Fds /\ waits' \in Seq(Ops)
    <3>1. waits \in Seq(Ops) /\ waits # <<>> /\ waits' = Tail(waits)
      BY <1>9 DEF DelWait, TypeOK
    <3>2. Head(waits) \in Ops /\ waits' \in Seq(Ops)
      BY <3>1
    <3> QED BY <3>2 DEF Ops
  <2>2. events' \in [Fds -> Entries \cup {None}]
    BY <2>1, <1>9 DEF DelWait, TypeOK
  <2>3. sock' \in [Fds -> Conns \cup {None}] /\ ready' \subseteq Fds \cup {Listener, Awake}
    BY <2>1, <1>9 DEF DelWait, TypeOK
  <2> QED BY <2>1, <2>2, <2>3, <1>9 DEF DelWait, MapLockFree, TypeOK
<1>10. CASE EndWaits
  BY <1>10 DEF EndWaits, TypeOK
<1>11. CASE Poll
  <2>1. fired' \subseteq Reports
    BY <1>11 DEF Poll, Reported, EventType
  <2> QED BY <2>1, <1>11 DEF Poll, TypeOK
<1>12. CASE Drain
  BY <1>12 DEF Drain, TypeOK
<1>13. ASSUME NEW e \in fired, Dispatch(e) PROVE TypeOK'
  BY <1>13 DEF Dispatch, TypeOK
<1>14. CASE EndDispatch
  BY <1>14 DEF EndDispatch, TypeOK
<1>15. ASSUME NEW f \in Fds, Accept(f) PROVE TypeOK'
  <2>1. Head(backlog) \in Conns /\ backlog' \in Seq(Conns)
    BY <1>15 DEF Accept, TypeOK
  <2>2. waits' \in Seq(Ops)
    <3>1. [op |-> "add", fd |-> f, name |-> Head(backlog)] \in Ops
      BY <2>1 DEF Ops
    <3> QED BY <3>1, <1>15 DEF Accept, AddEvent, TypeOK
  <2>3. sock' \in [Fds -> Conns \cup {None}]
    BY <2>1, <1>15 DEF Accept, TypeOK
  <2> QED BY <2>1, <2>2, <2>3, <1>15 DEF Accept, TypeOK
<1>16. CASE EndAccept
  BY <1>16 DEF EndAccept, TypeOK
<1>17. CASE ReadCmd
  <2> DEFINE c == sock[cur]
             n == ReadCount(Unread(cur))
             event(data) == [fd |-> cur, name |-> events[cur].name,
                             recv |-> events[cur].recv + n, last |-> taken[c] + n,
                             send |-> data]
  <2>1. cur \in Fds /\ events[cur] \in Entries /\ c \in Conns
    BY <1>17 DEF ReadCmd, TypeOK, SocketsNamed
  <2>2. taken[c] \in Nat /\ arrived[c] \in Nat /\ taken[c] <= arrived[c]
    BY <2>1 DEF TypeOK
  <2>3. Unread(cur) \in Nat
    BY <2>2 DEF Unread
  <2>4. n \in Nat /\ taken[c] + n <= arrived[c]
    BY <2>2, <2>3, ReadCountBound DEF Unread
  <2> HIDE DEF n
  <2>5. PICK data \in Seq(Replies) : tasks' = Append(tasks, event(data))
    BY <1>17, SeenSendType DEF ReadCmd, n
  <2>6. event(data) \in Events
    BY <2>1, <2>2, <2>4, SMTT(30) DEF Events, Entries
  <2> HIDE DEF event
  <2>7. tasks' \in Seq(Events)
    BY <2>5, <2>6 DEF TypeOK
  <2>8. taken' = [taken EXCEPT ![c] = @ + n]
    BY <1>17 DEF ReadCmd, n
  <2>9. /\ taken' \in [Conns -> Nat]
        /\ \A d \in Conns : taken'[d] <= arrived[d]
    BY <2>1, <2>4, <2>8, SMTT(30) DEF TypeOK
  <2> QED BY <2>7, <2>9, <1>17 DEF ReadCmd, TypeOK
<1>18. CASE CloseConn
  <2>1. [op |-> "del", fd |-> cur, name |-> None] \in Ops
    BY <1>18 DEF CloseConn, TypeOK, Ops
  <2>2. waits' \in Seq(Ops)
    BY <2>1, <1>18 DEF CloseConn, DeletEvent, TypeOK
  <2> QED BY <2>2, <1>18 DEF CloseConn, TypeOK
<1>19. CASE RaceCrash
  BY <1>19 DEF RaceCrash, TypeOK
<1>20. ASSUME NEW w \in Workers, Take(w) PROVE TypeOK'
  BY <1>20 DEF Take, TypeOK
<1>21. ASSUME NEW w \in Workers, ExecCallback(w) PROVE TypeOK'
  <2>1. task[w] \in Events
    BY <1>21 DEF ExecCallback, TypeOK
  <2>2. CASE events[task[w].fd] # None
    <3>1. [task[w] EXCEPT !.send = HandlerCallback(task[w])] \in Events
      BY <2>1, CallbackAppends DEF Events
    <3>2. /\ task' = [task EXCEPT ![w] = [task[w] EXCEPT !.send = HandlerCallback(task[w])]]
          /\ wpc' = [wpc EXCEPT ![w] = "store"]
      BY <1>21, <2>2 DEF ExecCallback
    <3>3. task'[w].fd = task[w].fd
      BY <2>1, <3>2 DEF TypeOK, Events
    <3>4. task'[w] \in Events /\ task' \in [Workers -> Events \cup {None}]
      BY <3>1, <3>2 DEF TypeOK
    <3>5. \A v \in Workers : wpc'[v] = "store" => v = w
      BY <3>2, <1>21 DEF ExecCallback, MapLockFree, TypeOK
    <3> QED BY <3>2, <3>3, <3>4, <3>5, <2>2, <1>21 DEF ExecCallback, TypeOK
  <2>3. CASE events[task[w].fd] = None
    <3>1. /\ task' = [task EXCEPT ![w] = None]
          /\ wpc' = [wpc EXCEPT ![w] = "idle"]
      BY <2>3, <1>21 DEF ExecCallback
    <3>2. task' \in [Workers -> Events \cup {None}] /\ wpc' \in [Workers -> WorkerPCs]
      BY <3>1 DEF TypeOK
    <3>3. /\ task'[w] = None /\ wpc'[w] = "idle"
          /\ \A v \in Workers \ {w} : task'[v] = task[v] /\ wpc'[v] = wpc[v]
      BY <3>1 DEF TypeOK
    <3>4. \A v \in Workers : (task'[v] # None) <=> (wpc'[v] \in {"exec", "store", "push"})
      <4>1. \A v \in Workers : (task[v] # None) <=> (wpc[v] \in {"exec", "store", "push"})
        BY DEF TypeOK
      <4> QED BY <3>3, <4>1
    <3>5. \A v \in Workers : wpc'[v] # "store"
      BY <3>3, <1>21 DEF ExecCallback, MapLockFree
    <3> QED BY <3>2, <3>4, <3>5, <1>21 DEF ExecCallback, TypeOK
  <2> QED BY <2>2, <2>3
<1>22. ASSUME NEW w \in Workers, StoreReply(w) PROVE TypeOK'
  <2> DEFINE f == task[w].fd
  <2>1. task[w] \in Events /\ f \in Fds /\ events[f] \in Entries
    BY <1>22 DEF StoreReply, TypeOK, Events
  <2>2. [events[f] EXCEPT !.send = task[w].send] \in Entries
    BY <2>1 DEF Entries, Events
  <2>3. /\ events' \in [Fds -> Entries \cup {None}]
        /\ \A g \in Fds : events[g] # None => events'[g] # None
    BY <2>1, <2>2, <1>22 DEF StoreReply, TypeOK
  <2>4. /\ wpc' \in [Workers -> WorkerPCs] /\ wpc'[w] = "push"
        /\ \A v \in Workers \ {w} : wpc'[v] = wpc[v]
        /\ UNCHANGED task
    BY <1>22 DEF StoreReply, TypeOK
  <2>5. \A v \in Workers : wpc'[v] = "store" => task[v].fd \in Fds /\ events'[task[v].fd] # None
    <3>1. \A v \in Workers : wpc'[v] = "store" =>
             wpc[v] = "store" /\ task[v] \in Events /\ events[task[v].fd] # None
      BY <2>4 DEF TypeOK
    <3> QED BY <3>1, <2>3 DEF Events
  <2> QED BY <2>3, <2>4, <2>5, <1>22 DEF StoreReply, TypeOK
<1>23. ASSUME NEW w \in Workers, PushReply(w) PROVE TypeOK'
  <2>1. task[w].fd \in Fds
    BY <1>23 DEF PushReply, TypeOK, Events
  <2>2. replys' \in Seq(Fds)
    BY <2>1, <1>23 DEF PushReply, TypeOK
  <2> QED BY <2>2, <1>23 DEF PushReply, TypeOK
<1>24. ASSUME NEW w \in Workers, Wake(w) PROVE TypeOK'
  BY <1>24 DEF Wake, TypeOK
<1>25. CASE UNCHANGED vars
  BY <1>25 DEF vars, TypeOK
<1> QED
  BY <1>1, <1>2, <1>3, <1>4, <1>5, <1>6, <1>7, <1>8, <1>9, <1>10, <1>11, <1>12, <1>13,
     <1>14, <1>15, <1>16, <1>17, <1>18, <1>19, <1>20, <1>21, <1>22, <1>23, <1>24, <1>25
  DEF Next, ClientStep, LoopStep, WorkerStep
-----------------------------------------------------------------------------
(* What the steps do to waits, to the connections and to the entries.      *)

LEMMA TailElements ==
  ASSUME NEW S, NEW s \in Seq(S), s # <<>>
  PROVE  /\ 1 \in DOMAIN s /\ Head(s) = s[1]
         /\ \A i \in DOMAIN Tail(s) : i + 1 \in DOMAIN s /\ i + 1 # 1 /\ Tail(s)[i] = s[i + 1]
         /\ \A j \in DOMAIN s : j = 1 \/ (j - 1 \in DOMAIN Tail(s) /\ Tail(s)[j - 1] = s[j])
         /\ \A i, j \in DOMAIN Tail(s) : i + 1 = j + 1 => i = j
OBVIOUS

LEMMA AppendElements ==
  ASSUME NEW S, NEW s \in Seq(S), NEW x \in S
  PROVE  /\ Len(s) + 1 \in DOMAIN Append(s, x) /\ Append(s, x)[Len(s) + 1] = x
         /\ \A i \in DOMAIN s : i \in DOMAIN Append(s, x) /\ Append(s, x)[i] = s[i]
         /\ \A i \in DOMAIN Append(s, x) : i \in DOMAIN s \/ i = Len(s) + 1
OBVIOUS

OpsDistinct == \A i, j \in DOMAIN waits : waits[i].fd = waits[j].fd => i = j

\* An operation on a descriptor without one is added to those pending.
LEMMA WaitsAppended ==
  ASSUME waits \in Seq(Ops), NEW o \in Ops, waits' = Append(waits, o),
         OpsDistinct, ~Adding(o.fd), ~Deleting(o.fd)
  PROVE  /\ \A f \in Fds : Adding(f)' <=> (Adding(f) \/ (o.op = "add" /\ o.fd = f))
         /\ \A f \in Fds : Deleting(f)' <=> (Deleting(f) \/ (o.op = "del" /\ o.fd = f))
         /\ OpsDistinct'
<1>1. \A i \in DOMAIN waits : waits[i] \in Ops
  OBVIOUS
<1>2. \A i \in DOMAIN waits : waits[i].fd # o.fd
  BY <1>1 DEF Adding, Deleting, Ops
<1>3. /\ Len(waits) + 1 \in DOMAIN waits' /\ waits'[Len(waits) + 1] = o
      /\ \A i \in DOMAIN waits : i \in DOMAIN waits' /\ waits'[i] = waits[i]
      /\ \A i \in DOMAIN waits' : i \in DOMAIN waits \/ i = Len(waits) + 1
  BY AppendElements
<1>4. \A f \in Fds : Adding(f)' <=> (Adding(f) \/ (o.op = "add" /\ o.fd = f))
  BY <1>3 DEF Adding
<1>5. \A f \in Fds : Deleting(f)' <=> (Deleting(f) \/ (o.op = "del" /\ o.fd = f))
  BY <1>3 DEF Deleting
<1>6. OpsDistinct'
  BY <1>2, <1>3 DEF OpsDistinct
<1> QED BY <1>4, <1>5, <1>6

\* The first operation is taken out: it was the only one on its descriptor.
LEMMA WaitsPopped ==
  ASSUME waits \in Seq(Ops), waits # <<>>, waits' = Tail(waits), OpsDistinct
  PROVE  /\ \A f \in Fds : Adding(f)' <=> (Adding(f) /\ f # Head(waits).fd)
         /\ \A f \in Fds : Deleting(f)' <=> (Deleting(f) /\ f # Head(waits).fd)
         /\ OpsDistinct'
<1>1. /\ 1 \in DOMAIN waits /\ Head(waits) = waits[1]
      /\ \A i \in DOMAIN waits' : i + 1 \in DOMAIN waits /\ i + 1 # 1 /\ waits'[i] = waits[i + 1]
      /\ \A j \in DOMAIN waits : j = 1 \/ (j - 1 \in DOMAIN waits' /\ waits'[j - 1] = waits[j])
      /\ \A i, j \in DOMAIN waits' : i + 1 = j + 1 => i = j
  BY TailElements
<1>2. \A j \in DOMAIN waits : waits[j].fd = waits[1].fd <=> j = 1
  BY <1>1 DEF OpsDistinct
<1>3. \A f \in Fds : Adding(f)' <=> (Adding(f) /\ f # Head(waits).fd)
  <2> TAKE f \in Fds
  <2>1. ASSUME Adding(f)' PROVE Adding(f) /\ f # Head(waits).fd
    <3>1. PICK i \in DOMAIN waits' : waits'[i].op = "add" /\ waits'[i].fd = f
      BY <2>1 DEF Adding
    <3>2. i + 1 \in DOMAIN waits /\ i + 1 # 1 /\ waits[i + 1] = waits'[i]
      BY <1>1
    <3> QED BY <3>1, <3>2, <1>1, <1>2 DEF Adding
  <2>2. ASSUME Adding(f), f # Head(waits).fd PROVE Adding(f)'
    <3>1. PICK j \in DOMAIN waits : waits[j].op = "add" /\ waits[j].fd = f
      BY <2>2 DEF Adding
    <3>2. j - 1 \in DOMAIN waits' /\ waits'[j - 1] = waits[j]
      BY <3>1, <2>2, <1>1
    <3> QED BY <3>1, <3>2 DEF Adding
  <2> QED BY <2>1, <2>2
<1>4. \A f \in Fds : Deleting(f)' <=> (Deleting(f) /\ f # Head(waits).fd)
  <2> TAKE f \in Fds
  <2>1. ASSUME Deleting(f)' PROVE Deleting(f) /\ f # Head(waits).fd
    <3>1. PICK i \in DOMAIN waits' : waits'[i].op = "del" /\ waits'[i].fd = f
      BY <2>1 DEF Deleting
    <3>2. i + 1 \in DOMAIN waits /\ i + 1 # 1 /\ waits[i + 1] = waits'[i]
      BY <1>1
    <3> QED BY <3>1, <3>2, <1>1, <1>2 DEF Deleting
  <2>2. ASSUME Deleting(f), f # Head(waits).fd PROVE Deleting(f)'
    <3>1. PICK j \in DOMAIN waits : waits[j].op = "del" /\ waits[j].fd = f
      BY <2>2 DEF Deleting
    <3>2. j - 1 \in DOMAIN waits' /\ waits'[j - 1] = waits[j]
      BY <3>1, <2>2, <1>1
    <3> QED BY <3>1, <3>2 DEF Deleting
  <2> QED BY <2>1, <2>2
<1>5. OpsDistinct'
  <2> SUFFICES ASSUME NEW i \in DOMAIN waits', NEW j \in DOMAIN waits',
                      waits'[i].fd = waits'[j].fd
               PROVE  i = j
    BY DEF OpsDistinct
  <2>1. waits[i + 1].fd = waits[j + 1].fd /\ i + 1 \in DOMAIN waits /\ j + 1 \in DOMAIN waits
    BY <1>1
  <2>2. i + 1 = j + 1
    BY <2>1 DEF OpsDistinct
  <2> QED BY <2>2, <1>1
<1> QED BY <1>3, <1>4, <1>5

\* A client that has connected stays so, and one that has gone does.
ConnectionsAge ==
  \A c \in Conns : (conn[c] # "new" => conn'[c] # "new") /\ (Gone(c) => Gone(c)')

LEMMA ConnectionsAgeStep ==
  ASSUME TypeOK, SocketsNamed, [Next]_vars
  PROVE  ConnectionsAge
<1> USE DEF ConnectionsAge, Gone, clientVars
<1>1. ASSUME NEW c \in Conns, Connect(c) \/ Request(c) \/ Deliver(c) \/ Leave(c)
      PROVE ConnectionsAge
  BY <1>1 DEF Connect, Request, Deliver, Leave, TypeOK
<1>2. CASE FlushReply
  <2>1. PICK data : Write(cur, data)
    BY <1>2 DEF FlushReply
  <2>2. sock[cur] \in Conns
    BY <1>2 DEF FlushReply, SocketsNamed, TypeOK
  <2>3. conn' = conn \/ (conn[sock[cur]] = "left" /\ conn' = [conn EXCEPT ![sock[cur]] = "rst"])
    BY <2>1 DEF Write
  <2> QED BY <2>2, <2>3 DEF TypeOK
<1>3. ASSUME NEW w \in Workers, WorkerStep(w) PROVE ConnectionsAge
  BY <1>3 DEF WorkerStep, Take, ExecCallback, StoreReply, PushReply, Wake
<1>4. ASSUME LoopStep, ~FlushReply PROVE ConnectionsAge
  BY <1>4 DEF LoopStep, PopReply, EndReplys, AddWait, DelWait, EndWaits, Poll, Drain,
              EndDispatch, Dispatch, Accept, EndAccept, ReadCmd, CloseConn
<1>5. CASE RaceCrash \/ UNCHANGED vars
  BY <1>5 DEF RaceCrash, vars
<1> QED BY <1>1, <1>2, <1>3, <1>4, <1>5 DEF Next, ClientStep

-----------------------------------------------------------------------------
(* The descriptor tables.                                                  *)

\* A step that keeps the sockets and the operations pending, and changes at most
\* the reply buffers of entries, keeps the tables in agreement.
LEMMA AccountedFrame ==
  ASSUME TypeOK, SocketsNamed, DescriptorsAccounted, ConnectionsAge,
         UNCHANGED <<sock, waits>>,
         \A f \in Fds : events'[f] # None <=> events[f] # None,
         \A f \in Fds : events[f] # None => events'[f].name = events[f].name
  PROVE  DescriptorsAccounted'
<1>1. \A f \in Fds : (Adding(f)' <=> Adding(f)) /\ (Deleting(f)' <=> Deleting(f))
  BY DEF Adding, Deleting
<1>2. \A f \in Fds : sock'[f] # None <=> (events'[f] # None \/ Adding(f)')
  BY <1>1 DEF DescriptorsAccounted
<1>3. \A f \in Fds : Adding(f)' => events'[f] = None
  BY <1>1 DEF DescriptorsAccounted
<1>4. \A f \in Fds : events'[f] # None => events'[f].name = sock'[f]
  BY DEF DescriptorsAccounted
<1>5. \A f \in Fds : Deleting(f)' => events'[f] # None /\ Gone(sock[f])'
  <2>1. ASSUME NEW f \in Fds, Deleting(f)' PROVE events[f] # None /\ Gone(sock[f])
    BY <1>1, <2>1 DEF DescriptorsAccounted
  <2> QED BY <2>1 DEF ConnectionsAge, SocketsNamed, Gone
<1>6. /\ \A i, j \in DOMAIN waits' : waits'[i].fd = waits'[j].fd => i = j
      /\ \A f, g \in Fds : sock'[f] # None /\ sock'[f] = sock'[g] => f = g
  BY DEF DescriptorsAccounted
<1> QED BY <1>2, <1>3, <1>4, <1>5, <1>6 DEF DescriptorsAccounted

\* Only AddWait and DelWait make or erase an entry; only Accept, DelWait, AddWait and
\* CloseConn touch the sockets or the operations pending.
TableStep == AddWait \/ DelWait \/ (\E f \in Fds : Accept(f)) \/ CloseConn

LEMMA TablesKept ==
  ASSUME TypeOK, [Next]_vars, ~TableStep
  PROVE  /\ UNCHANGED <<sock, waits>>
         /\ \A f \in Fds : events'[f] # None <=> events[f] # None
         /\ \A f \in Fds : events[f] # None => events'[f].name = events[f].name
<1> USE DEF clientVars, kernelVars, loopVars, sharedVars, workerVars
<1> DEFINE Kept == UNCHANGED <<sock, waits, events>>
           Goal == /\ UNCHANGED <<sock, waits>>
                   /\ \A f \in Fds : events'[f] # None <=> events[f] # None
                   /\ \A f \in Fds : events[f] # None => events'[f].name = events[f].name
<1>1. Kept => Goal
  OBVIOUS
<1>2. ASSUME NEW f \in Fds, events[f] # None, NEW d \in Seq(Replies),
             events' = [events EXCEPT ![f].send = d], UNCHANGED <<sock, waits>>
      PROVE  Goal
  <2>1. events[f] \in Entries
    BY <1>2 DEF TypeOK
  <2>2. events'[f] = [events[f] EXCEPT !.send = d] /\ \A g \in Fds \ {f} : events'[g] = events[g]
    BY <1>2 DEF TypeOK
  <2>3. [events[f] EXCEPT !.send = d] \in Entries /\ [events[f] EXCEPT !.send = d].name = events[f].name
    BY <1>2, <2>1 DEF Entries
  <2>4. events'[f] # None
    BY <2>2, <2>3, NoneAssumption
  <2> QED BY <2>2, <2>3, <2>4, <1>2
<1>3. ASSUME FlushReply PROVE Goal
  <2>1. cur \in Fds /\ events[cur] # None /\ <<>> \in Seq(Replies)
    BY <1>3 DEF FlushReply, TypeOK
  <2> QED BY <1>2, <2>1, <1>3 DEF FlushReply
<1>4. ASSUME NEW w \in Workers, WorkerStep(w) PROVE Goal
  <2>1. CASE StoreReply(w)
    <3>1. task[w] \in Events /\ events[task[w].fd] # None
      BY <2>1 DEF StoreReply, TypeOK
    <3>2. task[w].fd \in Fds /\ task[w].send \in Seq(Replies)
      BY <3>1 DEF Events
    <3> QED BY <1>2, <2>1, <3>1, <3>2 DEF StoreReply
  <2>2. CASE Take(w) \/ ExecCallback(w) \/ PushReply(w) \/ Wake(w)
    BY <1>1, <2>2 DEF Take, ExecCallback, PushReply, Wake
  <2> QED BY <2>1, <2>2, <1>4 DEF WorkerStep
<1>5. ASSUME NEW c \in Conns, Connect(c) \/ Request(c) \/ Deliver(c) \/ Leave(c)
      PROVE  Goal
  BY <1>1, <1>5 DEF Connect, Request, Deliver, Leave
<1>6. ASSUME LoopStep, ~FlushReply PROVE Kept
  BY <1>6 DEF LoopStep, TableStep, PopReply, EndReplys, EndWaits, Poll, Drain,
              EndDispatch, Dispatch, EndAccept, ReadCmd
<1>7. ASSUME RaceCrash \/ UNCHANGED vars PROVE Goal
  BY <1>1, <1>7 DEF RaceCrash, vars
<1> HIDE DEF Kept, Goal
<1>8. Goal
  BY <1>1, <1>3, <1>4, <1>5, <1>6, <1>7 DEF Next, ClientStep
<1> QED BY <1>8 DEF Goal

LEMMA AccountedStep ==
  ASSUME Inv, ConnectionsAge, [Next]_vars
  PROVE  DescriptorsAccounted'
<1> USE DEF clientVars, workerVars, Gone
<1> DEFINE o == Head(waits)
<1>1. /\ TypeOK /\ DescriptorsAccounted /\ ReportsCurrent /\ ConnectedOnce
      /\ SocketsNamed /\ AddNamed /\ OpsDistinct
  BY AccountedNames DEF Inv, DescriptorsAccounted, OpsDistinct
<1>2. waits \in Seq(Ops) /\ events \in [Fds -> Entries \cup {None}] /\ sock \in [Fds -> Conns \cup {None}]
  BY <1>1 DEF TypeOK
<1>3. ASSUME waits # <<>>
      PROVE  o \in Ops /\ o.fd \in Fds /\ 1 \in DOMAIN waits /\ o = waits[1]
  <2>1. o \in Ops
    BY <1>2, <1>3
  <2> QED BY <2>1, <1>2, <1>3 DEF Ops
<1>4. CASE ~TableStep
  BY <1>1, <1>4, TablesKept, AccountedFrame
<1>5. CASE AddWait
  <2>1. o \in Ops /\ o.fd \in Fds /\ waits # <<>> /\ waits' = Tail(waits) /\ Adding(o.fd)
    BY <1>3, <1>5 DEF AddWait, Adding
  <2>2. events[o.fd] = None /\ sock[o.fd] # None /\ o.name = sock[o.fd]
    BY <2>1, <1>1, <1>3, <1>5 DEF DescriptorsAccounted, ConnectedOnce, AddWait
  <2>3. /\ \A f \in Fds : Adding(f)' <=> (Adding(f) /\ f # o.fd)
        /\ \A f \in Fds : Deleting(f)' <=> (Deleting(f) /\ f # o.fd)
        /\ OpsDistinct'
    BY <1>1, <1>2, <2>1, WaitsPopped
  <2>4. [name |-> o.name, recv |-> 0, send |-> <<>>] \in Entries
    <3>1. o.name \in Conns /\ <<>> \in Seq(Replies)
      BY <1>1, <1>5 DEF AddNamed, AddWait
    <3> QED BY <3>1 DEF Entries
  <2>5. /\ events'[o.fd] # None /\ events'[o.fd].name = sock[o.fd]
        /\ \A f \in Fds \ {o.fd} : events'[f] = events[f]
        /\ UNCHANGED <<sock, conn>>
    BY <2>1, <2>2, <2>4, <1>2, <1>5, NoneAssumption DEF AddWait
  <2>6. \A f \in Fds : sock'[f] # None <=> (events'[f] # None \/ Adding(f)')
    BY <2>2, <2>3, <2>5, <1>1 DEF DescriptorsAccounted
  <2>7. \A f \in Fds : Adding(f)' => events'[f] = None
    BY <2>3, <2>5, <1>1 DEF DescriptorsAccounted
  <2>8. \A f \in Fds : events'[f] # None => events'[f].name = sock'[f]
    BY <2>5, <1>1 DEF DescriptorsAccounted
  <2>9. \A f \in Fds : Deleting(f)' => events'[f] # None /\ Gone(sock[f])'
    BY <2>3, <2>5, <1>1 DEF DescriptorsAccounted
  <2>10. \A f, g \in Fds : sock'[f] # None /\ sock'[f] = sock'[g] => f = g
    BY <2>5, <1>1 DEF DescriptorsAccounted
  <2> QED BY <2>3, <2>6, <2>7, <2>8, <2>9, <2>10 DEF DescriptorsAccounted, OpsDistinct
<1>6. CASE DelWait
  <2>1. o \in Ops /\ o.fd \in Fds /\ waits # <<>> /\ waits' = Tail(waits) /\ Deleting(o.fd)
    BY <1>3, <1>6 DEF DelWait, Deleting
  <2>2. /\ \A f \in Fds : Adding(f)' <=> (Adding(f) /\ f # o.fd)
        /\ \A f \in Fds : Deleting(f)' <=> (Deleting(f) /\ f # o.fd)
        /\ OpsDistinct'
    BY <1>1, <1>2, <2>1, WaitsPopped
  <2>3. /\ events'[o.fd] = None /\ sock'[o.fd] = None
        /\ \A f \in Fds \ {o.fd} : events'[f] = events[f] /\ sock'[f] = sock[f]
        /\ UNCHANGED conn
    BY <2>1, <1>2, <1>6 DEF DelWait
  <2>4. \A f \in Fds : sock'[f] # None <=> (events'[f] # None \/ Adding(f)')
    BY <2>2, <2>3, <1>1 DEF DescriptorsAccounted
  <2>5. \A f \in Fds : Adding(f)' => events'[f] = None
    BY <2>2, <2>3, <1>1 DEF DescriptorsAccounted
  <2>6. \A f \in Fds : events'[f] # None => events'[f].name = sock'[f]
    BY <2>3, <1>1 DEF DescriptorsAccounted
  <2>7. \A f \in Fds : Deleting(f)' => events'[f] # None /\ Gone(sock[f])'
    BY <2>2, <2>3, <1>1 DEF DescriptorsAccounted
  <2>8. \A f, g \in Fds : sock'[f] # None /\ sock'[f] = sock'[g] => f = g
    BY <2>3, <1>1 DEF DescriptorsAccounted
  <2> QED BY <2>2, <2>4, <2>5, <2>6, <2>7, <2>8 DEF DescriptorsAccounted, OpsDistinct
<1>7. ASSUME NEW h \in Fds, Accept(h) PROVE DescriptorsAccounted'
  <2> DEFINE c == Head(backlog)
             p == [op |-> "add", fd |-> h, name |-> c]
  <2>1. c \in Conns /\ 1 \in DOMAIN backlog /\ c = backlog[1]
    BY <1>1, <1>7 DEF Accept, TypeOK
  <2>2. p \in Ops /\ p.fd = h /\ p.op = "add"
    BY <2>1 DEF Ops
  <2>3. sock[h] = None /\ events[h] = None /\ ~Adding(h) /\ ~Deleting(h)
    BY <1>1, <1>7 DEF Accept, FreeFds, DescriptorsAccounted
  <2>4. waits' = Append(waits, p)
    BY <1>7 DEF Accept, AddEvent
  <2> HIDE DEF p
  <2>5. /\ \A f \in Fds : Adding(f)' <=> (Adding(f) \/ (p.op = "add" /\ p.fd = f))
        /\ \A f \in Fds : Deleting(f)' <=> (Deleting(f) \/ (p.op = "del" /\ p.fd = f))
        /\ OpsDistinct'
    BY <1>1, <1>2, <2>2, <2>3, <2>4, WaitsAppended
  <2>6. /\ sock'[h] = c /\ c # None
        /\ \A f \in Fds \ {h} : sock'[f] = sock[f]
        /\ \A f \in Fds : sock[f] # c
        /\ UNCHANGED <<conn, events>>
    BY <2>1, <1>1, <1>2, <1>7, NamesAssumption DEF Accept, ConnectedOnce, sharedVars
  <2>7. \A f \in Fds : sock'[f] # None <=> (events'[f] # None \/ Adding(f)')
    BY <2>2, <2>5, <2>6, <1>1 DEF DescriptorsAccounted
  <2>8. \A f \in Fds : Adding(f)' => events'[f] = None
    BY <2>2, <2>3, <2>5, <2>6, <1>1 DEF DescriptorsAccounted
  <2>9. \A f \in Fds : events'[f] # None => events'[f].name = sock'[f]
    BY <2>3, <2>6, <1>1 DEF DescriptorsAccounted
  <2>10. \A f \in Fds : Deleting(f)' => events'[f] # None /\ Gone(sock[f])'
    BY <2>2, <2>3, <2>5, <2>6, <1>1 DEF DescriptorsAccounted
  <2>11. \A f, g \in Fds : sock'[f] # None /\ sock'[f] = sock'[g] => f = g
    BY <2>6, <1>1 DEF DescriptorsAccounted
  <2> QED BY <2>5, <2>7, <2>8, <2>9, <2>10, <2>11 DEF DescriptorsAccounted, OpsDistinct
<1>8. CASE CloseConn
  <2> DEFINE p == [op |-> "del", fd |-> cur, name |-> None]
  <2>1. p \in Ops /\ p.fd = cur /\ p.op = "del" /\ cur \in Fds
    BY <1>1, <1>8 DEF CloseConn, TypeOK, Ops
  <2>2. events[cur] # None /\ Gone(sock[cur]) /\ ~Adding(cur) /\ ~Deleting(cur)
    BY <2>1, <1>1, <1>8 DEF CloseConn, TypeOK, ReportsCurrent, DescriptorsAccounted
  <2>3. waits' = Append(waits, p) /\ UNCHANGED <<conn, sock, events>>
    BY <1>8 DEF CloseConn, DeletEvent, kernelVars, sharedVars
  <2> HIDE DEF p
  <2>4. /\ \A f \in Fds : Adding(f)' <=> (Adding(f) \/ (p.op = "add" /\ p.fd = f))
        /\ \A f \in Fds : Deleting(f)' <=> (Deleting(f) \/ (p.op = "del" /\ p.fd = f))
        /\ OpsDistinct'
    BY <1>1, <1>2, <2>1, <2>2, <2>3, WaitsAppended
  <2>5. \A f \in Fds : sock'[f] # None <=> (events'[f] # None \/ Adding(f)')
    BY <2>1, <2>3, <2>4, <1>1 DEF DescriptorsAccounted
  <2>6. \A f \in Fds : Adding(f)' => events'[f] = None
    BY <2>1, <2>3, <2>4, <1>1 DEF DescriptorsAccounted
  <2>7. \A f \in Fds : events'[f] # None => events'[f].name = sock'[f]
    BY <2>3, <1>1 DEF DescriptorsAccounted
  <2>8. \A f \in Fds : Deleting(f)' => events'[f] # None /\ Gone(sock[f])'
    BY <2>1, <2>2, <2>3, <2>4, <1>1 DEF DescriptorsAccounted
  <2>9. \A f, g \in Fds : sock'[f] # None /\ sock'[f] = sock'[g] => f = g
    BY <2>3, <1>1 DEF DescriptorsAccounted
  <2> QED BY <2>4, <2>5, <2>6, <2>7, <2>8, <2>9 DEF DescriptorsAccounted, OpsDistinct
<1> QED BY <1>4, <1>5, <1>6, <1>7, <1>8 DEF TableStep
-----------------------------------------------------------------------------
(* Where a connection is, from its client's connect() on.                  *)

LEMMA ConnectedStep ==
  ASSUME Inv, ConnectionsAge, [Next]_vars
  PROVE  ConnectedOnce'
<1> USE DEF clientVars, kernelVars, loopVars, sharedVars, workerVars
<1>1. /\ TypeOK /\ DescriptorsAccounted /\ ConnectedOnce /\ SocketsNamed
  BY AccountedNames DEF Inv
<1>2. /\ waits \in Seq(Ops) /\ backlog \in Seq(Conns) /\ sock \in [Fds -> Conns \cup {None}]
      /\ conn \in [Conns -> {"new", "up", "left", "rst"}]
  BY <1>1 DEF TypeOK
<1>3. ASSUME UNCHANGED <<backlog, sock, waits>> PROVE ConnectedOnce'
  <2>1. \A i \in DOMAIN backlog : backlog[i] \in Conns
    BY <1>2
  <2>2. \A f \in Fds : sock[f] # None => sock[f] \in Conns
    BY <1>2
  <2> QED BY <1>1, <1>3, <2>1, <2>2 DEF ConnectedOnce, ConnectionsAge
<1>4. ASSUME NEW c \in Conns, Connect(c) PROVE ConnectedOnce'
  <2>1. /\ conn[c] = "new" /\ conn'[c] = "up" /\ \A d \in Conns \ {c} : conn'[d] = conn[d]
        /\ backlog' = Append(backlog, c)
        /\ UNCHANGED <<sock, waits>>
    BY <1>2, <1>4 DEF Connect
  <2>2. /\ \A i \in DOMAIN backlog : i \in DOMAIN backlog' /\ backlog'[i] = backlog[i]
        /\ \A i \in DOMAIN backlog' : i \in DOMAIN backlog \/ i = Len(backlog) + 1
        /\ Len(backlog) + 1 \in DOMAIN backlog' /\ backlog'[Len(backlog) + 1] = c
    BY <1>2, <2>1, AppendElements
  <2>3. \A i \in DOMAIN backlog : backlog[i] \in Conns \ {c}
    BY <1>1, <1>2, <2>1 DEF ConnectedOnce
  <2>4. \A f \in Fds : sock[f] # c /\ (sock[f] # None => sock[f] \in Conns \ {c})
    BY <1>1, <1>2, <2>1, NamesAssumption DEF ConnectedOnce
  <2>5. \A i \in DOMAIN backlog' : conn'[backlog'[i]] # "new"
    BY <1>1, <2>1, <2>2, <2>3 DEF ConnectedOnce
  <2>6. \A i \in DOMAIN backlog' : \A f \in Fds : sock'[f] # backlog'[i]
    BY <1>1, <2>1, <2>2, <2>4 DEF ConnectedOnce
  <2>7. \A i, j \in DOMAIN backlog' : backlog'[i] = backlog'[j] => i = j
    BY <1>1, <2>2, <2>3 DEF ConnectedOnce
  <2>8. \A f \in Fds : sock'[f] # None => conn'[sock'[f]] # "new"
    BY <1>1, <2>1, <2>4 DEF ConnectedOnce
  <2> QED BY <1>1, <2>1, <2>5, <2>6, <2>7, <2>8 DEF ConnectedOnce
<1>5. CASE AddWait \/ DelWait
  <2> DEFINE o == Head(waits)
  <2>1. waits # <<>> /\ waits' = Tail(waits) /\ UNCHANGED <<conn, backlog>>
    BY <1>5 DEF AddWait, DelWait
  <2>2. o \in Ops
    BY <1>2, <2>1
  <2>3. \A f \in Fds : sock'[f] = sock[f] \/ (f = o.fd /\ sock'[f] = None)
    BY <1>2, <1>5 DEF AddWait, DelWait
  <2>4. /\ 1 \in DOMAIN waits /\ o = waits[1]
        /\ \A i \in DOMAIN waits' : i + 1 \in DOMAIN waits /\ i + 1 # 1 /\ waits'[i] = waits[i + 1]
    BY <1>2, <2>1, TailElements
  <2>5. \A i \in DOMAIN waits' : waits'[i].op = "add" => waits'[i].name = sock'[waits'[i].fd]
    <3> SUFFICES ASSUME NEW i \in DOMAIN waits', waits'[i].op = "add"
                 PROVE  waits'[i].name = sock'[waits'[i].fd]
      OBVIOUS
    <3>1. i + 1 \in DOMAIN waits /\ i + 1 # 1 /\ waits'[i] = waits[i + 1] /\ waits[i + 1] \in Ops
      BY <1>2, <2>4
    <3>2. waits[i + 1].fd # o.fd /\ waits[i + 1].fd \in Fds
      BY <1>1, <2>4, <3>1 DEF DescriptorsAccounted, Ops
    <3> QED BY <1>1, <2>3, <3>1, <3>2 DEF ConnectedOnce
  <2>6. \A i \in DOMAIN backlog : backlog[i] \in Conns
    BY <1>2
  <2>7. \A i \in DOMAIN backlog' : \A f \in Fds : sock'[f] # backlog'[i]
    BY <1>1, <2>1, <2>3, <2>6, NamesAssumption DEF ConnectedOnce
  <2>8. \A f \in Fds : sock'[f] # None => conn'[sock'[f]] # "new"
    BY <1>1, <2>1, <2>3 DEF ConnectedOnce
  <2> QED BY <1>1, <2>1, <2>5, <2>7, <2>8 DEF ConnectedOnce
<1>6. ASSUME NEW h \in Fds, Accept(h) PROVE ConnectedOnce'
  <2> DEFINE c == Head(backlog)
             p == [op |-> "add", fd |-> h, name |-> c]
  <2>1. backlog # <<>> /\ backlog' = Tail(backlog) /\ waits' = Append(waits, p) /\ UNCHANGED conn
    BY <1>6 DEF Accept, AddEvent
  <2>2. /\ 1 \in DOMAIN backlog /\ c = backlog[1]
        /\ \A i \in DOMAIN backlog' : i + 1 \in DOMAIN backlog /\ i + 1 # 1 /\ backlog'[i] = backlog[i + 1]
        /\ \A i, j \in DOMAIN backlog' : i + 1 = j + 1 => i = j
    BY <1>2, <2>1, TailElements
  <2>3. sock'[h] = c /\ \A f \in Fds \ {h} : sock'[f] = sock[f]
    BY <1>2, <1>6 DEF Accept
  <2>4. p \in Ops /\ p.fd = h /\ p.name = c
    BY <1>2, <2>1 DEF Ops
  <2> HIDE DEF p
  <2>5. /\ \A i \in DOMAIN waits' : i \in DOMAIN waits \/ i = Len(waits) + 1
        /\ \A i \in DOMAIN waits : waits'[i] = waits[i]
        /\ waits'[Len(waits) + 1] = p
    BY <1>2, <2>1, <2>4, AppendElements
  <2>6. \A i \in DOMAIN backlog' : conn'[backlog'[i]] # "new"
    BY <1>1, <2>1, <2>2 DEF ConnectedOnce
  <2>7. \A i \in DOMAIN backlog' : \A f \in Fds : sock'[f] # backlog'[i]
    BY <1>1, <2>2, <2>3 DEF ConnectedOnce
  <2>8. \A i, j \in DOMAIN backlog' : backlog'[i] = backlog'[j] => i = j
    BY <1>1, <2>2 DEF ConnectedOnce
  <2>9. \A f \in Fds : sock'[f] # None => conn'[sock'[f]] # "new"
    BY <1>1, <2>1, <2>2, <2>3 DEF ConnectedOnce
  <2>10. \A i \in DOMAIN waits' : waits'[i].op = "add" => waits'[i].name = sock'[waits'[i].fd]
    <3>1. ~Adding(h)
      BY <1>1, <1>6 DEF Accept, FreeFds, DescriptorsAccounted
    <3>2. \A i \in DOMAIN waits : waits[i].op = "add" => waits[i].fd # h /\ waits[i].fd \in Fds
      <4>1. \A i \in DOMAIN waits : waits[i] \in Ops
        BY <1>2
      <4> QED BY <3>1, <4>1 DEF Adding, Ops
    <3> QED BY <1>1, <2>3, <2>4, <2>5, <3>2 DEF ConnectedOnce
  <2> QED BY <2>6, <2>7, <2>8, <2>9, <2>10 DEF ConnectedOnce
<1>7. CASE CloseConn
  <2> DEFINE p == [op |-> "del", fd |-> cur, name |-> None]
  <2>1. p \in Ops /\ p.op = "del"
    BY <1>1, <1>7 DEF CloseConn, TypeOK, Ops
  <2>2. waits' = Append(waits, p) /\ UNCHANGED <<backlog, sock, conn>>
    BY <1>7 DEF CloseConn, DeletEvent
  <2> HIDE DEF p
  <2>3. /\ \A i \in DOMAIN waits' : i \in DOMAIN waits \/ i = Len(waits) + 1
        /\ \A i \in DOMAIN waits : waits'[i] = waits[i]
        /\ waits'[Len(waits) + 1] = p
    BY <1>2, <2>1, <2>2, AppendElements
  <2> QED BY <1>1, <2>1, <2>2, <2>3 DEF ConnectedOnce
<1>8. ASSUME ~TableStep, \A c \in Conns : ~Connect(c) PROVE UNCHANGED <<backlog, sock, waits>>
  <2>1. UNCHANGED <<sock, waits>>
    BY <1>1, <1>8, TablesKept
  <2>2. ASSUME NEW w \in Workers, WorkerStep(w) PROVE UNCHANGED backlog
    BY <2>2 DEF WorkerStep, Take, ExecCallback, StoreReply, PushReply, Wake
  <2>3. ASSUME LoopStep PROVE UNCHANGED backlog
    BY <2>3, <1>8 DEF LoopStep, TableStep, PopReply, FlushReply, EndReplys, EndWaits, Poll,
              Drain, EndDispatch, Dispatch, EndAccept, ReadCmd
  <2>4. ASSUME NEW c \in Conns, Request(c) \/ Deliver(c) \/ Leave(c) PROVE UNCHANGED backlog
    BY <2>4 DEF Request, Deliver, Leave
  <2>5. ASSUME RaceCrash \/ UNCHANGED vars PROVE UNCHANGED backlog
    BY <2>5 DEF RaceCrash, vars
  <2> QED BY <1>8, <2>1, <2>2, <2>3, <2>4, <2>5 DEF Next, ClientStep
<1> QED BY <1>3, <1>4, <1>5, <1>6, <1>7, <1>8 DEF TableStep
-----------------------------------------------------------------------------
(* What the loop knows of the reports it has yet to dispatch.              *)

\* A step that leaves the loop, the sockets and the operations pending alone, and
\* makes ready only registered descriptors.
LEMMA ReportsFrame ==
  ASSUME TypeOK, ReportsCurrent, ConnectionsAge, SocketsNamed,
         UNCHANGED <<lpc, cur, fired, waits, sock>>,
         \A f \in Fds : events'[f] # None <=> events[f] # None,
         \A f \in Fds \cap ready' : f \in ready \/ events[f] # None
  PROVE  ReportsCurrent'
<1>1. \A f : Deleting(f)' <=> Deleting(f)
  BY DEF Deleting
<1>2. \A f \in Fds : events[f] # None /\ Gone(sock[f]) => Gone(sock[f])'
  BY DEF ConnectionsAge, SocketsNamed, Gone
<1>3. \A f \in Fds \cap ready' : events'[f] # None
  BY DEF ReportsCurrent
<1>4. \A e \in fired' : e.type = "close" =>
         e.fd \in Fds /\ events'[e.fd] # None /\ Gone(sock[e.fd])' /\ ~Deleting(e.fd)'
  BY <1>1, <1>2 DEF ReportsCurrent
<1>5. lpc' = "close" => /\ Gone(sock[cur])' /\ ~Deleting(cur)'
                        /\ \A e \in fired' : e.type = "close" => e.fd # cur'
  BY <1>1, <1>2 DEF ReportsCurrent, TypeOK
<1> QED BY <1>3, <1>4, <1>5 DEF ReportsCurrent

LEMMA ReportsStep ==
  ASSUME Inv, ConnectionsAge, [Next]_vars
  PROVE  ReportsCurrent'
<1> USE DEF clientVars, kernelVars, loopVars, sharedVars, workerVars
<1> USE NamesAssumption
<1>1. /\ TypeOK /\ DescriptorsAccounted /\ ReportsCurrent /\ SocketsNamed
  BY AccountedNames DEF Inv
<1>2. /\ waits \in Seq(Ops) /\ events \in [Fds -> Entries \cup {None}]
      /\ sock \in [Fds -> Conns \cup {None}] /\ fired \subseteq Reports
      /\ lpc \in {"flush", "read", "close"} => cur \in Fds /\ events[cur] # None
  BY <1>1 DEF TypeOK
<1>3. ASSUME NEW c \in Conns, Connect(c) \/ Request(c) \/ Deliver(c) \/ Leave(c)
      PROVE  ReportsCurrent'
  <2>1. \A f \in Fds \cap ready' : f \in ready \/ events[f] # None
    BY <1>3 DEF Connect, Request, Deliver, Leave, Registered
  <2>2. UNCHANGED <<lpc, cur, fired, waits, sock, events>>
    BY <1>3 DEF Connect, Request, Deliver, Leave
  <2> QED BY <1>1, <2>1, <2>2, ReportsFrame
<1>4. ASSUME NEW w \in Workers, WorkerStep(w) PROVE ReportsCurrent'
  <2>1. \A f \in Fds \cap ready' : f \in ready
    BY <1>4 DEF WorkerStep, Take, ExecCallback, StoreReply, PushReply, Wake
  <2>2. UNCHANGED <<lpc, cur, fired, waits, sock>>
    BY <1>4 DEF WorkerStep, Take, ExecCallback, StoreReply, PushReply, Wake
  <2>3. \A f \in Fds : events'[f] # None <=> events[f] # None
    <3>1. CASE StoreReply(w)
      <4>1. ~TableStep
        BY <3>1 DEF TableStep, StoreReply, AddWait, DelWait, Accept, CloseConn, TypeOK
      <4> QED BY <1>1, <4>1, TablesKept
    <3>2. CASE Take(w) \/ ExecCallback(w) \/ PushReply(w) \/ Wake(w)
      BY <3>2 DEF Take, ExecCallback, PushReply, Wake
    <3> QED BY <3>1, <3>2, <1>4 DEF WorkerStep
  <2> QED BY <1>1, <2>1, <2>2, <2>3, ReportsFrame
<1>5. CASE RaceCrash \/ UNCHANGED vars
  <2>1. UNCHANGED <<lpc, cur, fired, waits, sock, ready, events>>
    BY <1>5 DEF RaceCrash, vars
  <2> QED BY <1>1, <2>1, ReportsFrame
<1>7. CASE PopReply \/ EndReplys
  BY <1>1, <1>7 DEF PopReply, EndReplys, ReportsCurrent
<1>8. CASE FlushReply
  <2>1. /\ lpc = "flush" /\ lpc' = "replys" /\ UNCHANGED <<fired, ready>>
    BY <1>8 DEF FlushReply
  <2>2. ~TableStep
    BY <1>8 DEF TableStep, FlushReply, AddWait, DelWait, Accept, CloseConn
  <2>3. \A f \in Fds : events'[f] # None <=> events[f] # None
    BY <1>1, <2>2, TablesKept
  <2> QED BY <1>1, <2>1, <2>3 DEF ReportsCurrent
<1>9. CASE AddWait \/ DelWait
  <2>1. /\ lpc = "waits" /\ UNCHANGED <<lpc, fired>> /\ Head(waits).fd \in Fds
    <3>1. waits # <<>> /\ lpc = "waits" /\ UNCHANGED <<lpc, fired>>
      BY <1>9 DEF AddWait, DelWait
    <3>2. Head(waits) \in Ops
      BY <1>2, <3>1
    <3> QED BY <3>1, <3>2 DEF Ops
  <2>2. \A f \in Fds \cap ready' : events'[f] # None
    <3>1. CASE AddWait
      <4> DEFINE entry == [name |-> Head(waits).name, recv |-> 0, send |-> <<>>]
      <4>1. entry \in Entries
        <5>1. Head(waits).name \in Conns /\ <<>> \in Seq(Replies)
          BY AccountedNames, <3>1 DEF AddWait, AddNamed
        <5> QED BY <5>1 DEF Entries
      <4>2. entry # None
        BY <4>1, NoneAssumption
      <4>3. /\ events' = [events EXCEPT ![Head(waits).fd] = entry]
            /\ ready' \subseteq ready \cup {Head(waits).fd}
        BY <3>1 DEF AddWait
      <4> QED BY <1>1, <1>2, <2>1, <4>2, <4>3 DEF ReportsCurrent
    <3>2. CASE DelWait
      BY <1>1, <1>2, <2>1, <3>2 DEF DelWait, ReportsCurrent
    <3> QED BY <1>9, <3>1, <3>2
  <2> QED BY <1>1, <2>1, <2>2 DEF ReportsCurrent
<1>10. CASE EndWaits
  BY <1>1, <1>10 DEF EndWaits, ReportsCurrent
<1>11. CASE Poll
  <2>1. /\ lpc' \in {"drain", "dispatch"} /\ ready' = {} /\ waits = <<>>
        /\ UNCHANGED <<waits, events, sock, conn>>
    BY <1>1, <1>11 DEF Poll, ReportsCurrent
  <2>2. \A f : ~Deleting(f)'
    BY <2>1 DEF Deleting
  <2>3. ASSUME NEW e \in fired', e.type = "close"
        PROVE  e.fd \in Fds /\ events[e.fd] # None /\ Gone(sock[e.fd])
    <3>1. PICK f \in ready : e = [fd |-> f, type |-> EventType(f)]
      BY <1>11 DEF Poll
    <3>2. f \in Fds /\ Gone(sock[f])
      BY <2>3, <3>1 DEF EventType
    <3> QED BY <1>1, <3>1, <3>2 DEF ReportsCurrent
  <2> QED BY <2>1, <2>2, <2>3 DEF ReportsCurrent, Gone
<1>12. CASE Drain
  BY <1>1, <1>12 DEF Drain, ReportsCurrent, Deleting, Gone
<1>13. ASSUME NEW e \in fired, Dispatch(e) PROVE ReportsCurrent'
  <2>1. /\ fired' = fired \ {e} /\ lpc = "dispatch"
        /\ UNCHANGED <<conn, sock, ready, waits, events>>
    BY <1>13 DEF Dispatch
  <2>2. /\ lpc' \in {"accept", "dispatch", "read", "close"}
        /\ lpc' = "close" => e.type = "close" /\ cur' = e.fd
    BY <1>2, <1>13 DEF Dispatch, Reports
  <2>3. \A f : Deleting(f)' <=> Deleting(f)
    BY <2>1 DEF Deleting
  <2>4. lpc' = "close" => /\ Gone(sock[cur'])  /\ ~Deleting(cur')
                          /\ \A d \in fired' : d.type = "close" => d.fd # cur'
    BY <1>1, <1>2, <2>1, <2>2 DEF ReportsCurrent, Reports
  <2>5. lpc' = "close" => /\ Gone(sock[cur])'  /\ ~Deleting(cur)'
    BY <2>1, <2>4 DEF Gone, Deleting
  <2>6. \A d \in fired' : d.type = "close" =>
           d.fd \in Fds /\ events'[d.fd] # None /\ Gone(sock[d.fd])' /\ ~Deleting(d.fd)'
    BY <1>1, <2>1, <2>3 DEF ReportsCurrent, Gone
  <2> QED BY <1>1, <2>1, <2>2, <2>4, <2>5, <2>6 DEF ReportsCurrent
<1>14. CASE EndDispatch
  BY <1>1, <1>14 DEF EndDispatch, ReportsCurrent
<1>15. ASSUME NEW h \in Fds, Accept(h) PROVE ReportsCurrent'
  <2> DEFINE p == [op |-> "add", fd |-> h, name |-> Head(backlog)]
  <2>1. /\ lpc = "accept" /\ waits' = Append(waits, p)
        /\ UNCHANGED <<conn, ready, lpc, cur, fired, events>>
    BY <1>15 DEF Accept, AddEvent
  <2>2. sock[h] = None /\ \A f \in Fds \ {h} : sock'[f] = sock[f]
    BY <1>2, <1>15 DEF Accept, FreeFds
  <2>3. p \in Ops /\ p.op = "add"
    BY <1>1, <1>15 DEF Accept, Ops, TypeOK
  <2> HIDE DEF p
  <2>4. \A f : Deleting(f)' => Deleting(f)
    BY <1>2, <2>1, <2>3, AppendElements DEF Deleting
  <2>5. \A f \in Fds : events[f] # None => f # h
    BY <1>1, <2>2 DEF DescriptorsAccounted
  <2>6. \A d \in fired' : d.type = "close" =>
           d.fd \in Fds /\ events'[d.fd] # None /\ Gone(sock[d.fd])' /\ ~Deleting(d.fd)'
    BY <1>1, <2>1, <2>2, <2>4, <2>5 DEF ReportsCurrent, Gone
  <2> QED BY <1>1, <2>1, <2>6 DEF ReportsCurrent
<1>16. CASE EndAccept \/ ReadCmd
  <2>1. /\ lpc \in {"accept", "read"} /\ lpc' = "dispatch"
        /\ UNCHANGED <<conn, sock, ready, fired, waits, events>>
    BY <1>16 DEF EndAccept, ReadCmd
  <2> QED BY <1>1, <2>1 DEF ReportsCurrent, Deleting, Gone
<1>17. CASE CloseConn
  <2> DEFINE p == [op |-> "del", fd |-> cur, name |-> None]
  <2>1. /\ lpc = "close" /\ lpc' = "dispatch" /\ waits' = Append(waits, p)
        /\ UNCHANGED <<conn, sock, ready, fired, events>>
    BY <1>17 DEF CloseConn, DeletEvent
  <2>2. p \in Ops /\ p.fd = cur
    BY <1>2, <2>1 DEF Ops
  <2> HIDE DEF p
  <2>3. \A f : Deleting(f)' => Deleting(f) \/ f = cur
    BY <1>2, <2>1, <2>2, AppendElements DEF Deleting
  <2>4. \A d \in fired' : d.type = "close" =>
           d.fd \in Fds /\ events'[d.fd] # None /\ Gone(sock[d.fd])' /\ ~Deleting(d.fd)'
    BY <1>1, <2>1, <2>3 DEF ReportsCurrent, Gone
  <2> QED BY <1>1, <2>1, <2>4 DEF ReportsCurrent
<1> QED
  BY <1>3, <1>4, <1>5, <1>7, <1>8, <1>9, <1>10, <1>11, <1>12, <1>13, <1>14, <1>15, <1>16, <1>17
  DEF Next, ClientStep, LoopStep
-----------------------------------------------------------------------------
(* The theorems on the descriptor tables.                                  *)

LEMMA InitInv == Init => Inv
<1> SUFFICES ASSUME Init PROVE Inv
  OBVIOUS
<1> USE NamesAssumption, BoundsAssumption DEF Init
<1>1. TypeOK
  <2>1. \A c \in Conns : sent[c] \in 0 .. 2 * MaxReq /\ taken[c] <= arrived[c] /\ arrived[c] <= sent[c]
    OBVIOUS
  <2>2. <<>> \in Seq(Replies) /\ <<>> \in Seq(Conns) /\ <<>> \in Seq(Ops) /\ <<>> \in Seq(Fds)
        /\ <<>> \in Seq(Events)
    OBVIOUS
  <2> QED BY <2>1, <2>2 DEF TypeOK, LoopPCs, WorkerPCs
<1>2. \A f \in Fds : ~Adding(f) /\ ~Deleting(f)
  BY DEF Adding, Deleting
<1>3. DescriptorsAccounted
  BY <1>2 DEF DescriptorsAccounted
<1>4. ReportsCurrent
  BY DEF ReportsCurrent
<1>5. ConnectedOnce
  BY DEF ConnectedOnce
<1> QED BY <1>1, <1>3, <1>4, <1>5 DEF Inv

LEMMA InvStep == Inv /\ [Next]_vars => Inv' /\ ConnectionsAge
<1> SUFFICES ASSUME Inv, [Next]_vars PROVE Inv' /\ ConnectionsAge
  OBVIOUS
<1>1. TypeOK /\ SocketsNamed /\ AddNamed
  BY AccountedNames DEF Inv
<1>2. ConnectionsAge
  BY <1>1, ConnectionsAgeStep
<1> QED BY <1>1, <1>2, TypeStep, AccountedStep, ReportsStep, ConnectedStep DEF Inv

\* Types, with the mutual exclusion of the workers' stores and the live entry a
\* handler works on, in every state, for any constants.
THEOREM TypeCorrect == Spec => []TypeOK
<1>1. Inv => TypeOK
  BY DEF Inv
<1> QED BY <1>1, InitInv, InvStep, PTL DEF Spec

\* The socket table, the events map and the pending operations agree in every
\* state, whatever the clients and the workers do (eventLoop.cpp:121-150).
THEOREM DescriptorsAgree == Spec => []DescriptorsAccounted
<1>1. Inv => DescriptorsAccounted
  BY DEF Inv
<1> QED BY <1>1, InitInv, InvStep, PTL DEF Spec

CloseStep == \A f \in Fds : sock[f] # None /\ sock'[f] # sock[f]
                              => sock'[f] = None /\ Gone(sock[f])

LEMMA OwnerStep ==
  ASSUME Inv, [Next]_vars
  PROVE  CloseStep
<1>1. TypeOK /\ DescriptorsAccounted /\ sock \in [Fds -> Conns \cup {None}]
  BY DEF Inv, TypeOK
<1>2. CASE ~TableStep
  BY <1>1, <1>2, TablesKept DEF CloseStep
<1>3. CASE AddWait \/ CloseConn
  BY <1>3 DEF AddWait, CloseConn, CloseStep, kernelVars
<1>4. CASE DelWait
  <2> DEFINE o == Head(waits)
  <2>1. o.op = "del" /\ waits # <<>> /\ sock' = [sock EXCEPT ![o.fd] = None]
    BY <1>4 DEF DelWait
  <2>2. o \in Ops /\ 1 \in DOMAIN waits /\ o = waits[1]
    BY <1>1, <2>1 DEF TypeOK
  <2>3. o.fd \in Fds /\ Deleting(o.fd)
    BY <2>1, <2>2 DEF Deleting, Ops
  <2>4. Gone(sock[o.fd])
    BY <1>1, <2>3 DEF DescriptorsAccounted
  <2> QED BY <1>1, <2>1, <2>3, <2>4 DEF CloseStep
<1>5. ASSUME NEW h \in Fds, Accept(h) PROVE CloseStep
  BY <1>1, <1>5 DEF Accept, FreeFds, CloseStep
<1> QED BY <1>2, <1>3, <1>4, <1>5 DEF TableStep

\* A descriptor is closed only when its own client has left, and is free before
\* accept() uses it again (eventLoop.cpp:136-150).
THEOREM OnlyOwnersClosed == Spec => CloseHitsOwner
<1>1. Inv /\ [Next]_vars => [CloseStep]_vars
  BY OwnerStep
<1>2. [CloseStep]_vars => [\A f \in Fds : sock[f] # None /\ sock'[f] # sock[f]
                                   => sock'[f] = None /\ Gone(sock[f])]_vars
  BY DEF CloseStep
<1> QED BY <1>1, <1>2, InitInv, InvStep, PTL DEF Spec, CloseHitsOwner
-----------------------------------------------------------------------------
(* Where a reply can end up.                                               *)

\* What may reach a client may reach the client that was given its descriptor.
LEMMA HandedOn ==
  ASSUME NEW r, NEW c, NEW d, MayReach(r, c), c = d \/ Gone(c)
  PROVE  MayReach(r, d)
BY DEF MayReach

\* Clients that have gone never come back, so a reply may reach whom it could.
LEMMA MayReachAges ==
  ASSUME ConnectionsAge, NEW r \in Replies, NEW c, MayReach(r, c)
  PROVE  MayReach(r, c)'
<1>1. r[1] \in Conns \cup {Torn}
  BY DEF Replies
<1> QED BY <1>1 DEF MayReach, ConnectionsAge, Gone

LEMMA RepliesAge ==
  ASSUME ConnectionsAge, NEW x \in Entries \cup Events, RepliesOf(x)
  PROVE  RepliesOf(x)'
<1>1. \A i \in DOMAIN x.send : x.send[i] \in Replies
  BY DEF Entries, Events
<1> QED BY <1>1, MayReachAges DEF RepliesOf

LEMMA OwedAges ==
  ASSUME ConnectionsAge, CloseStep, NEW e \in Events, Owed(e)
  PROVE  Owed(e)'
<1>1. e.name \in Conns /\ e.fd \in Fds /\ e.name # None
  BY NamesAssumption DEF Events
<1>2. Gone(e.name) => Gone(e.name)'
  BY <1>1 DEF ConnectionsAge
<1>3. RepliesOf(e)'
  BY RepliesAge DEF Owed
<1> QED BY <1>1, <1>2, <1>3 DEF Owed, CloseStep

\* What the loop finds in the reply buffer may reach the entry's client, also
\* when a worker is storing into it.
LEMMA SeenSendOwned ==
  ASSUME Inv, RepliesOwned, lpc \in {"flush", "read"},
         NEW data \in SeenSend, NEW i \in DOMAIN data
  PROVE  MayReach(data[i], sock[cur])
<1>1. /\ cur \in Fds /\ events[cur] # None /\ events[cur].name = sock[cur]
      /\ RepliesOf(events[cur])
  BY DEF Inv, TypeOK, DescriptorsAccounted, RepliesOwned
<1>2. CASE data = events[cur].send
  BY <1>1, <1>2 DEF RepliesOf
<1>3. ASSUME NEW w \in Racers, data = task[w].send PROVE MayReach(data[i], sock[cur])
  <2>1. w \in Workers /\ wpc[w] = "store" /\ task[w].fd = cur
    BY DEF Racers
  <2>2. task[w] # None
    BY <2>1 DEF Inv, TypeOK
  <2>3. Owed(task[w])
    BY <2>1, <2>2 DEF RepliesOwned
  <2>4. MayReach(data[i], task[w].name) /\ (task[w].name = sock[cur] \/ Gone(task[w].name))
    BY <2>1, <2>3, <1>3 DEF Owed, RepliesOf
  <2> QED BY <2>4, HandedOn
<1>4. CASE data = <<<<Torn, 0>>>>
  BY <1>4 DEF MayReach
<1> QED BY <1>2, <1>3, <1>4 DEF SeenSend

\* The parts of RepliesOwned and RepliesStayHome that a step leaves alone.
EntriesOwned == \A f \in Fds : events[f] # None => RepliesOf(events[f])
TasksOwed == \A k \in DOMAIN tasks : Owed(tasks[k])
WorkersOwe == \A w \in Workers : task[w] # None => Owed(task[w])
GotOwned == \A c \in Conns : \A i \in DOMAIN got[c] : MayReach(got[c][i], c)

LEMMA OwnedParts ==
  /\ RepliesOwned <=> EntriesOwned /\ TasksOwed /\ WorkersOwe
  /\ RepliesStayHome <=> GotOwned
BY DEF RepliesOwned, EntriesOwned, TasksOwed, WorkersOwe, RepliesStayHome, GotOwned, MayReach

LEMMA PartsAge ==
  ASSUME TypeOK, ConnectionsAge, CloseStep
  PROVE  /\ EntriesOwned /\ UNCHANGED events => EntriesOwned'
         /\ TasksOwed /\ UNCHANGED tasks => TasksOwed'
         /\ WorkersOwe /\ UNCHANGED task => WorkersOwe'
         /\ GotOwned /\ UNCHANGED got => GotOwned'
<1>1. ASSUME EntriesOwned, UNCHANGED events PROVE EntriesOwned'
  <2>1. ASSUME NEW f \in Fds, events[f] # None PROVE RepliesOf(events[f])'
    <3>1. events[f] \in Entries /\ RepliesOf(events[f])
      BY <1>1, <2>1 DEF TypeOK, EntriesOwned
    <3> DEFINE x == events[f]
    <3>2. x' = x
      BY <1>1
    <3> QED BY <1>1, <3>1, RepliesAge DEF RepliesOf, MayReach, Gone
  <2> QED BY <1>1, <2>1 DEF EntriesOwned
<1>2. ASSUME TasksOwed, UNCHANGED tasks PROVE TasksOwed'
  <2>1. ASSUME NEW k \in DOMAIN tasks PROVE Owed(tasks[k])'
    <3>1. tasks[k] \in Events /\ Owed(tasks[k])
      BY <1>2 DEF TypeOK, TasksOwed
    <3> QED BY <1>2, <3>1, OwedAges DEF Owed, RepliesOf, MayReach, Gone
  <2> QED BY <1>2, <2>1 DEF TasksOwed
<1>3. ASSUME WorkersOwe, UNCHANGED task PROVE WorkersOwe'
  <2>1. ASSUME NEW w \in Workers, task[w] # None PROVE Owed(task[w])'
    <3>1. task[w] \in Events /\ Owed(task[w])
      BY <1>3, <2>1 DEF TypeOK, WorkersOwe
    <3> QED BY <1>3, <3>1, OwedAges DEF Owed, RepliesOf, MayReach, Gone
  <2> QED BY <1>3, <2>1 DEF WorkersOwe
<1>4. ASSUME GotOwned, UNCHANGED got PROVE GotOwned'
  <2>1. ASSUME NEW c \in Conns, NEW i \in DOMAIN got[c] PROVE MayReach(got[c][i], c)'
    <3>1. got[c][i] \in Replies /\ MayReach(got[c][i], c)
      BY <1>4 DEF TypeOK, GotOwned
    <3> QED BY <1>4, <3>1, MayReachAges DEF MayReach, Gone
  <2> QED BY <1>4, <2>1 DEF GotOwned
<1> QED BY <1>1, <1>2, <1>3, <1>4

LEMMA RepliesStep ==
  ASSUME Inv, RepliesOwned, RepliesStayHome, [Next]_vars
  PROVE  RepliesOwned' /\ RepliesStayHome'
<1> USE DEF clientVars, kernelVars, loopVars, sharedVars, workerVars
<1>1. /\ TypeOK /\ DescriptorsAccounted /\ SocketsNamed /\ ConnectionsAge /\ CloseStep
  BY AccountedNames, InvStep, OwnerStep DEF Inv
<1>2. EntriesOwned /\ TasksOwed /\ WorkersOwe /\ GotOwned
  BY OwnedParts
<1> DEFINE Goal == EntriesOwned' /\ TasksOwed' /\ WorkersOwe' /\ GotOwned'
<1>3. /\ UNCHANGED events => EntriesOwned'
      /\ UNCHANGED tasks => TasksOwed'
      /\ UNCHANGED task => WorkersOwe'
      /\ UNCHANGED got => GotOwned'
  BY <1>1, <1>2, PartsAge
<1>4. /\ events \in [Fds -> Entries \cup {None}] /\ sock \in [Fds -> Conns \cup {None}]
      /\ tasks \in Seq(Events) /\ task \in [Workers -> Events \cup {None}]
      /\ got \in [Conns -> Seq(Replies)]
  BY <1>1 DEF TypeOK
\* The age of what the step does not touch, one element at a time.
<1>5. \A f \in Fds : events[f] # None => RepliesOf(events[f])' \/ events'[f] # events[f]
  <2> SUFFICES ASSUME NEW f \in Fds, events[f] # None, events'[f] = events[f]
               PROVE  RepliesOf(events[f])'
    OBVIOUS
  <2>1. events[f] \in Entries /\ RepliesOf(events[f])
    BY <1>2, <1>4 DEF EntriesOwned
  <2> QED BY <1>1, <2>1, RepliesAge DEF RepliesOf, MayReach, Gone
<1>6. ASSUME FlushReply PROVE Goal
  <2> DEFINE c == sock[cur]
  <2>1. /\ cur \in Fds /\ events[cur] \in Entries /\ events[cur] # None /\ c \in Conns
        /\ lpc = "flush" /\ UNCHANGED <<tasks, task>>
    BY <1>1, <1>6 DEF FlushReply, TypeOK, SocketsNamed
  <2>2. EntriesOwned'
    <3>1. events'[cur] = [events[cur] EXCEPT !.send = <<>>]
          /\ \A f \in Fds \ {cur} : events'[f] = events[f]
      BY <1>4, <1>6, <2>1 DEF FlushReply
    <3>2. events'[cur].send = <<>> /\ DOMAIN (<<>>) = {}
      BY <2>1, <3>1 DEF Entries
    <3>3. \A f \in Fds : events'[f] # None => f = cur \/ RepliesOf(events[f])'
      BY <1>5, <3>1
    <3> QED BY <3>2, <3>3 DEF EntriesOwned, RepliesOf
  <2>3. PICK data \in SeenSend : Write(cur, data)
    BY <1>6 DEF FlushReply
  <2>4. data \in Seq(Replies)
    BY <1>1, <2>1, SeenSendType
  <2>5. \A i \in DOMAIN data : MayReach(data[i], c)
    BY <2>1, SeenSendOwned
  <2>6. CASE UNCHANGED got
    BY <1>3, <2>1, <2>2, <2>6
  <2>7. CASE got' = [got EXCEPT ![c] = @ \o data]
    <3>1. ASSUME NEW d \in Conns, NEW i \in DOMAIN got'[d] PROVE MayReach(got[d][i], d)'
      <4>1. got'[d][i] \in Replies /\ MayReach(got'[d][i], d)
        <5>1. CASE d # c
          <6>1. got'[d] = got[d] /\ got[d] \in Seq(Replies)
            BY <1>4, <2>1, <2>7, <5>1
          <6>2. got[d][i] \in Replies
            BY <3>1, <6>1
          <6> QED BY <1>2, <3>1, <6>1, <6>2 DEF GotOwned
        <5>2. CASE d = c
          <6>1. got'[d] = got[c] \o data /\ got[c] \in Seq(Replies) /\ got'[d] \in Seq(Replies)
            BY <1>4, <2>1, <2>4, <2>7, <5>2
          <6>2. \/ i \in DOMAIN got[c] /\ got'[d][i] = got[c][i]
                \/ \E k \in DOMAIN data : got'[d][i] = data[k]
            <7>1. \/ i \in 1 .. Len(got[c])
                  \/ i - Len(got[c]) \in DOMAIN data /\ got'[d][i] = data[i - Len(got[c])]
              BY <3>1, <6>1, <2>4
            <7>2. i \in 1 .. Len(got[c]) => got'[d][i] = got[c][i]
              BY <3>1, <6>1, <2>4
            <7> QED BY <6>1, <7>1, <7>2
          <6>3. got'[d][i] \in Replies
            BY <3>1, <6>1
          <6> QED BY <1>2, <2>1, <2>5, <5>2, <6>2, <6>3 DEF GotOwned
        <5> QED BY <5>1, <5>2
      <4> QED BY <1>1, <4>1, MayReachAges DEF MayReach, Gone
    <3>2. GotOwned'
      BY <3>1 DEF GotOwned
    <3> QED BY <1>3, <2>1, <2>2, <3>2
  <2> QED BY <2>3, <2>6, <2>7 DEF Write
<1>7. ASSUME AddWait \/ DelWait PROVE Goal
  <2> DEFINE o == Head(waits)
  <2>1. waits # <<>> /\ UNCHANGED <<got, tasks, task>>
    BY <1>7 DEF AddWait, DelWait
  <2>2. o \in Ops /\ o.fd \in Fds
    <3>1. o \in Ops
      BY <1>1, <2>1 DEF TypeOK
    <3> QED BY <3>1 DEF Ops
  <2>3. PICK h \in Fds : h = o.fd
    BY <2>2
  <2>4. /\ \A f \in Fds \ {h} : events'[f] = events[f]
        /\ events'[h] = None \/ events'[h] = [name |-> o.name, recv |-> 0, send |-> <<>>]
    BY <1>4, <1>7, <2>3 DEF AddWait, DelWait
  <2>5. EntriesOwned'
    <3>1. \A f \in Fds : events'[f] # None => f = h \/ RepliesOf(events[f])'
      BY <1>5, <2>4
    <3>2. events'[h] # None => events'[h].send = <<>> /\ DOMAIN (<<>>) = {}
      BY <2>4
    <3> QED BY <3>1, <3>2 DEF EntriesOwned, RepliesOf
  <2> QED BY <1>3, <2>1, <2>5
<1>8. ASSUME ReadCmd PROVE Goal
  <2> DEFINE n == ReadCount(Unread(cur))
  <2>1. /\ cur \in Fds /\ events[cur] # None /\ events[cur].name = sock[cur] /\ sock[cur] \in Conns
        /\ lpc = "read" /\ UNCHANGED <<conn, sock, got, events, task>>
    BY <1>1, <1>8 DEF ReadCmd, TypeOK, SocketsNamed, DescriptorsAccounted
  <2>2. PICK data \in SeenSend :
          tasks' = Append(tasks, [fd |-> cur, name |-> events[cur].name,
                                  recv |-> events[cur].recv + n,
                                  last |-> taken[sock[cur]] + n, send |-> data])
    BY <1>8 DEF ReadCmd
  <2> DEFINE e == [fd |-> cur, name |-> events[cur].name, recv |-> events[cur].recv + n,
                   last |-> taken[sock[cur]] + n, send |-> data]
  <2>3. \A i \in DOMAIN data : MayReach(data[i], sock[cur])
    BY <2>1, SeenSendOwned
  <2>4. e.fd = cur /\ e.name = sock[cur] /\ e.send = data /\ tasks' = Append(tasks, e)
    BY <2>1, <2>2
  <2> HIDE DEF e
  <2>5. Owed(e)
    BY <2>3, <2>4 DEF Owed, RepliesOf
  <2>6. \A k \in DOMAIN tasks' : tasks'[k] = e \/ (k \in DOMAIN tasks /\ tasks'[k] = tasks[k])
    <3>1. \A k \in DOMAIN tasks : tasks'[k] = tasks[k]
      BY <1>4, <2>4
    <3>2. \A k \in DOMAIN tasks' : k \in DOMAIN tasks \/ tasks'[k] = e
      BY <1>4, <2>4
    <3> QED BY <3>1, <3>2
  <2>7. \A k \in DOMAIN tasks' : Owed(tasks'[k])
    BY <1>2, <2>5, <2>6 DEF TasksOwed
  <2>8. TasksOwed'
    BY <2>1, <2>7 DEF TasksOwed, Owed, RepliesOf, MayReach, Gone
  <2> QED BY <1>3, <2>1, <2>8
<1>9. ASSUME NEW w \in Workers, Take(w) PROVE Goal
  <2>1. UNCHANGED <<conn, sock, got, events>> /\ tasks # <<>> /\ tasks' = Tail(tasks)
        /\ task'[w] = Head(tasks) /\ \A v \in Workers \ {w} : task'[v] = task[v]
    BY <1>4, <1>9 DEF Take
  <2>2. /\ 1 \in DOMAIN tasks /\ Head(tasks) = tasks[1]
        /\ \A k \in DOMAIN tasks' : k + 1 \in DOMAIN tasks /\ tasks'[k] = tasks[k + 1]
    BY <1>4, <2>1, TailElements
  <2>3. \A k \in DOMAIN tasks' : Owed(tasks'[k])
    BY <1>2, <2>2 DEF TasksOwed
  <2>4. \A v \in Workers : task'[v] # None => Owed(task'[v])
    BY <1>2, <2>1, <2>2 DEF TasksOwed, WorkersOwe
  <2>5. TasksOwed'
    BY <2>1, <2>3 DEF TasksOwed, Owed, RepliesOf, MayReach, Gone
  <2>6. WorkersOwe'
    BY <2>1, <2>4 DEF WorkersOwe, Owed, RepliesOf, MayReach, Gone
  <2> QED BY <1>3, <2>1, <2>5, <2>6
<1>10. ASSUME NEW w \in Workers, ExecCallback(w) PROVE Goal
  <2> DEFINE h == HandlerCallback(task[w])
  <2>1. UNCHANGED <<conn, sock, got, events, tasks>>
    BY <1>10 DEF ExecCallback
  <2>2. task[w] \in Events /\ Owed(task[w])
    BY <1>1, <1>2, <1>10 DEF ExecCallback, TypeOK, WorkersOwe
  <2>3. \A i \in DOMAIN h : MayReach(h[i], task[w].name)
    BY <2>2, CallbackAppends DEF Owed, RepliesOf, MayReach
  <2> HIDE DEF h
  <2>4. \A v \in Workers \ {w} : task'[v] = task[v]
    BY <1>4, <1>10 DEF ExecCallback
  <2>5. task'[w] = None \/ task'[w] = [task[w] EXCEPT !.send = h]
    BY <1>4, <1>10 DEF ExecCallback, h
  <2>6. ASSUME task'[w] # None PROVE Owed(task'[w])
    <3>1. task'[w].name = task[w].name /\ task'[w].fd = task[w].fd /\ task'[w].send = h
      BY <2>2, <2>5, <2>6 DEF Events
    <3> QED BY <2>2, <2>3, <3>1 DEF Owed, RepliesOf
  <2>7. \A v \in Workers : task'[v] # None => Owed(task'[v])
    BY <1>2, <2>4, <2>6 DEF WorkersOwe
  <2>8. WorkersOwe'
    BY <2>1, <2>7 DEF WorkersOwe, Owed, RepliesOf, MayReach, Gone
  <2> QED BY <1>3, <2>1, <2>8
<1>11. ASSUME NEW w \in Workers, StoreReply(w) PROVE Goal
  <2> DEFINE f == task[w].fd
  <2>1. /\ UNCHANGED <<conn, sock, got, tasks, task>>
        /\ task[w] \in Events /\ Owed(task[w]) /\ events[f] # None
    BY <1>1, <1>2, <1>11 DEF StoreReply, TypeOK, WorkersOwe
  <2>2. f \in Fds /\ events[f] \in Entries /\ events[f].name = sock[f]
    BY <1>1, <1>4, <2>1 DEF Events, DescriptorsAccounted
  <2>3. /\ events'[f] = [events[f] EXCEPT !.send = task[w].send]
        /\ \A g \in Fds \ {f} : events'[g] = events[g]
    BY <1>4, <1>11, <2>2 DEF StoreReply
  <2>4. events'[f].name = sock[f] /\ events'[f].send = task[w].send
    BY <2>2, <2>3 DEF Entries
  <2>5. \A i \in DOMAIN task[w].send : MayReach(task[w].send[i], sock[f])
    BY <2>1, HandedOn DEF Owed, RepliesOf
  <2>6. RepliesOf(events'[f])
    BY <2>4, <2>5 DEF RepliesOf
  <2>7. \A g \in Fds : events'[g] # None => RepliesOf(events'[g])
    BY <1>2, <2>3, <2>6 DEF EntriesOwned
  <2>8. EntriesOwned'
    BY <2>1, <2>7 DEF EntriesOwned, RepliesOf, MayReach, Gone
  <2> QED BY <1>3, <2>1, <2>8
<1>12. ASSUME NEW w \in Workers, PushReply(w) PROVE Goal
  <2>1. UNCHANGED <<conn, sock, got, events, tasks>>
    BY <1>12 DEF PushReply
  <2>2. \A v \in Workers : task'[v] # None => Owed(task'[v])
    BY <1>2, <1>4, <1>12 DEF PushReply, WorkersOwe
  <2>3. WorkersOwe'
    BY <2>1, <2>2 DEF WorkersOwe, Owed, RepliesOf, MayReach, Gone
  <2> QED BY <1>3, <2>1, <2>3
<1>13. ASSUME NEW w \in Workers, Wake(w) PROVE Goal
  BY <1>3, <1>13 DEF Wake
<1>14. ASSUME NEW c \in Conns, Connect(c) \/ Request(c) \/ Deliver(c) \/ Leave(c) PROVE Goal
  BY <1>3, <1>14 DEF Connect, Request, Deliver, Leave
<1>15. ASSUME LoopStep, ~FlushReply, ~AddWait, ~DelWait, ~ReadCmd PROVE Goal
  BY <1>3, <1>15 DEF LoopStep, PopReply, EndReplys, EndWaits, Poll, Drain, EndDispatch,
                     Dispatch, Accept, EndAccept, CloseConn
<1>16. ASSUME RaceCrash \/ UNCHANGED vars PROVE Goal
  BY <1>3, <1>16 DEF RaceCrash, vars
<1>17. Goal
  BY <1>6, <1>7, <1>8, <1>9, <1>10, <1>11, <1>12, <1>13, <1>14, <1>15, <1>16
  DEF Next, ClientStep, WorkerStep
<1> QED
  BY <1>17 DEF RepliesOwned, EntriesOwned, TasksOwed, WorkersOwe, RepliesStayHome, GotOwned,
               MayReach

\* A client receives its own replies, garbled ones, or those of a client that
\* has gone, whatever is closed and accepted meanwhile (eventLoop.cpp:176-196).
THEOREM RepliesReachTheirClients == Spec => []RepliesStayHome
<1>1. Init => RepliesOwned /\ RepliesStayHome
  BY DEF Init, RepliesOwned, RepliesStayHome
<1>2. Inv /\ RepliesOwned /\ RepliesStayHome /\ [Next]_vars => RepliesOwned' /\ RepliesStayHome'
  BY RepliesStep
<1> QED BY <1>1, <1>2, InitInv, InvStep, PTL DEF Spec
-----------------------------------------------------------------------------
(* Patient clients wait for each answer, stay, and their requests arrive   *)
(* whole.  A request, or the answer to it, is in one place on its way      *)
(* through the server.                                                     *)

Patient == Window = 1 /\ ~MayLeave /\ ~Fragmenting /\ BufSize >= 2

(* The places.  Each set holds the descriptors whose request, or answer,   *)
(* is there.                                                               *)

Busy == {w \in Workers : task[w] # None}
Queued == {tasks[i].fd : i \in DOMAIN tasks}
AtWorkers == {task[w].fd : w \in Busy}
ToSend == {replys[i] : i \in DOMAIN replys} \cup {f \in Fds : lpc = "flush" /\ f = cur}

\* The descriptors in whose entry a worker has stored an answer that it has still
\* to announce.
Stored == {task[w].fd : w \in {v \in Busy : wpc[v] = "push"}}

\* The descriptors the loop is going to read.
Due == {f \in Fds : (\E e \in fired : e.fd = f) \/ (lpc = "read" /\ f = cur)}

(* The inductive invariant, together with Inv.                             *)

\* Of each client at most one request is unanswered, and it has been sent, has
\* arrived and has been read as a whole or not at all.
OneAtATime ==
  \A c \in Conns :
    /\ conn[c] \in {"new", "up"}
    /\ {sent[c], arrived[c], taken[c]} \subseteq {2 * Len(got[c]), 2 * Len(got[c]) + 2}

\* What the server holds of a descriptor it holds once.
OnePlace ==
  /\ Queued \cap AtWorkers = {} /\ Queued \cap ToSend = {} /\ AtWorkers \cap ToSend = {}
  /\ \A i, j \in DOMAIN tasks : tasks[i].fd = tasks[j].fd => i = j
  /\ \A v, w \in Busy : task[v].fd = task[w].fd => v = w
  /\ \A i, j \in DOMAIN replys : replys[i] = replys[j] => i = j
  /\ lpc = "flush" => \A i \in DOMAIN replys : replys[i] # cur

\* Nobody leaves, and a descriptor is read once for each report, when there is
\* something to read.
ReadsDue ==
  /\ lpc # "close" /\ \A i \in DOMAIN waits : waits[i].op = "add"
  /\ \A e \in fired : e.type = "read"
  /\ \A f \in Due : events[f] # None /\ Unread(f) > 0
  /\ lpc = "read" => \A e \in fired : e.fd # cur

\* The request of the client behind f has been read and is unanswered.
Outstanding(f) == events[f] # None /\ taken[sock[f]] = 2 * Len(got[sock[f]]) + 2
\* The answer the client c waits for.
NextReply(c) == <<<<c, Len(got[c]) + 1>>>>
\* Event e bears the outstanding request of the client behind its descriptor.
Bears(e) ==
  Outstanding(e.fd) /\ e.name = sock[e.fd] /\ e.recv = 2 /\ e.last = taken[sock[e.fd]]

\* The server holds outstanding requests and the answers to them, and what is
\* announced, or will be, is in its entry.
TasksBear == \A i \in DOMAIN tasks : Bears(tasks[i]) /\ tasks[i].send = <<>>
WorkersBear ==
  \A w \in Busy :
    Bears(task[w]) /\ task[w].send = IF wpc[w] = "exec" THEN <<>> ELSE NextReply(task[w].name)
EntriesBear ==
  /\ \A f \in ToSend : Outstanding(f)
  /\ \A f \in Fds : events[f] # None =>
       /\ events[f].recv = 0
       /\ events[f].send = IF f \in ToSend \cup Stored THEN NextReply(sock[f]) ELSE <<>>

SInv == OneAtATime /\ OnePlace /\ ReadsDue /\ TasksBear /\ WorkersBear /\ EntriesBear
-----------------------------------------------------------------------------
(* Lemmas about the operators.                                             *)

\* A single request is read as a whole.
LEMMA ReadsRequest == Patient => ReadCount(2) = 2
<1> SUFFICES ASSUME Patient PROVE ReadCount(2) = 2
  OBVIOUS
<1>1. 2 \in Nat /\ 2 < 2 * BufSize
  BY BoundsAssumption DEF Patient
<1> QED BY <1>1, ReadsShortRequests

\* The callback makes of request n + 1 the answer to it.
LEMMA CallbackAnswers ==
  ASSUME NEW e, NEW n \in Nat, e.recv = 2, e.last = 2 * n + 2, e.send = <<>>
  PROVE  HandlerCallback(e) = <<<<e.name, n + 1>>>>
<1>1. (2 * n + 2 - 2 + 1) \div 2 + 1 = n + 1 /\ (2 * n + 2) \div 2 = n + 1
  OBVIOUS
<1>2. 1 .. ((n + 1) - (n + 1) + 1) = 1 .. 1
  OBVIOUS
<1>3. Parsed(2 * n + 2, 2) = [i \in 1 .. 1 |-> (n + 1) + i - 1]
  BY <1>1, <1>2 DEF Parsed
<1> DEFINE p == Parsed(2 * n + 2, 2)
<1>4. DOMAIN p = 1 .. 1 /\ p[1] = n + 1
  BY <1>3
<1> HIDE DEF p
<1>5. [i \in DOMAIN p |-> <<e.name, p[i]>>] = <<<<e.name, n + 1>>>>
  BY <1>4
<1>6. HandlerCallback(e) = <<>> \o [i \in DOMAIN p |-> <<e.name, p[i]>>]
  BY DEF HandlerCallback, p
<1> QED BY <1>5, <1>6

\* The clients behind registered descriptors, and what is typed.
LEMMA Typed ==
  ASSUME Inv
  PROVE  /\ \A c \in Conns : /\ Len(got[c]) \in Nat /\ got[c] \in Seq(Replies)
                             /\ sent[c] \in Nat /\ arrived[c] \in Nat /\ taken[c] \in Nat
                             /\ taken[c] <= arrived[c] /\ arrived[c] <= sent[c]
         /\ \A f \in Fds : events[f] # None => sock[f] \in Conns /\ events[f] \in Entries
         /\ \A i \in DOMAIN tasks : tasks[i] \in Events /\ tasks[i].fd \in Fds
         /\ \A w \in Busy : task[w] \in Events /\ task[w].fd \in Fds
         /\ \A i \in DOMAIN replys : replys[i] \in Fds
         /\ \A w \in Workers : w \in Busy <=> wpc[w] \in {"exec", "store", "push"}
<1>1. \A c \in Conns : /\ Len(got[c]) \in Nat /\ got[c] \in Seq(Replies)
                       /\ sent[c] \in Nat /\ arrived[c] \in Nat /\ taken[c] \in Nat
                       /\ taken[c] <= arrived[c] /\ arrived[c] <= sent[c]
  BY DEF Inv, TypeOK
<1>2. \A f \in Fds : events[f] # None => sock[f] \in Conns /\ events[f] \in Entries
  BY AccountedNames DEF SocketsNamed, Inv, TypeOK
<1>3. \A i \in DOMAIN tasks : tasks[i] \in Events
  BY DEF Inv, TypeOK
<1>4. \A w \in Busy : task[w] \in Events
  BY DEF Inv, TypeOK, Busy
<1>5. \A e \in Events : e.fd \in Fds
  BY DEF Events
<1>6. \A i \in DOMAIN replys : replys[i] \in Fds
  BY DEF Inv, TypeOK
<1>7. \A w \in Workers : w \in Busy <=> wpc[w] \in {"exec", "store", "push"}
  BY DEF Inv, TypeOK, Busy
<1> QED BY <1>1, <1>2, <1>3, <1>4, <1>5, <1>6, <1>7

\* What the server holds of a client, or is going to read, is outstanding or
\* unread, so never both; and nothing of it is held without an entry.
LEMMA HeldOutstanding ==
  ASSUME Inv, SInv
  PROVE  /\ \A f \in Queued \cup AtWorkers \cup ToSend : f \in Fds /\ Outstanding(f)
         /\ Due \cap (Queued \cup AtWorkers \cup ToSend) = {}
         /\ \A f \in Fds : events[f] # None /\ Unread(f) > 0 =>
              f \notin Queued \cup AtWorkers \cup ToSend /\ Unread(f) = 2
<1>1. \A f \in Queued \cup AtWorkers : f \in Fds /\ Outstanding(f)
  BY Typed DEF SInv, TasksBear, WorkersBear, Bears, Queued, AtWorkers
<1>2. \A f \in ToSend : f \in Fds /\ Outstanding(f)
  BY Typed DEF SInv, EntriesBear, ToSend
<1>3. ASSUME NEW f \in Fds, events[f] # None, Unread(f) > 0
      PROVE  ~Outstanding(f) /\ Unread(f) = 2
  <2>1. sock[f] \in Conns
    BY <1>3, Typed
  <2>2. /\ Len(got[sock[f]]) \in Nat
        /\ arrived[sock[f]] \in {2 * Len(got[sock[f]]), 2 * Len(got[sock[f]]) + 2}
        /\ taken[sock[f]] \in {2 * Len(got[sock[f]]), 2 * Len(got[sock[f]]) + 2}
        /\ arrived[sock[f]] - taken[sock[f]] > 0
    BY <2>1, <1>3, Typed DEF SInv, OneAtATime, Unread
  <2> QED BY <2>2 DEF Outstanding, Unread
<1>4. \A f \in Due : f \in Fds /\ events[f] # None /\ Unread(f) > 0
  BY DEF SInv, ReadsDue, Due
<1> QED BY <1>1, <1>2, <1>3, <1>4

\* While the loop uses an entry no worker stores into one it could meet.
LEMMA NobodyRaces ==
  ASSUME Inv, SInv
  PROVE  NoRace
<1> SUFFICES ASSUME lpc \in {"flush", "read", "close"}, NEW w \in Racers
             PROVE  FALSE
  BY DEF NoRace
<1>1. w \in Busy /\ task[w].fd = cur
  BY Typed DEF Racers
<1>2. cur \in AtWorkers /\ cur \in Fds
  BY <1>1, Typed DEF AtWorkers
<1>3. CASE lpc = "flush"
  BY <1>2, <1>3 DEF SInv, OnePlace, ToSend
<1>4. CASE lpc = "read"
  BY <1>2, <1>4, HeldOutstanding DEF Due
<1>5. CASE lpc = "close"
  BY <1>5 DEF SInv, ReadsDue
<1> QED BY <1>3, <1>4, <1>5

\* So the loop reads and moves out what the entry holds.
LEMMA SeesEntry ==
  ASSUME Inv, SInv, lpc \in {"flush", "read"}
  PROVE  SeenSend = {events[cur].send}
BY NobodyRaces DEF NoRace, SeenSend
-----------------------------------------------------------------------------
(* What a step leaves alone.                                               *)

LEMMA PlacesSame ==
  ASSUME UNCHANGED <<tasks, task, wpc, replys>>, lpc # "flush", lpc' # "flush"
  PROVE  Queued' = Queued /\ Busy' = Busy /\ AtWorkers' = AtWorkers /\ Stored' = Stored
         /\ ToSend' = ToSend
BY DEF Queued, Busy, AtWorkers, Stored, ToSend

LEMMA OneAtATimeFrame ==
  ASSUME OneAtATime, UNCHANGED <<conn, sent, arrived, taken, got>>
  PROVE  OneAtATime'
BY DEF OneAtATime

LEMMA BearsFrame ==
  ASSUME Inv, NEW e \in Events, Bears(e), UNCHANGED <<sock, taken, got>>,
         \A f \in Fds : events[f] # None => events'[f] # None
  PROVE  Bears(e)'
<1>1. e.fd \in Fds
  BY DEF Events
<1> QED BY <1>1 DEF Bears, Outstanding

\* The same of the next state, for a value of this one.
BearsNext(e) ==
  /\ events'[e.fd] # None /\ taken'[sock'[e.fd]] = 2 * Len(got'[sock'[e.fd]]) + 2
  /\ e.name = sock'[e.fd] /\ e.recv = 2 /\ e.last = taken'[sock'[e.fd]]

LEMMA HeldNext ==
  /\ TasksBear' <=> \A i \in DOMAIN tasks' : BearsNext(tasks'[i]) /\ tasks'[i].send = <<>>
  /\ WorkersBear' <=>
       \A w \in Busy' : /\ BearsNext(task'[w])
                        /\ task'[w].send = IF wpc'[w] = "exec" THEN <<>>
                             ELSE <<<<task'[w].name, Len(got'[task'[w].name]) + 1>>>>
BY DEF TasksBear, WorkersBear, Bears, Outstanding, BearsNext, NextReply

LEMMA HeldFrame ==
  ASSUME Inv, SInv, UNCHANGED <<sock, taken, got>>,
         \A f \in Fds : events[f] # None => events'[f] # None
  PROVE  /\ UNCHANGED tasks => TasksBear'
         /\ UNCHANGED <<wpc, task>> => WorkersBear'
         /\ UNCHANGED <<events>> /\ ToSend' = ToSend /\ Stored' = Stored => EntriesBear'
<1>1. UNCHANGED tasks => TasksBear'
  BY BearsFrame, Typed DEF SInv, TasksBear
<1>2. ASSUME UNCHANGED <<wpc, task>> PROVE WorkersBear'
  <2>1. Busy' = Busy
    BY <1>2 DEF Busy
  <2>2. \A w \in Busy : Bears(task[w])'
    BY <1>2, BearsFrame, Typed DEF SInv, WorkersBear
  <2> QED BY <1>2, <2>1, <2>2 DEF SInv, WorkersBear, NextReply
<1>3. UNCHANGED <<events>> /\ ToSend' = ToSend /\ Stored' = Stored => EntriesBear'
  BY DEF SInv, EntriesBear, Outstanding, NextReply
<1> QED BY <1>1, <1>2, <1>3

\* A step of the loop that only moves it on, outside the flushing of replies.
LEMMA QuietFrame ==
  ASSUME Inv, SInv, lpc # "flush", lpc' # "flush",
         UNCHANGED <<conn, sent, arrived, got, sock, taken, events, replys, tasks, wpc, task>>,
         ReadsDue'
  PROVE  SInv'
<1>1. OneAtATime'
  BY OneAtATimeFrame DEF SInv
<1>2. Queued' = Queued /\ Busy' = Busy /\ AtWorkers' = AtWorkers /\ Stored' = Stored
      /\ ToSend' = ToSend
  BY PlacesSame
<1>3. OnePlace'
  BY <1>2 DEF SInv, OnePlace
<1> QED BY <1>1, <1>2, <1>3, HeldFrame DEF SInv

\* A step that reports nothing new, and takes from no descriptor that is due.
LEMMA ReadsDueFrame ==
  ASSUME Inv, SInv, UNCHANGED <<waits, fired>>, UNCHANGED sock,
         \/ UNCHANGED <<lpc, cur>>
         \/ lpc' \notin {"read", "close"},
         \A f \in Fds : events[f] # None => events'[f] # None,
         \A f \in Due' : Unread(f)' = Unread(f) \/ Unread(f)' > 0
  PROVE  ReadsDue'
<1>1. Due' \subseteq Due /\ Due \subseteq Fds
  BY DEF Due
<1>2. \A f \in Due' : events'[f] # None /\ events[f] # None /\ Unread(f) > 0
  BY <1>1 DEF SInv, ReadsDue
<1>3. \A f \in Due' : Unread(f)' > 0
  BY <1>2
<1> QED BY <1>2, <1>3 DEF SInv, ReadsDue
-----------------------------------------------------------------------------
(* The steps.                                                              *)

\* With patient clients nobody leaves and the loop closes nothing.
LEMMA NobodyLeaves ==
  ASSUME Patient, Inv, SInv
  PROVE  ~DelWait /\ ~CloseConn /\ \A c \in Conns : ~Leave(c)
<1>1. ~DelWait
  <2>1. waits # <<>> => 1 \in DOMAIN waits /\ Head(waits) = waits[1]
    BY TailElements DEF Inv, TypeOK
  <2> QED BY <2>1 DEF DelWait, SInv, ReadsDue
<1> QED BY <1>1 DEF CloseConn, SInv, ReadsDue, Leave, Patient

LEMMA ClientStepSerial ==
  ASSUME Patient, Inv, SInv, NEW c \in Conns, Connect(c) \/ Request(c) \/ Deliver(c)
  PROVE  SInv'
<1> USE DEF clientVars, kernelVars, loopVars, sharedVars, workerVars
<1> DEFINE n == Len(got[c])
<1>1. /\ UNCHANGED <<got, taken, sock, lpc, cur, fired, waits, events, replys, tasks, wpc, task>>
      /\ \A d \in Conns \ {c} : conn'[d] = conn[d] /\ sent'[d] = sent[d] /\ arrived'[d] = arrived[d]
  BY DEF Connect, Request, Deliver, Inv, TypeOK
<1>2. /\ n \in Nat /\ conn[c] \in {"new", "up"}
      /\ sent[c] \in {2 * n, 2 * n + 2} /\ arrived[c] \in {2 * n, 2 * n + 2}
      /\ taken[c] \in {2 * n, 2 * n + 2} /\ taken[c] <= arrived[c] /\ arrived[c] <= sent[c]
  BY Typed DEF SInv, OneAtATime
<1>3. /\ conn'[c] \in {"new", "up"} /\ sent'[c] \in {2 * n, 2 * n + 2}
      /\ arrived'[c] = arrived[c] \/ (arrived[c] = 2 * n /\ arrived'[c] = 2 * n + 2)
  <2>1. CASE Connect(c)
    BY <1>2, <2>1 DEF Connect, Inv, TypeOK
  <2>2. CASE Request(c)
    <3>1. sent[c] < 2 * (n + 1) /\ sent'[c] = sent[c] + 2
      BY <2>2 DEF Request, Patient, Inv, TypeOK
    <3> QED BY <1>2, <2>2, <3>1 DEF Request
  <2>3. CASE Deliver(c)
    <3>1. arrived[c] + 2 <= sent[c] /\ arrived'[c] = arrived[c] + 2
      BY <2>3 DEF Deliver, Patient, Inv, TypeOK
    <3> QED BY <1>2, <2>3, <3>1 DEF Deliver
  <2> QED BY <2>1, <2>2, <2>3
<1>4. OneAtATime'
  BY <1>1, <1>2, <1>3 DEF SInv, OneAtATime
<1>5. \A f \in Due : Unread(f)' = Unread(f) \/ Unread(f)' > 0
  <2> SUFFICES ASSUME NEW f \in Due, sock[f] = c PROVE Unread(f)' = Unread(f) \/ Unread(f)' > 0
    <3>1. \A f \in Due : sock[f] \in Conns
      BY Typed DEF Due, SInv, ReadsDue
    <3> QED BY <1>1, <3>1 DEF Unread
  <2> QED BY <1>1, <1>2, <1>3 DEF Unread
<1>6. Due' = Due /\ Queued' = Queued /\ Busy' = Busy /\ AtWorkers' = AtWorkers
      /\ ToSend' = ToSend /\ Stored' = Stored
  BY <1>1 DEF Due, Queued, Busy, AtWorkers, ToSend, Stored
<1>7. ReadsDue'
  BY <1>1, <1>5, <1>6, ReadsDueFrame
<1>8. OnePlace'
  BY <1>1, <1>6 DEF SInv, OnePlace
<1> QED BY <1>1, <1>4, <1>6, <1>7, <1>8, HeldFrame DEF SInv

\* Steps of the loop that look at nobody's data.
LEMMA QuietStepSerial ==
  ASSUME Inv, SInv,
         \/ EndReplys \/ EndWaits \/ Poll \/ Drain \/ EndDispatch \/ EndAccept
         \/ \E e \in fired : Dispatch(e)
  PROVE  SInv'
<1> USE DEF clientVars, kernelVars, loopVars, sharedVars, workerVars
<1>1. /\ UNCHANGED <<conn, sent, arrived, got, sock, taken, events, replys, tasks, wpc, task>>
      /\ lpc # "flush" /\ UNCHANGED waits
  BY DEF EndReplys, EndWaits, Poll, Drain, EndDispatch, EndAccept, Dispatch
<1>2. CASE EndReplys \/ EndWaits \/ Drain \/ EndDispatch \/ EndAccept
  <2>1. lpc' \notin {"flush", "read", "close"} /\ UNCHANGED fired
    BY <1>2 DEF EndReplys, EndWaits, Drain, EndDispatch, EndAccept
  <2>2. \A f \in Due' : Unread(f)' = Unread(f)
    BY <1>1 DEF Unread
  <2>3. ReadsDue'
    BY <1>1, <2>1, <2>2, ReadsDueFrame
  <2> QED BY <1>1, <2>1, <2>3, QuietFrame
<1>3. CASE Poll
  <2>1. lpc' \notin {"flush", "read", "close"}
        /\ fired' = {[fd |-> f, type |-> EventType(f)] : f \in {g \in ready : Reported(g)}}
    BY <1>3 DEF Poll
  <2>2. ASSUME NEW f \in Fds, f \in ready, Reported(f)
        PROVE  events[f] # None /\ Unread(f) > 0 /\ ~Gone(sock[f])
    <3>1. events[f] # None /\ sock[f] \in Conns
      BY <2>2, Typed DEF Inv, ReportsCurrent
    <3>2. ~Gone(sock[f])
      BY <3>1 DEF Gone, SInv, OneAtATime
    <3>3. f # Listener
      BY NamesAssumption
    <3> QED BY <3>1, <3>2, <3>3, <2>2 DEF Reported
  <2>3. \A e \in fired' : e.type = "read" /\ (e.fd \in Fds => events[e.fd] # None /\ Unread(e.fd) > 0)
    BY <2>1, <2>2 DEF EventType
  <2>4. Due' \subseteq {f \in Fds : \E e \in fired' : e.fd = f}
    BY <2>1 DEF Due
  <2>5. ReadsDue'
    BY <1>1, <2>1, <2>3, <2>4 DEF ReadsDue, SInv, Unread
  <2> QED BY <1>1, <2>1, <2>5, QuietFrame
<1>4. ASSUME NEW e \in fired, Dispatch(e) PROVE SInv'
  <2>1. /\ fired' = fired \ {e} /\ lpc = "dispatch"
        /\ \/ lpc' \in {"accept", "dispatch"}
           \/ e.fd # Listener /\ lpc' = e.type /\ cur' = e.fd
    BY <1>4 DEF Dispatch
  <2>2. e \in Reports /\ e.type = "read"
    BY DEF Inv, TypeOK, SInv, ReadsDue
  <2>3. \A d \in fired : d.fd = e.fd /\ d.type = e.type => d = e
    <3>1. \A d \in Reports : d = [fd |-> d.fd, type |-> d.type]
      BY DEF Reports
    <3> QED BY <2>2, <3>1 DEF Inv, TypeOK
  <2>4. lpc' \in {"accept", "dispatch"} \/ (lpc' = "read" /\ cur' = e.fd)
    BY <2>1, <2>2
  <2>5. Due' \subseteq Due
    BY <2>1, <2>4 DEF Due
  <2>6. lpc' = "read" => \A d \in fired' : d.fd # cur'
    BY <2>1, <2>2, <2>3, <2>4 DEF SInv, ReadsDue
  <2>7. ReadsDue'
    BY <1>1, <2>1, <2>4, <2>5, <2>6 DEF SInv, ReadsDue, Unread
  <2> QED BY <1>1, <2>4, <2>7, QuietFrame
<1> QED BY <1>2, <1>3, <1>4

LEMMA PopReplySerial == ASSUME Inv, SInv, PopReply PROVE SInv'
<1> USE DEF clientVars, kernelVars, loopVars, sharedVars, workerVars
<1> DEFINE h == Head(replys)
<1>1. /\ UNCHANGED <<conn, sent, arrived, got, sock, taken, events, fired, waits, tasks, wpc, task>>
      /\ lpc = "replys" /\ replys # <<>> /\ replys' = Tail(replys)
  BY DEF PopReply
<1>2. replys \in Seq(Fds)
  BY DEF Inv, TypeOK
<1>3. /\ 1 \in DOMAIN replys /\ h = replys[1]
      /\ \A i \in DOMAIN replys' : i + 1 \in DOMAIN replys /\ i + 1 # 1 /\ replys'[i] = replys[i + 1]
      /\ \A j \in DOMAIN replys : j = 1 \/ (j - 1 \in DOMAIN replys' /\ replys'[j - 1] = replys[j])
      /\ \A i, j \in DOMAIN replys' : i + 1 = j + 1 => i = j
  BY <1>1, <1>2, TailElements
<1>4. h \in Fds /\ h \in ToSend
  BY <1>2, <1>3 DEF ToSend
<1>5. lpc' = "flush" /\ cur' = h
  BY <1>4, HeldOutstanding DEF PopReply, Outstanding
<1>6. ToSend' = ToSend
  <2>1. ToSend = {replys[i] : i \in DOMAIN replys}
    BY <1>1 DEF ToSend
  <2>2. ToSend' = {replys'[i] : i \in DOMAIN replys'} \cup {h}
    BY <1>4, <1>5 DEF ToSend
  <2>3. \A f : (\E i \in DOMAIN replys : replys[i] = f) <=> (f = h \/ \E i \in DOMAIN replys' : replys'[i] = f)
    BY <1>3
  <2> QED BY <2>1, <2>2, <2>3
<1>7. Queued' = Queued /\ Busy' = Busy /\ AtWorkers' = AtWorkers /\ Stored' = Stored
  BY <1>1 DEF Queued, Busy, AtWorkers, Stored
<1>8. \A i, j \in DOMAIN replys' : replys'[i] = replys'[j] => i = j
  BY <1>3 DEF SInv, OnePlace
<1>9. \A i \in DOMAIN replys' : replys'[i] # h
  BY <1>3 DEF SInv, OnePlace
<1>10. OnePlace'
  BY <1>1, <1>5, <1>6, <1>7, <1>8, <1>9 DEF SInv, OnePlace
<1>11. OneAtATime'
  BY <1>1, OneAtATimeFrame DEF SInv
<1>12. ReadsDue'
  <2>1. \A f \in Due' : Unread(f)' = Unread(f)
    BY <1>1 DEF Unread
  <2> QED BY <1>1, <1>5, <2>1, ReadsDueFrame
<1> QED BY <1>1, <1>6, <1>7, <1>10, <1>11, <1>12, HeldFrame DEF SInv

\* Flushing gives the client the answer it waits for.
LEMMA Flushes ==
  ASSUME Inv, SInv, FlushReply
  PROVE  /\ cur \in Fds /\ sock[cur] \in Conns
         /\ taken[sock[cur]] = 2 * Len(got[sock[cur]]) + 2
         /\ got' = [got EXCEPT ![sock[cur]] = Append(@, <<sock[cur], Len(@) + 1>>)]
         /\ UNCHANGED <<conn, alive>>
<1> DEFINE c == sock[cur]
<1>1. lpc = "flush" /\ cur \in Fds /\ cur \in ToSend
  BY DEF FlushReply, Inv, TypeOK, ToSend
<1>2. Outstanding(cur) /\ c \in Conns
  BY <1>1, HeldOutstanding, Typed DEF Outstanding
<1>3. events[cur].send = NextReply(c)
  BY <1>1, <1>2 DEF SInv, EntriesBear, Outstanding
<1>4. Write(cur, NextReply(c))
  BY <1>1, <1>3, SeesEntry DEF FlushReply
<1>5. conn[c] = "up"
  <2>1. conn[c] # "new"
    BY <1>1, <1>2, NamesAssumption DEF Inv, ConnectedOnce
  <2> QED BY <1>2, <2>1 DEF SInv, OneAtATime
<1>6. got' = [got EXCEPT ![c] = @ \o NextReply(c)] /\ UNCHANGED <<conn, alive>>
  BY <1>4, <1>5 DEF Write
<1>7. got[c] \o NextReply(c) = Append(got[c], <<c, Len(got[c]) + 1>>)
  <2>1. got[c] \in Seq(Replies)
    BY <1>2, Typed
  <2> QED BY <2>1 DEF NextReply
<1> QED BY <1>1, <1>2, <1>6, <1>7 DEF Outstanding, Inv, TypeOK

LEMMA FlushReplySerial == ASSUME Inv, SInv, FlushReply PROVE SInv'
<1> USE DEF clientVars, kernelVars, loopVars, sharedVars, workerVars
<1>1. PICK c \in Conns : c = sock[cur]
  BY Flushes
<1> DEFINE n == Len(got[c])
<1>2. /\ UNCHANGED <<conn, sent, arrived, taken, sock, cur, fired, waits, replys, tasks, wpc, task>>
      /\ lpc = "flush" /\ lpc' = "replys" /\ cur \in Fds
  BY Flushes DEF FlushReply
<1>3. n \in Nat /\ taken[c] = 2 * n + 2 /\ sent[c] = 2 * n + 2 /\ arrived[c] = 2 * n + 2
  BY <1>1, Flushes, Typed DEF SInv, OneAtATime
<1>4. Len(got'[c]) = n + 1 /\ \A d \in Conns \ {c} : got'[d] = got[d]
  <2>1. got[c] \in Seq(Replies) /\ got \in [Conns -> Seq(Replies)]
    BY Typed DEF Inv, TypeOK
  <2>2. got' = [got EXCEPT ![c] = Append(@, <<c, Len(@) + 1>>)]
    BY <1>1, Flushes
  <2> QED BY <2>1, <2>2
<1>5. OneAtATime'
  <2>1. sent[c] = 2 * (n + 1) /\ arrived[c] = 2 * (n + 1) /\ taken[c] = 2 * (n + 1)
    BY <1>3
  <2> HIDE DEF n
  <2>2. ASSUME NEW d \in Conns
        PROVE  /\ conn[d] \in {"new", "up"}
               /\ {sent[d], arrived[d], taken[d]} \subseteq {2 * Len(got'[d]), 2 * Len(got'[d]) + 2}
    <3>1. CASE d = c
      BY <1>4, <2>1, <3>1 DEF SInv, OneAtATime
    <3>2. CASE d # c
      BY <1>4, <3>2 DEF SInv, OneAtATime
    <3> QED BY <3>1, <3>2
  <2> QED BY <1>2, <2>2 DEF OneAtATime
<1>6. Queued' = Queued /\ Busy' = Busy /\ AtWorkers' = AtWorkers /\ Stored' = Stored
  BY <1>2 DEF Queued, Busy, AtWorkers, Stored
<1>7. ToSend' = ToSend \ {cur} /\ cur \in ToSend
  BY <1>2 DEF ToSend, SInv, OnePlace
<1>8. OnePlace'
  BY <1>2, <1>6, <1>7 DEF SInv, OnePlace
<1>9. /\ events'[cur] = [events[cur] EXCEPT !.send = <<>>]
      /\ \A f \in Fds \ {cur} : events'[f] = events[f]
  BY <1>2 DEF FlushReply, Inv, TypeOK
<1>10. events[cur] \in Entries /\ events[cur] # None
  BY <1>2, Typed DEF Inv, TypeOK
<1>11. events'[cur] # None /\ events'[cur].send = <<>> /\ events'[cur].recv = events[cur].recv
  <2>1. events'[cur] \in Entries
    <3>1. <<>> \in Seq(Replies)
      OBVIOUS
    <3> QED BY <1>9, <1>10, <3>1 DEF Entries
  <2> QED BY <1>9, <1>10, <2>1, NoneAssumption DEF Entries
\* Another descriptor has another client.
<1>12. \A f \in Fds \ {cur} : events[f] # None => sock[f] \in Conns \ {c}
  BY <1>1, <1>2, Typed, NamesAssumption DEF Inv, DescriptorsAccounted
<1>13. \A f \in Fds \ {cur} : Outstanding(f) => Outstanding(f)'
  BY <1>2, <1>4, <1>9, <1>12 DEF Outstanding
<1>14. \A f \in Fds \ {cur} : events[f] # None => NextReply(sock[f])' = NextReply(sock[f])
  BY <1>2, <1>4, <1>12 DEF NextReply
<1>15. cur \notin Queued \cup AtWorkers \cup Stored
  BY <1>7 DEF SInv, OnePlace, Stored, AtWorkers
<1>16. TasksBear'
  <2>1. \A i \in DOMAIN tasks : tasks[i].fd \in Fds \ {cur}
    BY <1>15, Typed DEF Queued
  <2> QED BY <1>2, <1>13, <2>1 DEF SInv, TasksBear, Bears
<1>17. WorkersBear'
  <2>1. \A w \in Busy : task[w].fd \in Fds \ {cur} /\ task[w].name = sock[task[w].fd]
                        /\ events[task[w].fd] # None
    BY <1>15, Typed DEF AtWorkers, SInv, WorkersBear, Bears, Outstanding
  <2>2. \A w \in Busy : Bears(task[w])'
    BY <1>2, <1>13, <2>1 DEF SInv, WorkersBear, Bears
  <2>3. \A w \in Busy : NextReply(task[w].name)' = NextReply(task[w].name)
    BY <1>2, <1>14, <2>1
  <2> QED BY <1>2, <1>6, <2>2, <2>3 DEF SInv, WorkersBear
<1>18. EntriesBear'
  <2>1. \A f \in ToSend' : Outstanding(f)'
    BY <1>7, <1>13, HeldOutstanding
  <2>2. ASSUME NEW f \in Fds, events'[f] # None
        PROVE  /\ events'[f].recv = 0
               /\ events'[f].send = IF f \in ToSend' \cup Stored' THEN NextReply(sock[f])' ELSE <<>>
    <3>1. CASE f = cur
      BY <1>6, <1>7, <1>10, <1>11, <1>15, <3>1 DEF SInv, EntriesBear
    <3>2. CASE f # cur
      BY <1>6, <1>7, <1>9, <1>14, <2>2, <3>2 DEF SInv, EntriesBear
    <3> QED BY <3>1, <3>2
  <2> QED BY <1>2, <2>1, <2>2 DEF EntriesBear
<1>19. ReadsDue'
  <2>1. \A f \in Due' : Unread(f)' = Unread(f)
    BY <1>2 DEF Unread
  <2>2. \A f \in Fds : events[f] # None => events'[f] # None
    BY <1>9, <1>11
  <2> QED BY <1>2, <2>1, <2>2, ReadsDueFrame
<1> QED BY <1>5, <1>8, <1>16, <1>17, <1>18, <1>19 DEF SInv

LEMMA AddWaitSerial == ASSUME Inv, SInv, AddWait PROVE SInv'
<1> USE DEF clientVars, kernelVars, loopVars, sharedVars, workerVars
<1> DEFINE f == Head(waits).fd
           entry == [name |-> Head(waits).name, recv |-> 0, send |-> <<>>]
<1>1. /\ UNCHANGED <<conn, sent, arrived, got, taken, sock, lpc, cur, fired, replys, tasks, wpc, task>>
      /\ lpc = "waits" /\ waits # <<>> /\ waits' = Tail(waits) /\ Head(waits).op = "add"
  BY DEF AddWait
<1>2. /\ 1 \in DOMAIN waits /\ Head(waits) = waits[1] /\ waits[1] \in Ops
      /\ \A i \in DOMAIN waits' : i + 1 \in DOMAIN waits /\ waits'[i] = waits[i + 1]
  <2>1. waits \in Seq(Ops)
    BY DEF Inv, TypeOK
  <2> QED BY <1>1, <2>1, TailElements
<1>3. f \in Fds /\ events[f] = None
  BY <1>1, <1>2 DEF Ops, Adding, Inv, DescriptorsAccounted
<1>4. events'[f] = entry /\ \A g \in Fds \ {f} : events'[g] = events[g]
  BY <1>3 DEF AddWait, Inv, TypeOK
<1>5. events'[f].recv = 0 /\ events'[f].send = <<>>
  BY <1>4
<1>6. f \notin Queued \cup AtWorkers \cup ToSend \cup Stored
  <2>1. Stored \subseteq AtWorkers
    BY DEF Stored, AtWorkers
  <2> QED BY <1>3, <2>1, HeldOutstanding DEF Outstanding
<1>7. Queued' = Queued /\ Busy' = Busy /\ AtWorkers' = AtWorkers /\ Stored' = Stored
      /\ ToSend' = ToSend
  BY <1>1, PlacesSame
<1>8. OneAtATime' /\ OnePlace'
  BY <1>1, <1>7, OneAtATimeFrame DEF SInv, OnePlace
<1>9. \A g \in Fds : events[g] # None => events'[g] # None
  BY <1>3, <1>4
<1>10. ReadsDue'
  <2>1. fired' = {} /\ Due' = {}
    BY <1>1 DEF Inv, ReportsCurrent, Due
  <2> QED BY <1>1, <1>2, <2>1 DEF SInv, ReadsDue
<1>11. EntriesBear'
  <2>1. \A g \in ToSend' : Outstanding(g)'
    BY <1>1, <1>7, <1>9, HeldOutstanding DEF Outstanding
  <2>2. ASSUME NEW g \in Fds, events'[g] # None
        PROVE  /\ events'[g].recv = 0
               /\ events'[g].send = IF g \in ToSend' \cup Stored' THEN NextReply(sock[g])' ELSE <<>>
    <3>1. CASE g = f
      BY <1>5, <1>6, <1>7, <3>1
    <3>2. CASE g # f
      BY <1>1, <1>4, <1>7, <2>2, <3>2 DEF SInv, EntriesBear, NextReply
    <3> QED BY <3>1, <3>2
  <2> QED BY <1>1, <2>1, <2>2 DEF EntriesBear
<1> QED BY <1>1, <1>8, <1>9, <1>10, <1>11, HeldFrame DEF SInv

LEMMA AcceptSerial == ASSUME Inv, SInv, NEW f \in Fds, Accept(f) PROVE SInv'
<1> USE DEF clientVars, kernelVars, loopVars, sharedVars, workerVars
<1>1. /\ UNCHANGED <<conn, sent, arrived, got, taken, lpc, cur, fired, events, replys, tasks, wpc, task>>
      /\ lpc = "accept" /\ sock[f] = None /\ backlog # <<>>
      /\ waits' = Append(waits, [op |-> "add", fd |-> f, name |-> Head(backlog)])
  BY DEF Accept, AddEvent, FreeFds
<1>2. events[f] = None /\ \A g \in Fds \ {f} : sock'[g] = sock[g]
  BY <1>1 DEF Accept, Inv, DescriptorsAccounted, TypeOK
<1>3. Queued' = Queued /\ Busy' = Busy /\ AtWorkers' = AtWorkers /\ Stored' = Stored
      /\ ToSend' = ToSend
  BY <1>1, PlacesSame
<1>4. OneAtATime' /\ OnePlace'
  BY <1>1, <1>3, OneAtATimeFrame DEF SInv, OnePlace
<1>5. \A g \in Fds : Outstanding(g) => Outstanding(g)' /\ sock'[g] = sock[g]
  BY <1>1, <1>2 DEF Outstanding
<1>6. TasksBear'
  BY <1>1, <1>5, Typed DEF SInv, TasksBear, Bears
<1>7. WorkersBear'
  <2>1. \A w \in Busy : Bears(task[w])'
    BY <1>1, <1>5, Typed DEF SInv, WorkersBear, Bears
  <2> QED BY <1>1, <1>3, <2>1 DEF SInv, WorkersBear, NextReply
<1>8. EntriesBear'
  <2>1. \A g \in ToSend' : Outstanding(g)'
    BY <1>3, <1>5, HeldOutstanding
  <2>2. \A g \in Fds : events[g] # None => NextReply(sock[g])' = NextReply(sock[g])
    BY <1>1, <1>2 DEF NextReply
  <2> QED BY <1>1, <1>3, <2>1, <2>2 DEF SInv, EntriesBear
<1>9. ReadsDue'
  <2>1. \A i \in DOMAIN waits' : waits'[i].op = "add"
    <3> DEFINE o == [op |-> "add", fd |-> f, name |-> Head(backlog)]
    <3>1. waits \in Seq(Ops) /\ o \in Ops
      <4>1. Head(backlog) \in Conns
        BY <1>1 DEF Inv, TypeOK
      <4> QED BY <4>1 DEF Inv, TypeOK, Ops
    <3>2. o.op = "add"
      OBVIOUS
    <3> HIDE DEF o
    <3>3. waits' = Append(waits, o)
      BY <1>1 DEF o
    <3> QED BY <3>1, <3>2, <3>3, AppendElements DEF SInv, ReadsDue
  <2>2. Due' = Due
    BY <1>1 DEF Due
  <2>3. \A g \in Due : events[g] # None /\ Unread(g) > 0
    BY DEF SInv, ReadsDue
  <2>4. \A g \in Due : Unread(g)' = Unread(g)
    BY <1>1, <1>2, <2>3 DEF Unread, Due
  <2> QED BY <1>1, <2>1, <2>2, <2>3, <2>4 DEF SInv, ReadsDue
<1> QED BY <1>4, <1>6, <1>7, <1>8, <1>9 DEF SInv

LEMMA ReadCmdSerial == ASSUME Patient, Inv, SInv, ReadCmd PROVE SInv'
<1> USE DEF clientVars, kernelVars, loopVars, sharedVars, workerVars
<1>1. /\ UNCHANGED <<conn, sent, arrived, got, sock, cur, fired, waits, events, replys, wpc, task>>
      /\ lpc = "read" /\ lpc' = "dispatch"
  BY DEF ReadCmd
<1>2. cur \in Fds /\ cur \in Due /\ events[cur] # None /\ sock[cur] \in Conns
  BY <1>1, Typed DEF Inv, TypeOK, Due
<1>3. PICK c \in Conns : c = sock[cur]
  BY <1>2
<1> DEFINE n == Len(got[c])
<1>4. Unread(cur) = 2 /\ ReadCount(Unread(cur)) = 2
  BY <1>2, HeldOutstanding, ReadsRequest DEF SInv, ReadsDue
<1>5. n \in Nat /\ taken[c] = 2 * n /\ arrived[c] = 2 * n + 2
  <2>1. arrived[c] - taken[c] = 2
    BY <1>3, <1>4 DEF Unread
  <2> QED BY <2>1, Typed DEF SInv, OneAtATime
<1>6. taken'[c] = 2 * n + 2 /\ \A d \in Conns \ {c} : taken'[d] = taken[d]
  BY <1>3, <1>4, <1>5 DEF ReadCmd, Inv, TypeOK
<1>7. PICK x : /\ tasks' = Append(tasks, x) /\ x \in Events
               /\ x.fd = cur /\ x.name = c /\ x.recv = 2 /\ x.last = 2 * n + 2 /\ x.send = <<>>
  <2>1. events[cur] \in Entries /\ events[cur].name = c /\ events[cur].recv = 0
    BY <1>2, <1>3, Typed DEF Inv, DescriptorsAccounted, SInv, EntriesBear
  <2>2. events[cur].send = <<>>
    <3>1. cur \notin ToSend \cup Stored
      BY <1>2, HeldOutstanding DEF Stored, AtWorkers
    <3> QED BY <1>2, <3>1 DEF SInv, EntriesBear
  <2> DEFINE e == [fd |-> cur, name |-> events[cur].name, recv |-> events[cur].recv + 2,
                   last |-> taken[c] + 2, send |-> events[cur].send]
  <2>3. tasks' = Append(tasks, e)
    <3>1. SeenSend = {events[cur].send}
      BY <1>1, SeesEntry
    <3> QED BY <1>3, <1>4, <3>1 DEF ReadCmd
  <2>4. e.recv = 2 /\ e.last = 2 * n + 2 /\ e.fd = cur /\ e.name = c /\ e.send = <<>>
    BY <1>5, <2>1, <2>2
  <2>5. e \in Events
    <3>1. <<>> \in Seq(Replies) /\ 2 \in Nat /\ 2 * n + 2 \in Nat
      BY <1>5
    <3>2. e = [fd |-> cur, name |-> c, recv |-> 2, last |-> 2 * n + 2, send |-> <<>>]
      BY <1>5, <2>1, <2>2
    <3> QED BY <1>2, <3>1, <3>2 DEF Events
  <2> QED BY <2>3, <2>4, <2>5
<1>8. /\ Len(tasks) + 1 \in DOMAIN tasks' /\ tasks'[Len(tasks) + 1] = x
      /\ \A i \in DOMAIN tasks : i \in DOMAIN tasks' /\ tasks'[i] = tasks[i]
      /\ \A i \in DOMAIN tasks' : i \in DOMAIN tasks \/ i = Len(tasks) + 1
  <2>1. tasks \in Seq(Events)
    BY DEF Inv, TypeOK
  <2> QED BY <1>7, <2>1, AppendElements
<1>9. /\ Queued' = Queued \cup {cur} /\ cur \notin Queued \cup AtWorkers \cup ToSend
      /\ Busy' = Busy /\ AtWorkers' = AtWorkers /\ Stored' = Stored /\ ToSend' = ToSend
  <2>1. Queued' = Queued \cup {cur}
    BY <1>7, <1>8 DEF Queued
  <2> QED BY <1>1, <1>2, <2>1, HeldOutstanding DEF Busy, AtWorkers, Stored, ToSend
<1>10. OneAtATime'
  BY <1>1, <1>5, <1>6 DEF SInv, OneAtATime
<1>11. OnePlace'
  <2>1. \A i \in DOMAIN tasks : tasks[i].fd # cur
    BY <1>9 DEF Queued
  <2>2. \A i, j \in DOMAIN tasks' : tasks'[i].fd = tasks'[j].fd => i = j
    BY <1>7, <1>8, <2>1 DEF SInv, OnePlace
  <2> QED BY <1>1, <1>9, <2>2 DEF SInv, OnePlace
\* What is outstanding is not due, so it is another client's.
<1>12. \A f \in Fds : Outstanding(f) => Outstanding(f)' /\ taken'[sock[f]] = taken[sock[f]]
  <2>1. ASSUME NEW f \in Fds, Outstanding(f) PROVE sock[f] \in Conns \ {c}
    BY <1>3, <1>5, <2>1, Typed DEF Outstanding
  <2> QED BY <1>1, <1>6, <2>1 DEF Outstanding
<1>13. Outstanding(cur)'
  BY <1>1, <1>2, <1>3, <1>6 DEF Outstanding
<1>14. TasksBear'
  <2>1. \A e \in Events : Bears(e) => BearsNext(e)
    <3>1. \A e \in Events : e.fd \in Fds
      BY DEF Events
    <3> QED BY <1>1, <1>12, <3>1 DEF Bears, Outstanding, BearsNext
  <2>2. BearsNext(x)
    BY <1>1, <1>3, <1>6, <1>7, <1>13 DEF Outstanding, BearsNext
  <2>3. \A i \in DOMAIN tasks : Bears(tasks[i]) /\ tasks[i].send = <<>> /\ tasks[i] \in Events
    BY Typed DEF SInv, TasksBear
  <2> QED BY <1>7, <1>8, <2>1, <2>2, <2>3, HeldNext
<1>15. WorkersBear'
  <2>1. \A w \in Busy : Bears(task[w])'
    BY <1>1, <1>12, Typed DEF SInv, WorkersBear, Bears
  <2> QED BY <1>1, <1>9, <2>1 DEF SInv, WorkersBear, NextReply
<1>16. EntriesBear'
  <2>1. \A f \in ToSend' : Outstanding(f)'
    BY <1>9, <1>12, HeldOutstanding
  <2> QED BY <1>1, <1>9, <2>1 DEF SInv, EntriesBear, NextReply
<1>17. ReadsDue'
  <2>1. \A f \in Due' : f \in Due /\ f # cur
    BY <1>1 DEF Due, SInv, ReadsDue
  <2>2. \A f \in Due : f \in Fds /\ events[f] # None /\ sock[f] \in Conns
    BY Typed DEF Due, SInv, ReadsDue
  <2>3. \A f \in Due' : sock[f] # c
    BY <1>2, <1>3, <2>1, <2>2, NamesAssumption DEF Inv, DescriptorsAccounted
  <2>4. \A f \in Due' : Unread(f)' = Unread(f)
    BY <1>1, <1>6, <2>1, <2>2, <2>3 DEF Unread
  <2> QED BY <1>1, <2>4, ReadsDueFrame
<1> QED BY <1>10, <1>11, <1>14, <1>15, <1>16, <1>17 DEF SInv

LEMMA TakeSerial == ASSUME Inv, SInv, NEW w \in Workers, Take(w) PROVE SInv'
<1> USE DEF clientVars, kernelVars, loopVars, sharedVars, workerVars
<1>1. /\ UNCHANGED <<conn, sent, arrived, got, taken, sock, lpc, cur, fired, waits, events, replys>>
      /\ wpc[w] = "idle" /\ w \notin Busy /\ tasks # <<>> /\ tasks' = Tail(tasks)
      /\ wpc'[w] = "exec" /\ task'[w] = Head(tasks)
      /\ \A v \in Workers \ {w} : wpc'[v] = wpc[v] /\ task'[v] = task[v]
  BY Typed DEF Take, Inv, TypeOK
<1>2. /\ 1 \in DOMAIN tasks /\ Head(tasks) = tasks[1]
      /\ \A i \in DOMAIN tasks' : i + 1 \in DOMAIN tasks /\ i + 1 # 1 /\ tasks'[i] = tasks[i + 1]
      /\ \A j \in DOMAIN tasks : j = 1 \/ (j - 1 \in DOMAIN tasks' /\ tasks'[j - 1] = tasks[j])
      /\ \A i, j \in DOMAIN tasks' : i + 1 = j + 1 => i = j
  <2>1. tasks \in Seq(Events)
    BY DEF Inv, TypeOK
  <2> QED BY <1>1, <2>1, TailElements
<1>3. PICK x \in Events : x = task'[w] /\ x = tasks[1] /\ Bears(x) /\ x.send = <<>>
  BY <1>1, <1>2, Typed DEF SInv, TasksBear
<1>4. Busy' = Busy \cup {w}
  BY <1>1, <1>3, NoneAssumption DEF Busy
<1>5. AtWorkers' = AtWorkers \cup {x.fd} /\ Stored' = Stored /\ ToSend' = ToSend /\ Due' = Due
  <2>1. AtWorkers' = AtWorkers \cup {x.fd}
    BY <1>1, <1>3, <1>4 DEF AtWorkers, Busy
  <2>2. {v \in Busy : wpc[v] = "push"}' = {v \in Busy : wpc[v] = "push"}
    BY <1>1, <1>4 DEF Busy
  <2> QED BY <1>1, <2>1, <2>2 DEF Stored, ToSend, Due, Busy
<1>6. Queued' = Queued \ {x.fd} /\ x.fd \in Queued
  <2>1. x.fd \in Queued
    BY <1>2, <1>3 DEF Queued
  <2>2. ASSUME NEW f PROVE (\E i \in DOMAIN tasks' : tasks'[i].fd = f) <=>
                           (f # x.fd /\ \E i \in DOMAIN tasks : tasks[i].fd = f)
    BY <1>2, <1>3 DEF SInv, OnePlace
  <2> QED BY <2>1, <2>2 DEF Queued
<1>7. OnePlace'
  <2>1. \A i, j \in DOMAIN tasks' : tasks'[i].fd = tasks'[j].fd => i = j
    BY <1>2 DEF SInv, OnePlace
  <2>2. \A v \in Busy : task'[v] = task[v] /\ task[v].fd # x.fd /\ v # w
    BY <1>1, <1>6 DEF SInv, OnePlace, AtWorkers, Busy
  <2>3. \A u, v \in Busy' : task'[u].fd = task'[v].fd => u = v
    <3>1. \A u, v \in Busy : task[u].fd = task[v].fd => u = v
      BY DEF SInv, OnePlace
    <3>2. task'[w].fd = x.fd
      BY <1>3
    <3>3. \A v \in Busy : task'[v].fd = task[v].fd /\ task'[v].fd # x.fd
      BY <2>2
    <3> QED BY <1>4, <3>1, <3>2, <3>3
  <2> QED BY <1>1, <1>5, <1>6, <2>1, <2>3 DEF SInv, OnePlace
<1>8. \A e \in Events : Bears(e) => BearsNext(e)
  BY <1>1 DEF Bears, Outstanding, BearsNext
<1>9. TasksBear'
  <2>1. \A i \in DOMAIN tasks : Bears(tasks[i]) /\ tasks[i].send = <<>> /\ tasks[i] \in Events
    BY Typed DEF SInv, TasksBear
  <2> QED BY <1>2, <1>8, <2>1, HeldNext
<1>10. WorkersBear'
  <2>1. \A v \in Busy : /\ BearsNext(task[v]) /\ v # w
                        /\ task[v].send = IF wpc[v] = "exec" THEN <<>>
                             ELSE <<<<task[v].name, Len(got[task[v].name]) + 1>>>>
    BY <1>1, <1>8, Typed DEF SInv, WorkersBear, NextReply
  <2>2. BearsNext(x) /\ x.send = <<>>
    BY <1>3, <1>8
  <2>3. \A v \in Busy : task'[v] = task[v] /\ wpc'[v] = wpc[v]
    BY <1>1 DEF Busy
  <2> QED BY <1>1, <1>3, <1>4, <2>1, <2>2, <2>3, HeldNext
<1>11. EntriesBear'
  BY <1>1, <1>5 DEF SInv, EntriesBear, Outstanding, NextReply
<1>12. OneAtATime' /\ ReadsDue'
  <2>1. \A f \in Due' : Unread(f)' = Unread(f)
    BY <1>1 DEF Unread
  <2> QED BY <1>1, <2>1, OneAtATimeFrame, ReadsDueFrame DEF SInv
<1> QED BY <1>7, <1>9, <1>10, <1>11, <1>12 DEF SInv

\* The entry is there, so the worker goes on to store the answer.
LEMMA ExecCallbackSerial == ASSUME Inv, SInv, NEW w \in Workers, ExecCallback(w) PROVE SInv'
<1> USE DEF clientVars, kernelVars, loopVars, sharedVars, workerVars
<1>1. /\ UNCHANGED <<conn, sent, arrived, got, taken, sock, lpc, cur, fired, waits, events, replys, tasks>>
      /\ wpc[w] = "exec" /\ w \in Busy
  BY Typed DEF ExecCallback
<1>2. /\ task[w] \in Events /\ Bears(task[w]) /\ task[w].send = <<>>
  BY <1>1, Typed DEF SInv, WorkersBear
<1>3. PICK c \in Conns : c = sock[task[w].fd] /\ task[w].name = c
  BY <1>1, <1>2, Typed DEF Bears, Outstanding
<1>4. HandlerCallback(task[w]) = NextReply(c)
  <2>1. Len(got[c]) \in Nat /\ task[w].recv = 2 /\ task[w].last = 2 * Len(got[c]) + 2
    BY <1>2, <1>3, Typed DEF Bears, Outstanding
  <2> QED BY <1>2, <1>3, <2>1, CallbackAnswers DEF NextReply
<1>5. /\ task'[w] = [task[w] EXCEPT !.send = NextReply(c)] /\ wpc'[w] = "store"
      /\ \A v \in Workers \ {w} : wpc'[v] = wpc[v] /\ task'[v] = task[v]
  BY <1>1, <1>2, <1>4, SMTT(30) DEF ExecCallback, Bears, Outstanding, Inv, TypeOK
<1>6. PICK x : /\ x = task'[w] /\ x # None /\ x.send = NextReply(c) /\ x.fd = task[w].fd
               /\ x.name = c /\ x.recv = task[w].recv /\ x.last = task[w].last
  <2>1. NextReply(c) \in Seq(Replies)
    <3>1. Len(got[c]) + 1 \in Int
      BY Typed
    <3> QED BY <3>1 DEF NextReply, Replies
  <2>2. [task[w] EXCEPT !.send = NextReply(c)] \in Events
    BY <1>2, <2>1 DEF Events
  <2> QED BY <1>2, <1>3, <1>5, <2>2, NoneAssumption DEF Events
<1>7. Busy' = Busy
  BY <1>1, <1>5, <1>6 DEF Busy
<1>8. \A v \in Busy : task'[v].fd = task[v].fd
  BY <1>5, <1>6 DEF Busy
<1>9. AtWorkers' = AtWorkers /\ Stored' = Stored /\ ToSend' = ToSend /\ Queued' = Queued
  <2>1. AtWorkers' = AtWorkers
    BY <1>7, <1>8 DEF AtWorkers
  <2>2. {v \in Busy : wpc[v] = "push"}' = {v \in Busy : wpc[v] = "push"}
    BY <1>1, <1>5, <1>7 DEF Busy
  <2>3. Stored' = Stored
    BY <1>8, <2>2 DEF Stored
  <2> QED BY <1>1, <2>1, <2>3 DEF ToSend, Queued
<1>10. OnePlace'
  BY <1>1, <1>7, <1>8, <1>9 DEF SInv, OnePlace
<1>11. WorkersBear'
  <2>1. \A e \in Events : Bears(e) => BearsNext(e)
    BY <1>1 DEF Bears, Outstanding, BearsNext
  <2>2. \A v \in Busy : /\ BearsNext(task[v])
                        /\ task[v].send = IF wpc[v] = "exec" THEN <<>>
                             ELSE <<<<task[v].name, Len(got[task[v].name]) + 1>>>>
    BY <2>1, Typed DEF SInv, WorkersBear, NextReply
  <2>3. BearsNext(x) /\ x.send = <<<<x.name, Len(got'[x.name]) + 1>>>>
    <3>1. BearsNext(task[w])
      BY <1>1, <2>2
    <3> QED BY <1>1, <1>3, <1>6, <3>1 DEF BearsNext, NextReply
  <2>4. \A v \in Busy \ {w} : task'[v] = task[v] /\ wpc'[v] = wpc[v]
    BY <1>5 DEF Busy
  <2>5. wpc'[w] = "store" /\ task'[w] = x
    BY <1>5, <1>6
  <2>6. UNCHANGED got
    BY <1>1
  <2>7. \A v \in Busy : /\ BearsNext(task'[v])
                        /\ task'[v].send = IF wpc'[v] = "exec" THEN <<>>
                             ELSE <<<<task'[v].name, Len(got'[task'[v].name]) + 1>>>>
    <3> TAKE v \in Busy
    <3>1. CASE v = w
      BY <2>3, <2>5, <3>1
    <3>2. CASE v # w
      BY <2>2, <2>4, <2>6, <3>2
    <3> QED BY <3>1, <3>2
  <2> QED BY <1>7, <2>7, HeldNext
<1>12. EntriesBear'
  BY <1>1, <1>9 DEF SInv, EntriesBear, Outstanding, NextReply
<1>13. OneAtATime' /\ ReadsDue'
  <2>1. \A f \in Due' : Unread(f)' = Unread(f)
    BY <1>1 DEF Unread
  <2> QED BY <1>1, <2>1, OneAtATimeFrame, ReadsDueFrame DEF SInv
<1> QED BY <1>1, <1>10, <1>11, <1>12, <1>13, HeldFrame DEF SInv

LEMMA StoreReplySerial == ASSUME Inv, SInv, NEW w \in Workers, StoreReply(w) PROVE SInv'
<1> USE DEF clientVars, kernelVars, loopVars, sharedVars, workerVars
<1>1. /\ UNCHANGED <<conn, sent, arrived, got, taken, sock, lpc, cur, fired, waits, replys, tasks, task>>
      /\ wpc[w] = "store" /\ w \in Busy /\ wpc'[w] = "push"
      /\ \A v \in Workers \ {w} : wpc'[v] = wpc[v]
  BY Typed DEF StoreReply, Inv, TypeOK
<1>2. /\ task[w] \in Events /\ Bears(task[w]) /\ task[w].send = NextReply(task[w].name)
  BY <1>1, Typed DEF SInv, WorkersBear
<1>3. PICK f \in Fds : f = task[w].fd /\ events[f] # None /\ task[w].name = sock[f]
  BY <1>1, <1>2, Typed DEF Bears, Outstanding
<1>4. /\ events'[f] = [events[f] EXCEPT !.send = NextReply(sock[f])]
      /\ \A g \in Fds \ {f} : events'[g] = events[g]
  BY <1>2, <1>3 DEF StoreReply, Inv, TypeOK
<1>5. events'[f] # None /\ events'[f].send = NextReply(sock[f]) /\ events'[f].recv = events[f].recv
  <2>1. events[f] \in Entries /\ NextReply(sock[f]) \in Seq(Replies)
    BY <1>2, <1>3, Typed DEF Events
  <2>2. [events[f] EXCEPT !.send = NextReply(sock[f])] \in Entries
    BY <2>1 DEF Entries
  <2> QED BY <1>4, <2>1, <2>2, NoneAssumption DEF Entries
<1>6. Busy' = Busy /\ AtWorkers' = AtWorkers /\ ToSend' = ToSend /\ Queued' = Queued /\ Due' = Due
  BY <1>1 DEF Busy, AtWorkers, ToSend, Queued, Due
<1>7. Stored' = Stored \cup {f} /\ f \in AtWorkers
  <2>1. f \in AtWorkers
    BY <1>1, <1>3 DEF AtWorkers
  <2>2. \A v \in Busy : wpc'[v] = "push" <=> (wpc[v] = "push" \/ v = w)
    BY <1>1 DEF Busy
  <2> QED BY <1>1, <1>3, <1>6, <2>1, <2>2 DEF Stored
<1>8. OnePlace'
  BY <1>1, <1>6 DEF SInv, OnePlace
<1>9. \A e \in Events : Bears(e) => BearsNext(e)
  <2>1. \A e \in Events : e.fd \in Fds
    BY DEF Events
  <2> QED BY <1>1, <1>4, <1>5, <2>1 DEF Bears, Outstanding, BearsNext
<1>10. TasksBear'
  BY <1>1, <1>9, Typed, HeldNext DEF SInv, TasksBear
<1>11. WorkersBear'
  <2>1. \A v \in Busy : /\ BearsNext(task[v])
                        /\ task[v].send = IF wpc[v] = "exec" THEN <<>>
                             ELSE <<<<task[v].name, Len(got[task[v].name]) + 1>>>>
    BY <1>9, Typed DEF SInv, WorkersBear, NextReply
  <2>2. \A v \in Busy : wpc'[v] = "exec" <=> wpc[v] = "exec"
    BY <1>1 DEF Busy
  <2> QED BY <1>1, <1>6, <2>1, <2>2, HeldNext
<1>12. EntriesBear'
  <2>1. \A g \in ToSend' : Outstanding(g)'
    BY <1>1, <1>4, <1>5, <1>6, HeldOutstanding DEF Outstanding
  <2>2. ASSUME NEW g \in Fds, events'[g] # None
        PROVE  /\ events'[g].recv = 0
               /\ events'[g].send = IF g \in ToSend' \cup Stored' THEN NextReply(sock[g])' ELSE <<>>
    <3>1. NextReply(sock[g])' = NextReply(sock[g])
      BY <1>1 DEF NextReply
    <3>2. CASE g = f
      BY <1>3, <1>5, <1>7, <3>1, <3>2 DEF SInv, EntriesBear
    <3>3. CASE g # f
      BY <1>4, <1>6, <1>7, <2>2, <3>1, <3>3 DEF SInv, EntriesBear
    <3> QED BY <3>2, <3>3
  <2> QED BY <1>1, <2>1, <2>2 DEF EntriesBear
<1>13. OneAtATime' /\ ReadsDue'
  <2>1. \A g \in Due' : Unread(g)' = Unread(g)
    BY <1>1 DEF Unread
  <2>2. \A g \in Fds : events[g] # None => events'[g] # None
    BY <1>4, <1>5
  <2> QED BY <1>1, <2>1, <2>2, OneAtATimeFrame, ReadsDueFrame DEF SInv
<1> QED BY <1>8, <1>10, <1>11, <1>12, <1>13 DEF SInv

\* What PushReply does to the places.
LEMMA Pushes ==
  ASSUME Inv, SInv, NEW w \in Workers, PushReply(w)
  PROVE  /\ w \in Busy /\ Busy' = Busy \ {w}
         /\ \E f \in Fds : /\ f = task[w].fd /\ f \in AtWorkers /\ replys' = Append(replys, f)
                          /\ AtWorkers' = AtWorkers \ {f} /\ Stored' = Stored \ {f}
                          /\ ToSend' = ToSend \cup {f} /\ Queued' = Queued /\ Due' = Due
<1> USE DEF clientVars, kernelVars, loopVars, sharedVars, workerVars
<1>1. /\ UNCHANGED <<conn, sent, arrived, got, taken, sock, lpc, cur, fired, waits, events, tasks>>
      /\ wpc[w] = "push" /\ w \in Busy /\ wpc'[w] = "wake" /\ task'[w] = None
      /\ replys' = Append(replys, task[w].fd)
      /\ \A v \in Workers \ {w} : wpc'[v] = wpc[v] /\ task'[v] = task[v]
  BY Typed DEF PushReply, Inv, TypeOK
<1>2. Busy' = Busy \ {w}
  BY <1>1 DEF Busy
<1>3. PICK f \in Fds : f = task[w].fd
  BY <1>1, Typed
<1>4. f \in AtWorkers /\ \A v \in Busy \ {w} : task[v].fd # f
  BY <1>1, <1>3 DEF AtWorkers, SInv, OnePlace
<1>5. \A v \in Busy \ {w} : task'[v] = task[v] /\ wpc'[v] = wpc[v]
  BY <1>1 DEF Busy
<1>6. AtWorkers' = AtWorkers \ {f}
  BY <1>2, <1>3, <1>4, <1>5 DEF AtWorkers
<1>7. Stored' = Stored \ {f}
  BY <1>2, <1>3, <1>4, <1>5 DEF Stored
<1>8. ToSend' = ToSend \cup {f}
  <2>1. replys \in Seq(Fds)
    BY DEF Inv, TypeOK
  <2>2. \A g : (\E i \in DOMAIN replys' : replys'[i] = g) <=> (g = f \/ \E i \in DOMAIN replys : replys[i] = g)
    BY <1>1, <1>3, <2>1, AppendElements
  <2>3. {replys'[i] : i \in DOMAIN replys'} = {replys[i] : i \in DOMAIN replys} \cup {f}
    BY <2>2
  <2>4. {g \in Fds : lpc = "flush" /\ g = cur}' = {g \in Fds : lpc = "flush" /\ g = cur}
    BY <1>1
  <2> QED BY <2>3, <2>4 DEF ToSend
<1> QED BY <1>1, <1>2, <1>3, <1>4, <1>6, <1>7, <1>8 DEF Queued, Due

LEMMA PushReplySerial == ASSUME Inv, SInv, NEW w \in Workers, PushReply(w) PROVE SInv'
<1> USE DEF clientVars, kernelVars, loopVars, sharedVars, workerVars
<1>1. /\ UNCHANGED <<conn, sent, arrived, got, taken, sock, lpc, cur, fired, waits, events, tasks>>
      /\ wpc[w] = "push" /\ w \in Busy /\ Busy' = Busy \ {w}
      /\ \A v \in Busy \ {w} : wpc'[v] = wpc[v] /\ task'[v] = task[v]
  BY Pushes DEF PushReply, Inv, TypeOK, Busy
<1>2. PICK f \in Fds : /\ f = task[w].fd /\ f \in AtWorkers /\ replys' = Append(replys, f)
                      /\ AtWorkers' = AtWorkers \ {f} /\ Stored' = Stored \ {f}
                      /\ ToSend' = ToSend \cup {f} /\ Queued' = Queued /\ Due' = Due
  BY Pushes
<1>3. f \in Stored /\ f \notin ToSend /\ f \notin Queued /\ Outstanding(f)
  BY <1>1, <1>2, HeldOutstanding DEF Stored, SInv, OnePlace
<1>4. OnePlace'
  <2>1. replys \in Seq(Fds) /\ \A i \in DOMAIN replys : replys[i] # f
    BY <1>3 DEF ToSend, Inv, TypeOK
  <2>2. \A i, j \in DOMAIN replys' : replys'[i] = replys'[j] => i = j
    BY <1>2, <2>1, AppendElements DEF SInv, OnePlace
  <2>3. lpc = "flush" => cur # f
    BY <1>3 DEF ToSend
  <2>4. lpc = "flush" => \A i \in DOMAIN replys' : replys'[i] # cur
    BY <1>2, <2>1, <2>3, AppendElements DEF SInv, OnePlace
  <2>5. \A u, v \in Busy' : task'[u].fd = task'[v].fd => u = v
    BY <1>1 DEF SInv, OnePlace
  <2> QED BY <1>1, <1>2, <1>3, <2>2, <2>4, <2>5 DEF SInv, OnePlace
<1>5. TasksBear'
  BY <1>1, HeldFrame
<1>6. WorkersBear'
  <2>1. \A v \in Busy : /\ BearsNext(task[v])
                        /\ task[v].send = IF wpc[v] = "exec" THEN <<>>
                             ELSE <<<<task[v].name, Len(got[task[v].name]) + 1>>>>
    BY <1>1 DEF SInv, WorkersBear, NextReply, Bears, Outstanding, BearsNext
  <2> QED BY <1>1, <2>1, HeldNext
<1>7. EntriesBear'
  <2>1. \A g \in ToSend' : Outstanding(g)'
    BY <1>1, <1>2, <1>3, HeldOutstanding DEF Outstanding
  <2>2. ToSend' \cup Stored' = ToSend \cup Stored
    BY <1>2, <1>3
  <2> QED BY <1>1, <2>1, <2>2 DEF SInv, EntriesBear, NextReply
<1>8. OneAtATime' /\ ReadsDue'
  <2>1. \A g \in Due' : Unread(g)' = Unread(g)
    BY <1>1 DEF Unread
  <2> QED BY <1>1, <2>1, OneAtATimeFrame, ReadsDueFrame DEF SInv
<1> QED BY <1>4, <1>5, <1>6, <1>7, <1>8 DEF SInv

LEMMA WakeSerial == ASSUME Inv, SInv, NEW w \in Workers, Wake(w) PROVE SInv'
<1> USE DEF clientVars, kernelVars, loopVars, sharedVars, workerVars
<1>1. /\ UNCHANGED <<conn, sent, arrived, got, taken, sock, lpc, cur, fired, waits, events, replys, tasks, task>>
      /\ w \notin Busy /\ \A v \in Workers \ {w} : wpc'[v] = wpc[v]
  BY Typed DEF Wake, Inv, TypeOK
<1>2. \A v \in Busy : wpc'[v] = wpc[v]
  BY <1>1 DEF Busy
<1>3. Busy' = Busy /\ AtWorkers' = AtWorkers /\ ToSend' = ToSend /\ Queued' = Queued /\ Stored' = Stored
  BY <1>1, <1>2 DEF Busy, AtWorkers, ToSend, Queued, Stored
<1>4. OnePlace'
  BY <1>1, <1>3 DEF SInv, OnePlace
<1>5. WorkersBear'
  BY <1>1, <1>2, <1>3 DEF SInv, WorkersBear, NextReply, Bears, Outstanding
<1>6. OneAtATime' /\ ReadsDue'
  <2>1. \A g \in Due' : Unread(g)' = Unread(g)
    BY <1>1 DEF Unread
  <2> QED BY <1>1, <2>1, OneAtATimeFrame, ReadsDueFrame DEF SInv
<1> QED BY <1>1, <1>3, <1>4, <1>5, <1>6, HeldFrame DEF SInv
-----------------------------------------------------------------------------
(* The theorems.                                                           *)

LEMMA InitSerial == Init => SInv
<1> SUFFICES ASSUME Init PROVE SInv
  OBVIOUS
<1>1. Busy = {} /\ Queued = {} /\ AtWorkers = {} /\ ToSend = {} /\ Stored = {} /\ Due = {}
  BY DEF Init, Busy, Queued, AtWorkers, ToSend, Stored, Due
<1>2. OneAtATime
  BY DEF Init, OneAtATime
<1>3. OnePlace /\ ReadsDue
  BY <1>1 DEF Init, OnePlace, ReadsDue
<1>4. TasksBear /\ WorkersBear /\ EntriesBear
  BY <1>1 DEF Init, TasksBear, WorkersBear, EntriesBear
<1> QED BY <1>2, <1>3, <1>4 DEF SInv

LEMMA SerialStep == Patient /\ Inv /\ SInv /\ [Next]_vars => SInv'
<1> SUFFICES ASSUME Patient, Inv, SInv, [Next]_vars PROVE SInv'
  OBVIOUS
<1>1. CASE ClientStep
  BY <1>1, NobodyLeaves, ClientStepSerial DEF ClientStep
<1>2. CASE LoopStep
  BY <1>2, NobodyLeaves, QuietStepSerial, PopReplySerial, FlushReplySerial, AddWaitSerial,
     AcceptSerial, ReadCmdSerial DEF LoopStep
<1>3. ~RaceCrash
  BY NobodyRaces DEF NoRace, RaceCrash
<1>4. ASSUME NEW w \in Workers, WorkerStep(w) PROVE SInv'
  BY <1>4, TakeSerial, ExecCallbackSerial, StoreReplySerial, PushReplySerial, WakeSerial
  DEF WorkerStep
<1>5. CASE UNCHANGED vars
  <2> USE DEF vars, clientVars, kernelVars, loopVars, sharedVars, workerVars
  <2>1. Busy' = Busy /\ AtWorkers' = AtWorkers /\ ToSend' = ToSend /\ Queued' = Queued
        /\ Stored' = Stored /\ Due' = Due
    BY <1>5 DEF Busy, AtWorkers, ToSend, Queued, Stored, Due
  <2>2. OneAtATime' /\ OnePlace' /\ ReadsDue'
    BY <1>5, <2>1 DEF SInv, OneAtATime, OnePlace, ReadsDue, Unread
  <2> QED BY <1>5, <2>1, <2>2, HeldFrame DEF SInv
<1> QED BY <1>1, <1>2, <1>3, <1>4, <1>5 DEF Next

LEMMA InvAlways == Spec => []Inv
BY InitInv, InvStep, PTL DEF Spec

LEMMA SInvAlways == Spec => [](Patient => SInv)
<1>1. Init => (Patient => SInv)
  BY InitSerial
<1>2. Inv /\ (Patient => SInv) /\ [Next]_vars => (Patient => SInv)'
  BY SerialStep DEF Patient
<1> QED BY <1>1, <1>2, InvAlways, PTL DEF Spec

\* With patient clients the loop's accesses without eventsMapLock never meet a
\* worker's store into the same entry (eventHandler.cpp:241 and cmdHandler.cpp:215
\* against eventLoop.cpp:185).
THEOREM PatienceAvoidsRaces == Spec => [](Patient => NoRace)
<1>1. Inv /\ (Patient => SInv) => (Patient => NoRace)
  BY NobodyRaces
<1> QED BY <1>1, InvAlways, SInvAlways, PTL

\* Toward patient clients the server implements Exchange: Request is Ask, FlushReply
\* is Answer, and every other step of loop, workers and network is a stutter.
THEOREM LoopImplementsExchange == Spec /\ Patient => ImplementsExchange
<1>1. Init => Client!Init
  BY BoundsAssumption DEF Init, Client!Init
<1>2. Patient /\ Inv /\ SInv /\ [Next]_vars => [Client!Next]_Client!vars
  <2> SUFFICES ASSUME Patient, Inv, SInv, [Next]_vars PROVE [Client!Next]_Client!vars
    OBVIOUS
  <2> USE DEF clientVars, kernelVars, loopVars, sharedVars, workerVars
  <2>1. ASSUME NEW c \in Conns, Request(c) PROVE Client!Ask(c)
    <3> DEFINE n == Len(got[c])
    <3>1. n \in Nat /\ sent[c] \in {2 * n, 2 * n + 2} /\ sent[c] < 2 * (n + 1)
          /\ sent[c] + 2 <= 2 * MaxReq /\ sent' = [sent EXCEPT ![c] = sent[c] + 2] /\ UNCHANGED got
      BY <2>1, Typed DEF Request, Patient, SInv, OneAtATime
    <3>2. sent[c] = 2 * n
      BY <3>1
    <3>3. sent[c] \div 2 = n /\ (2 * n + 2) \div 2 = n + 1 /\ n < MaxReq
      <4>1. \A m \in Nat : (2 * m) \div 2 = m /\ (2 * m + 2) \div 2 = m + 1
        OBVIOUS
      <4>2. \A m \in Nat : 2 * m + 2 <= 2 * MaxReq => m < MaxReq
        BY BoundsAssumption
      <4> HIDE DEF n
      <4> QED BY <3>1, <3>2, <4>1, <4>2
    <3>4. [d \in Conns |-> sent'[d] \div 2] = [[d \in Conns |-> sent[d] \div 2] EXCEPT ![c] = @ + 1]
      BY <3>1, <3>2, <3>3 DEF Inv, TypeOK
    <3> QED BY <3>1, <3>3, <3>4 DEF Client!Ask
  <2>2. CASE FlushReply
    <3>1. PICK c \in Conns : c = sock[cur]
      BY <2>2, Flushes
    <3>2. taken[c] = 2 * Len(got[c]) + 2 /\ got' = [got EXCEPT ![c] = Append(@, <<c, Len(@) + 1>>)]
      BY <2>2, <3>1, Flushes
    <3>3. Len(got[c]) \in Nat /\ sent[c] = 2 * Len(got[c]) + 2
      BY <3>2, Typed DEF SInv, OneAtATime
    <3>4. Len(got[c]) < sent[c] \div 2
      <4>1. \A m \in Nat : m < (2 * m + 2) \div 2
        OBVIOUS
      <4> QED BY <3>3, <4>1
    <3>5. Client!Answer(c)
      BY <2>2, <3>2, <3>4 DEF Client!Answer, FlushReply
    <3> QED BY <3>1, <3>5 DEF Client!Next
  <2>3. ASSUME UNCHANGED <<sent, got>> PROVE UNCHANGED Client!vars
    BY <2>3 DEF Client!vars
  <2>4. ASSUME NEW c \in Conns, Connect(c) \/ Deliver(c) \/ Leave(c) PROVE UNCHANGED <<sent, got>>
    BY <2>4 DEF Connect, Deliver, Leave
  <2>5. ASSUME LoopStep, ~FlushReply PROVE UNCHANGED <<sent, got>>
    BY <2>5 DEF LoopStep, PopReply, EndReplys, AddWait, DelWait, EndWaits, Poll, Drain,
                EndDispatch, Dispatch, Accept, EndAccept, ReadCmd, CloseConn
  <2>6. ASSUME NEW w \in Workers, WorkerStep(w) PROVE UNCHANGED <<sent, got>>
    BY <2>6 DEF WorkerStep, Take, ExecCallback, StoreReply, PushReply, Wake
  <2>7. ASSUME RaceCrash \/ UNCHANGED vars PROVE UNCHANGED <<sent, got>>
    BY <2>7 DEF RaceCrash, vars
  <2> QED
    BY <2>1, <2>2, <2>3, <2>4, <2>5, <2>6, <2>7 DEF Next, ClientStep, Client!Next
<1>3. Patient /\ [Next]_vars => Patient'
  BY DEF Patient
<1> QED
  BY <1>1, <1>2, <1>3, InvAlways, SInvAlways, PTL DEF Spec, Client!Spec, ImplementsExchange
-----------------------------------------------------------------------------
(* Reading the pipe.                                                       *)

\* A read of the pipe takes more messages than there are clients and workers.
FewParties ==
  /\ IsFiniteSet(Conns) /\ IsFiniteSet(Workers)
  /\ Cardinality(Conns) + Cardinality(Workers) < DrainMsgs

\* The descriptors whose answers may still be announced before the next read of the
\* pipe, and the workers about to write their message.
Coming == Queued \cup AtWorkers \cup {f \in Due : lpc # "drain"}
Waking == {w \in Workers : wpc[w] = "wake"}

\* A message in the pipe, a worker about to write one and an answer that will be
\* announced stand each for another client or worker.
MInv ==
  /\ pipe + Cardinality(Coming) + Cardinality(Waking) <= Cardinality(Conns) + Cardinality(Workers)
  /\ DrainReturns
  /\ pipe > 0 => Awake \in ready \/ lpc = "drain"

LEMMA OnePerClient ==
  ASSUME IsFiniteSet(Conns), Inv,
         NEW S \in SUBSET Fds, \A f \in S : events[f] # None
  PROVE  IsFiniteSet(S) /\ Cardinality(S) <= Cardinality(Conns) /\ Cardinality(S) \in Nat
<1>1. \A f \in S : sock[f] \in Conns
  BY Typed
<1>2. \A f, g \in S : sock[f] = sock[g] => f = g
  BY <1>1, NamesAssumption DEF Inv, DescriptorsAccounted
<1> DEFINE i == [f \in S |-> sock[f]]
<1>3. i \in Injection(S, Conns)
  BY <1>1, <1>2 DEF Injection, IsInjective
<1> QED BY <1>3, FS_Injection, FS_CardinalityType

LEMMA ComingBounded ==
  ASSUME FewParties, Inv, SInv
  PROVE  /\ Coming \subseteq Fds /\ \A f \in Coming : events[f] # None
         /\ IsFiniteSet(Coming) /\ Cardinality(Coming) \in Nat
         /\ IsFiniteSet(Waking) /\ Cardinality(Waking) \in Nat
         /\ Cardinality(Waking) <= Cardinality(Workers)
         /\ Cardinality(Conns) \in Nat /\ Cardinality(Workers) \in Nat /\ pipe \in Nat
<1>1. Coming \subseteq Fds /\ \A f \in Coming : events[f] # None
  BY HeldOutstanding DEF Coming, Outstanding, SInv, ReadsDue, Due
<1>2. IsFiniteSet(Coming) /\ Cardinality(Coming) \in Nat
  BY <1>1, OnePerClient DEF FewParties
<1>3. Waking \in SUBSET Workers
  BY DEF Waking
<1>4. IsFiniteSet(Waking) /\ Cardinality(Waking) <= Cardinality(Workers)
  BY <1>3, FS_Subset DEF FewParties
<1> QED
  BY <1>1, <1>2, <1>4, FS_CardinalityType DEF FewParties, Inv, TypeOK

\* A step that writes nothing into the pipe and brings no new answer.
LEMMA MessagesFrame ==
  ASSUME FewParties, Inv, SInv, MInv, Coming' \subseteq Coming, Waking' = Waking,
         UNCHANGED pipe, ready \subseteq ready', lpc = "drain" <=> lpc' = "drain"
  PROVE  MInv'
<1>1. Cardinality(Coming') <= Cardinality(Coming) /\ Cardinality(Coming') \in Nat
  BY ComingBounded, FS_Subset, FS_CardinalityType
<1> QED BY <1>1, ComingBounded DEF MInv, DrainReturns

LEMMA MessagesStep ==
  ASSUME Patient, FewParties, Inv, SInv, MInv, [Next]_vars
  PROVE  MInv'
<1> USE DEF clientVars, kernelVars, loopVars, sharedVars, workerVars
<1>1. ASSUME NEW c \in Conns, Connect(c) \/ Request(c) \/ Deliver(c) PROVE MInv'
  <2>1. UNCHANGED <<tasks, task, wpc, fired, lpc, cur, pipe>> /\ ready \subseteq ready'
    BY <1>1 DEF Connect, Request, Deliver
  <2>2. Coming' = Coming /\ Waking' = Waking
    BY <2>1 DEF Coming, Waking, Queued, AtWorkers, Busy, Due
  <2> QED BY <2>1, <2>2, MessagesFrame
<1>2. CASE PopReply \/ FlushReply \/ EndReplys \/ AddWait \/ EndWaits \/ EndDispatch
           \/ EndAccept \/ \E f \in Fds : Accept(f)
  <2>1. UNCHANGED <<tasks, task, wpc, fired, pipe>> /\ ready \subseteq ready'
        /\ lpc # "drain" /\ lpc' \notin {"drain", "read"}
    BY <1>2 DEF PopReply, FlushReply, EndReplys, AddWait, EndWaits, EndDispatch, EndAccept, Accept
  <2>2. Coming' \subseteq Coming /\ Waking' = Waking
    BY <2>1 DEF Coming, Waking, Queued, AtWorkers, Busy, Due
  <2> QED BY <2>1, <2>2, MessagesFrame
<1>3. ASSUME NEW e \in fired, Dispatch(e) PROVE MInv'
  <2>1. /\ UNCHANGED <<tasks, task, wpc, pipe, ready>> /\ lpc = "dispatch"
        /\ fired' = fired \ {e} /\ e.type = "read"
        /\ lpc' \in {"accept", "dispatch"} \/ (lpc' = "read" /\ cur' = e.fd)
    BY <1>3 DEF Dispatch, SInv, ReadsDue
  <2>2. Coming' \subseteq Coming /\ Waking' = Waking
    BY <2>1 DEF Coming, Waking, Queued, AtWorkers, Busy, Due
  <2> QED BY <2>1, <2>2, MessagesFrame
<1>4. CASE ReadCmd
  <2>1. /\ UNCHANGED <<task, wpc, fired, pipe, ready>> /\ lpc = "read" /\ lpc' = "dispatch"
        /\ cur \in Fds
    BY <1>4 DEF ReadCmd, Inv, TypeOK
  <2>2. PICK x : tasks' = Append(tasks, x) /\ x.fd = cur
    BY <1>4 DEF ReadCmd
  <2>3. Queued' \subseteq Queued \cup {cur}
    <3>1. tasks \in Seq(Events \cup {x})
      BY DEF Inv, TypeOK
    <3>2. \A i \in DOMAIN tasks' : tasks'[i] = x \/ (i \in DOMAIN tasks /\ tasks'[i] = tasks[i])
      BY <2>2, <3>1, AppendElements
    <3> QED BY <2>2, <3>2 DEF Queued
  <2>4. Coming' \subseteq Coming /\ Waking' = Waking
    BY <2>1, <2>3 DEF Coming, Waking, AtWorkers, Busy, Due
  <2> QED BY <2>1, <2>4, MessagesFrame
\* Poll reads an empty pipe no more, and finds no message that it does not read.
<1>5. CASE Poll
  <2>1. /\ UNCHANGED <<tasks, task, wpc, pipe, events, sock>> /\ lpc = "poll"
        /\ lpc' \in {"drain", "dispatch"}
        /\ \A e \in fired' : e.fd \in ready
    BY <1>5 DEF Poll
  <2>2. Waking' = Waking /\ Queued' = Queued /\ AtWorkers' = AtWorkers
    BY <2>1 DEF Waking, Queued, AtWorkers, Busy
  <2>3. CASE Awake \in ready /\ pipe > 0
    <3>1. lpc' = "drain"
      BY <1>5, <2>3 DEF Poll
    <3>2. Coming' \subseteq Coming
      BY <2>2, <3>1 DEF Coming
    <3>3. Cardinality(Coming') <= Cardinality(Coming) /\ Cardinality(Coming') \in Nat
      BY <3>2, ComingBounded, FS_Subset, FS_CardinalityType
    <3> QED BY <2>1, <2>2, <2>3, <3>1, <3>3, ComingBounded DEF MInv, DrainReturns
  <2>4. CASE ~(Awake \in ready /\ pipe > 0)
    <3>1. pipe = 0 /\ lpc' = "dispatch"
      BY <1>5, <2>1, <2>4, ComingBounded DEF Poll, MInv
    <3>2. Coming' \in SUBSET Fds /\ \A f \in Coming' : events[f] # None
      <4>1. \A f \in Due' : f \in Fds \cap ready
        BY <2>1 DEF Due
      <4>2. \A f \in Due' : events[f] # None
        BY <4>1 DEF Inv, ReportsCurrent
      <4>3. Coming' = Queued \cup AtWorkers \cup Due'
        BY <2>2, <3>1 DEF Coming
      <4> QED BY <4>1, <4>2, <4>3, HeldOutstanding DEF Outstanding
    <3>3. Cardinality(Coming') <= Cardinality(Conns) /\ Cardinality(Coming') \in Nat
      BY <3>2, OnePerClient DEF FewParties
    <3> QED BY <2>1, <2>2, <3>1, <3>3, ComingBounded DEF MInv, DrainReturns
  <2> QED BY <2>3, <2>4
\* One read empties the pipe: there are fewer messages than it takes.
<1>6. CASE Drain
  <2>1. pipe < DrainMsgs /\ DrainMsgs \in Nat
    BY ComingBounded, BoundsAssumption DEF MInv, FewParties
  <2>2. /\ UNCHANGED <<tasks, task, wpc, events, sock, fired>> /\ pipe' = 0 /\ lpc' = "dispatch"
    BY <1>6, <2>1, ComingBounded DEF Drain
  <2>3. Coming' \in SUBSET Fds /\ \A f \in Coming' : events[f] # None
    <3>1. Coming' \subseteq Queued \cup AtWorkers \cup Due
      BY <2>2 DEF Coming, Queued, AtWorkers, Busy, Due
    <3> QED BY <3>1, HeldOutstanding DEF Outstanding, SInv, ReadsDue, Due
  <2>4. Cardinality(Coming') <= Cardinality(Conns) /\ Cardinality(Coming') \in Nat
    BY <2>3, OnePerClient DEF FewParties
  <2>5. Waking' = Waking
    BY <2>2 DEF Waking
  <2> QED BY <2>2, <2>4, <2>5, ComingBounded DEF MInv, DrainReturns
<1>7. ASSUME NEW w \in Workers, Take(w) PROVE MInv'
  <2>1. /\ UNCHANGED <<fired, lpc, cur, pipe, ready>> /\ wpc[w] = "idle" /\ wpc'[w] = "exec"
        /\ tasks # <<>> /\ tasks' = Tail(tasks) /\ task'[w] = Head(tasks)
        /\ \A v \in Workers \ {w} : wpc'[v] = wpc[v] /\ task'[v] = task[v]
    BY <1>7 DEF Take, Inv, TypeOK
  <2>2. Waking' = Waking
    BY <2>1 DEF Waking
  <2>3. Queued' \subseteq Queued /\ Head(tasks).fd \in Queued
    <3>1. /\ 1 \in DOMAIN tasks /\ Head(tasks) = tasks[1]
          /\ \A i \in DOMAIN tasks' : i + 1 \in DOMAIN tasks /\ tasks'[i] = tasks[i + 1]
      BY <2>1, TailElements DEF Inv, TypeOK
    <3> QED BY <3>1 DEF Queued
  <2>4. AtWorkers' \subseteq AtWorkers \cup {Head(tasks).fd}
    BY <2>1 DEF AtWorkers, Busy
  <2>5. Coming' \subseteq Coming
    BY <2>1, <2>3, <2>4 DEF Coming, Due
  <2> QED BY <2>1, <2>2, <2>5, MessagesFrame
<1>8. ASSUME NEW w \in Workers, ExecCallback(w) PROVE MInv'
  <2>1. /\ UNCHANGED <<tasks, fired, lpc, cur, pipe, ready>> /\ wpc[w] = "exec" /\ wpc'[w] \in {"store", "idle"}
        /\ \A v \in Workers \ {w} : wpc'[v] = wpc[v] /\ task'[v] = task[v]
    BY <1>8 DEF ExecCallback, Inv, TypeOK
  <2>2. w \in Busy /\ task[w] \in Events
    BY <2>1, Typed
  <2>3. task'[w] = None \/ task'[w].fd = task[w].fd
    BY <1>8, <2>2 DEF ExecCallback, Inv, TypeOK, Events
  <2>4. AtWorkers' \subseteq AtWorkers
    BY <2>1, <2>2, <2>3 DEF AtWorkers, Busy
  <2>5. Coming' \subseteq Coming /\ Waking' = Waking
    BY <2>1, <2>4 DEF Coming, Due, Queued, Waking
  <2> QED BY <2>1, <2>5, MessagesFrame
<1>9. ASSUME NEW w \in Workers, StoreReply(w) PROVE MInv'
  <2>1. /\ UNCHANGED <<tasks, task, fired, lpc, cur, pipe, ready>> /\ wpc[w] = "store" /\ wpc'[w] = "push"
        /\ \A v \in Workers \ {w} : wpc'[v] = wpc[v]
    BY <1>9 DEF StoreReply, Inv, TypeOK
  <2>2. Coming' = Coming /\ Waking' = Waking
    BY <2>1 DEF Coming, Waking, Queued, AtWorkers, Busy, Due
  <2> QED BY <2>1, <2>2, MessagesFrame
\* An answer is announced: its worker stands for it.
<1>10. ASSUME NEW w \in Workers, PushReply(w) PROVE MInv'
  <2>1. /\ UNCHANGED <<lpc, pipe, ready>> /\ wpc[w] = "push" /\ wpc'[w] = "wake"
        /\ \A v \in Workers \ {w} : wpc'[v] = wpc[v]
    BY <1>10 DEF PushReply, Inv, TypeOK
  <2>2. PICK f \in AtWorkers : Queued' = Queued /\ AtWorkers' = AtWorkers \ {f} /\ Due' = Due
    BY <1>10, Pushes
  <2>3. f \notin Queued /\ f \notin Due
    BY HeldOutstanding DEF SInv, OnePlace
  <2>4. Coming' = Coming \ {f} /\ f \in Coming
    BY <2>1, <2>2, <2>3 DEF Coming
  <2>5. Waking' = Waking \cup {w} /\ w \notin Waking
    BY <2>1 DEF Waking
  <2>6. Cardinality(Coming') = Cardinality(Coming) - 1
    BY <2>4, ComingBounded, FS_RemoveElement
  <2>7. Cardinality(Waking') = Cardinality(Waking) + 1
    BY <2>5, ComingBounded, FS_AddElement
  <2> QED BY <2>1, <2>6, <2>7, ComingBounded DEF MInv, DrainReturns
\* The message stands for its worker.
<1>11. ASSUME NEW w \in Workers, Wake(w) PROVE MInv'
  <2>1. /\ UNCHANGED <<tasks, task, fired, lpc, cur>> /\ wpc[w] = "wake" /\ wpc'[w] = "idle"
        /\ pipe' = pipe + 1 /\ Awake \in ready'
        /\ \A v \in Workers \ {w} : wpc'[v] = wpc[v]
    BY <1>11 DEF Wake, Inv, TypeOK
  <2>2. Coming' = Coming
    BY <2>1 DEF Coming, Queued, AtWorkers, Busy, Due
  <2>3. Waking' = Waking \ {w} /\ w \in Waking
    BY <2>1 DEF Waking
  <2>4. Cardinality(Waking') = Cardinality(Waking) - 1
    BY <2>3, ComingBounded, FS_RemoveElement
  <2> QED BY <2>1, <2>2, <2>4, ComingBounded DEF MInv, DrainReturns
<1>12. ~RaceCrash
  BY NobodyRaces DEF NoRace, RaceCrash
<1>13. CASE UNCHANGED vars
  <2>1. Coming' = Coming /\ Waking' = Waking /\ UNCHANGED <<pipe, ready, lpc>>
    BY <1>13 DEF vars, Coming, Waking, Queued, AtWorkers, Busy, Due
  <2> QED BY <2>1, MessagesFrame
<1>14. CASE ClientStep
  BY <1>1, <1>14, NobodyLeaves DEF ClientStep
<1>15. CASE LoopStep
  BY <1>2, <1>3, <1>4, <1>5, <1>6, <1>15, NobodyLeaves DEF LoopStep
<1>16. ASSUME NEW w \in Workers, WorkerStep(w) PROVE MInv'
  BY <1>7, <1>8, <1>9, <1>10, <1>11, <1>16 DEF WorkerStep
<1> QED BY <1>12, <1>13, <1>14, <1>15, <1>16 DEF Next

LEMMA InitMessages == Init /\ FewParties => MInv
<1> SUFFICES ASSUME Init, FewParties PROVE MInv
  OBVIOUS
<1>1. Coming = {} /\ Waking = {}
  BY DEF Init, Coming, Waking, Queued, AtWorkers, Busy, Due
<1>2. Cardinality(Coming) = 0 /\ Cardinality(Waking) = 0
  BY <1>1, FS_EmptySet
<1>3. Cardinality(Conns) \in Nat /\ Cardinality(Workers) \in Nat
  BY FS_CardinalityType DEF FewParties
<1> QED BY <1>2, <1>3 DEF Init, MInv, DrainReturns

\* With patient clients the loop does not hang in the read of its pipe
\* (poller.cpp:110), provided that one read takes more messages than there are
\* clients and workers.
THEOREM DrainingReturns == Spec => [](Patient /\ FewParties => DrainReturns)
<1>1. Init => (Patient /\ FewParties => MInv)
  BY InitMessages
<1>2. /\ Inv /\ (Patient => SInv) /\ (Patient /\ FewParties => MInv) /\ [Next]_vars
      => (Patient /\ FewParties => MInv)'
  BY MessagesStep DEF Patient, FewParties
<1>3. MInv => DrainReturns
  BY DEF MInv
<1> QED BY <1>1, <1>2, <1>3, InvAlways, SInvAlways, PTL DEF Spec
=============================================================================
