---------------------------- MODULE ClientSession ----------------------------
(***************************************************************************)
(* A client's session (client/src/cmpOffloading.cpp): choosing a server,   *)
(* EXEC, the UNINIT answer, the upload through redis and the next EXEC;    *)
(* with the server's side of it: the command threads (cmdHandler.cpp,      *)
(* scriptsExec.cpp), the cache directory of a connection and its removal   *)
(* (eventHandler.cpp), time-outs of the client and restarts of the server. *)
(*                                                                         *)
(* Everyone executes one script name; a client's text of it is the client  *)
(* itself.  The event loop is reduced to what it does to one connection    *)
(* (Dispatch, Flush, CloseConn); EventLoop is its model.                   *)
(*                                                                         *)
(* Outside src/: TCP, redis, the file system, and the Python runner, which *)
(* prints the result of the text it finds, and nothing if there is none.   *)
(***************************************************************************)
EXTENDS Integers, Sequences, FiniteSets

CONSTANTS Clients, Servers, None,
          Conns,        \* connections, each opened at most once
          Name,         \* Name[k]: the ip:port the server sees for connection k
          Workers,      \* the threads of one server's EventHandlerCMD
          Empty,        \* the content of a file opened for writing
          MaxExecs,     \* bound: calls of exec() of a client are numbered up to it
          Cyclic,       \* the numbers start again after MaxExecs
          MaxTimeouts,  \* bounds: time-outs of clients,
          MaxFaults,    \*   failing connections to redis,
          MaxRestarts,  \*   restarts of servers,
          MaxMoves      \*   changes of a client's server

Threads == Servers \X Workers
Names == {Name[k] : k \in Conns}

ASSUME NameAssumption == DOMAIN Name = Conns
ASSUME ValuesAssumption ==
  /\ None \notin Clients \cup Servers \cup Conns \cup Names \cup {Empty}
  /\ Empty \notin Clients
ASSUME BoundsAssumption ==
  /\ Cyclic \in BOOLEAN /\ MaxExecs \in Nat \ {0}
  /\ {MaxTimeouts, MaxFaults, MaxRestarts, MaxMoves} \subseteq Nat

VARIABLES
  (* The clients. *)
  pc,        \* where client c is in its loop of reFreshServIP() and exec()
  servIP,    \* the server it uses, or None
  fd,        \* its connection to it, or None
  req,       \* the number of its last call of exec()
  heard,     \* heard[c][i]: the call whose answer call i took, or 0
  outcome,   \* what the last call returned
  prefix,    \* the name in the last UNINIT answer
  (* The connections. *)
  state,     \* "new", "up"; "fin", "rst" from the server; "pipe"; "closed"
  owner,     \* the client
  server,    \* the server
  reqs,      \* requests the server has not read
  ans,       \* answers the client has not read
  (* The servers. *)
  serving,   \* connections in the events map
  reply,     \* reply[k]: the reply buffer of k's entry
  tasks,     \* tasks[s]: EventHandlerCMD's queue
  wpc,       \* where thread p is
  job,       \* the event it executes
  pending,   \* pending[s]: replies on their way in the shared redisContext
  cache,     \* cache[s][n]: the script in directory n, or None
  redis,     \* redis[s][n]: the value of the key n/script, or None
  (* Bookkeeping. *)
  overlapped,  \* history: two threads were in the redisContext at once
  uploads,     \* history: uploads[k]: scripts sent for connection k, up to MaxUploads
  outlived,    \* history: connections closed while a thread was to execute for them
  spent        \* how often each bounded event has happened

clientVars == <<pc, servIP, fd, req, heard, outcome, prefix>>
connVars == <<state, owner, server, reqs, ans>>
serverVars == <<serving, reply, tasks, wpc, job>>
storeVars == <<pending, cache, redis>>
history == <<overlapped, uploads, outlived>>
vars == <<clientVars, connVars, serverVars, storeVars, history, spent>>
-----------------------------------------------------------------------------
Calls == 1 .. MaxExecs
MaxUploads == MaxFaults + 2
NextCall(n) == IF Cyclic THEN (n % MaxExecs) + 1 ELSE n + 1

Limit == [timeout |-> MaxTimeouts, fault |-> MaxFaults,
          restart |-> MaxRestarts, move |-> MaxMoves]
Spend(what) ==
  /\ spent[what] < Limit[what]
  /\ spent' = [spent EXCEPT ![what] = @ + 1]

\* An answer to call n: status "ok" with what the runner made of a text (the
\* text stands for it), or "uninit" with the name of the connection.
Ok(n, text) == [req |-> n, status |-> "ok", body |-> text]
Uninit(n, k) == [req |-> n, status |-> "uninit", body |-> Name[k]]

\* Thread p's connection and call, and the directory and the key it uses for them.
Conn(p) == job[p].conn
Call(p) == Head(job[p].reqs)
Dir(p) == Name[Conn(p)]

\* Mutant of Key: the script's name alone is the key.
KeyShared(p) == CHOOSE n \in Names : TRUE

Key(p) == Name[Conn(p)]

\* Thread p goes on to step l.
Goto(p, l) == wpc' = [wpc EXCEPT ![p] = l]

\* Mutant of Answer: the thread goes for its next event without storing the reply.
AnswerThenIdle(p, a) ==
  /\ job' = [job EXCEPT ![p] = [conn |-> @.conn, reqs |-> Tail(@.reqs),
                                send |-> Append(@.send, a), text |-> None]]
  /\ Goto(p, IF Len(job[p].reqs) = 1 THEN "idle" ELSE "access")

\* The answer a is appended to the reply of p's event, which goes on with its
\* next packet.
Answer(p, a) ==
  /\ job' = [job EXCEPT ![p] = [conn |-> @.conn, reqs |-> Tail(@.reqs),
                                send |-> Append(@.send, a), text |-> None]]
  /\ Goto(p, IF Len(job[p].reqs) = 1 THEN "store" ELSE "access")

Init ==
  /\ pc = [c \in Clients |-> "refresh"]
  /\ servIP = [c \in Clients |-> None]
  /\ fd = [c \in Clients |-> None]
  /\ req = [c \in Clients |-> 0]
  /\ heard = [c \in Clients |-> [i \in Calls |-> 0]]
  /\ outcome = [c \in Clients |-> "none"]
  /\ prefix = [c \in Clients |-> None]
  /\ state = [k \in Conns |-> "new"]
  /\ owner = [k \in Conns |-> None]
  /\ server = [k \in Conns |-> None]
  /\ reqs = [k \in Conns |-> <<>>]
  /\ ans = [k \in Conns |-> <<>>]
  /\ serving = {}
  /\ reply = [k \in Conns |-> <<>>]
  /\ tasks = [s \in Servers |-> <<>>]
  /\ wpc = [p \in Threads |-> "idle"]
  /\ job = [p \in Threads |-> None]
  /\ pending = [s \in Servers |-> <<>>]
  /\ cache = [s \in Servers |-> [n \in Names |-> None]]
  /\ redis = [s \in Servers |-> [n \in Names |-> None]]
  /\ overlapped = FALSE
  /\ uploads = [k \in Conns |-> 0]
  /\ outlived = {}
  /\ spent = [e \in DOMAIN Limit |-> 0]
-----------------------------------------------------------------------------
(* The client.                                                             *)

\* TCP: an address is free once neither end holds a connection of that name.
Free(n) ==
  \A k \in Conns : Name[k] = n => k \notin serving /\ state[k] \in {"new", "closed"}

\* __connect: client c opens connection k to server s.
Connect(c, k, s) ==
  /\ state[k] = "new" /\ Free(Name[k])
  /\ fd' = [fd EXCEPT ![c] = k]
  /\ owner' = [owner EXCEPT ![k] = c]
  /\ server' = [server EXCEPT ![k] = s]
  /\ serving' = serving \cup {k}

\* reFreshServIP.  The central server names a server, or does not answer: both
\* of its own connection are left to the choice of s.  Another server than before
\* makes the client close its connection.  Without one it connects, if it can.
Refresh(c) ==
  /\ pc[c] = "refresh" /\ (Cyclic \/ req[c] < MaxExecs)
  /\ pc' = [pc EXCEPT ![c] = "exec"]
  /\ \E s \in Servers \cup {servIP[c]} :
       LET moved == s # servIP[c]
           left == IF moved /\ fd[c] # None THEN {fd[c]} ELSE {}
           now == [k \in Conns |-> IF k \in left THEN "closed" ELSE state[k]]
       IN
       /\ IF moved /\ servIP[c] # None THEN Spend("move") ELSE UNCHANGED spent
       /\ servIP' = [servIP EXCEPT ![c] = s]
       /\ \/ /\ ~moved /\ fd[c] # None
             /\ UNCHANGED <<fd, state, owner, server, serving>>
          \/ /\ moved \/ fd[c] = None
             /\ s # None
             /\ \E k \in Conns : Connect(c, k, s) /\ state' = [now EXCEPT ![k] = "up"]
          \/ /\ moved \/ fd[c] = None
             /\ fd' = [fd EXCEPT ![c] = None] /\ state' = now
             /\ UNCHANGED <<owner, server, serving>>
  /\ UNCHANGED <<req, heard, outcome, prefix, reqs, ans, reply, tasks, wpc, job, storeVars, history>>

\* The call is over.
Return(c, o) ==
  /\ pc' = [pc EXCEPT ![c] = "refresh"]
  /\ outcome' = [outcome EXCEPT ![c] = o]

\* exec up to select(): without a connection execLocally executes the script.  Data
\* written to a server that has closed is answered with a reset.  After a reset
\* write() fails, if the reset is still to be reported; otherwise it raises
\* SIGPIPE, which nobody handles.
Exec(c) ==
  /\ pc[c] = "exec"
  /\ req' = [req EXCEPT ![c] = NextCall(@)]
  /\ heard' = [heard EXCEPT ![c][NextCall(req[c])] = 0]
  /\ LET k == fd[c]
         Is(st) == k # None /\ state[k] = st
     IN
     \/ /\ k = None
        /\ Return(c, "local")
        /\ UNCHANGED <<fd, state, reqs>>
     \/ /\ Is("up")
        /\ reqs' = [reqs EXCEPT ![k] = Append(@, NextCall(req[c]))]
        /\ pc' = [pc EXCEPT ![c] = "wait"]
        /\ UNCHANGED <<fd, outcome, state>>
     \/ /\ Is("fin")
        /\ state' = [state EXCEPT ![k] = "pipe"]
        /\ pc' = [pc EXCEPT ![c] = "wait"]
        /\ UNCHANGED <<fd, outcome, reqs>>
     \/ /\ Is("rst")
        /\ state' = [state EXCEPT ![k] = "closed"]
        /\ fd' = [fd EXCEPT ![c] = None]
        /\ Return(c, "fail")
        /\ UNCHANGED reqs
     \/ /\ Is("pipe")
        /\ pc' = [pc EXCEPT ![c] = "dead"]
        /\ UNCHANGED <<fd, outcome, state, reqs>>
  /\ UNCHANGED <<servIP, prefix, owner, server, ans, serverVars, storeVars, history, spent>>

\* Mutant of Receive: the name in an UNINIT answer is not used for an upload.
ReceiveNoUpload(c) ==
  /\ pc[c] = "wait" /\ ans[fd[c]] # <<>>
  /\ LET a == Head(ans[fd[c]]) IN
       /\ heard' = [heard EXCEPT ![c][req[c]] = a.req]
       /\ Return(c, IF a.status = "ok" /\ a.body \in Clients THEN "ok" ELSE "fail")
  /\ ans' = [ans EXCEPT ![fd[c]] = <<>>]
  /\ UNCHANGED <<servIP, fd, req, prefix, state, owner, server, reqs, serverVars, storeVars, history, spent>>

\* Mutant of Receive: what follows the first answer stays in the socket.
ReceiveOne(c) ==
  /\ pc[c] = "wait" /\ ans[fd[c]] # <<>>
  /\ LET a == Head(ans[fd[c]]) IN
       /\ heard' = [heard EXCEPT ![c][req[c]] = a.req]
       /\ \/ /\ a.status = "uninit"
             /\ prefix' = [prefix EXCEPT ![c] = a.body]
             /\ pc' = [pc EXCEPT ![c] = "upload"]
             /\ UNCHANGED outcome
          \/ /\ a.status = "ok"
             /\ Return(c, IF a.body \in Clients THEN "ok" ELSE "fail")
             /\ UNCHANGED prefix
  /\ ans' = [ans EXCEPT ![fd[c]] = Tail(@)]
  /\ UNCHANGED <<servIP, fd, req, state, owner, server, reqs, serverVars, storeVars, history, spent>>

\* sendPack after select(): everything in the socket is read, its first packet
\* is taken for the answer, the rest is thrown away.
Receive(c) ==
  /\ pc[c] = "wait" /\ ans[fd[c]] # <<>>
  /\ LET a == Head(ans[fd[c]]) IN
       /\ heard' = [heard EXCEPT ![c][req[c]] = a.req]
       /\ \/ /\ a.status = "uninit"
             /\ prefix' = [prefix EXCEPT ![c] = a.body]
             /\ pc' = [pc EXCEPT ![c] = "upload"]
             /\ UNCHANGED outcome
          \/ /\ a.status = "ok"
             /\ Return(c, IF a.body \in Clients THEN "ok" ELSE "fail")
             /\ UNCHANGED prefix
  /\ ans' = [ans EXCEPT ![fd[c]] = <<>>]
  /\ UNCHANGED <<servIP, fd, req, state, owner, server, reqs, serverVars, storeVars, history, spent>>

\* The end of the stream, or a reset, is readable too: nothing to parse.  The
\* connection is kept.
Eof(c) ==
  /\ pc[c] = "wait" /\ ans[fd[c]] = <<>> /\ state[fd[c]] \in {"fin", "rst", "pipe"}
  /\ state' = IF state[fd[c]] = "rst" THEN [state EXCEPT ![fd[c]] = "pipe"] ELSE state
  /\ Return(c, "fail")
  /\ UNCHANGED <<servIP, fd, req, heard, prefix, owner, server, reqs, ans, serverVars, storeVars, history, spent>>

\* select() times out; the connection is kept, and the answer may still come.
Timeout(c) ==
  /\ pc[c] = "wait" /\ ans[fd[c]] = <<>> /\ state[fd[c]] = "up"
  /\ Spend("timeout")
  /\ Return(c, "fail")
  /\ UNCHANGED <<servIP, fd, req, heard, prefix, connVars, serverVars, storeVars, history>>

\* sendScript: the script is stored in the redis of the server under the name
\* of the connection, or redis cannot be reached.  The call fails either way.
SendScript(c) ==
  /\ pc[c] = "upload"
  /\ \/ /\ redis' = [redis EXCEPT ![servIP[c]][prefix[c]] = c]
        /\ uploads' = [uploads EXCEPT ![fd[c]] = IF @ = MaxUploads THEN @ ELSE @ + 1]
        /\ UNCHANGED spent
     \/ Spend("fault") /\ UNCHANGED <<redis, uploads>>
  /\ Return(c, "fail")
  /\ UNCHANGED <<servIP, fd, req, heard, prefix, connVars, serverVars, pending, cache, overlapped, outlived>>
-----------------------------------------------------------------------------
(* The server's loop, for one connection.                                  *)

\* EventHandlerCMD::beforeHandlerEvent: a copy of the entry, with what its socket
\* holds, goes to the command threads.
Dispatch(k) ==
  /\ k \in serving /\ state[k] # "closed" /\ reqs[k] # <<>>
  /\ tasks' = [tasks EXCEPT ![server[k]] = Append(@, [conn |-> k, reqs |-> reqs[k], send |-> reply[k], text |-> None])]
  /\ reqs' = [reqs EXCEPT ![k] = <<>>]
  /\ UNCHANGED <<clientVars, state, owner, server, ans, serving, reply, wpc, job, storeVars, history, spent>>

\* Mutant of Flush: the reply buffer is copied instead of moved out.
FlushKept(k) ==
  /\ k \in serving /\ reply[k] # <<>>
  /\ ans' = IF state[k] = "closed" THEN ans ELSE [ans EXCEPT ![k] = @ \o reply[k]]
  /\ UNCHANGED <<clientVars, state, owner, server, reqs, serverVars, storeVars, history, spent>>

\* EventHandlerReply: the reply buffer is moved out and written.
Flush(k) ==
  /\ k \in serving /\ reply[k] # <<>>
  /\ ans' = IF state[k] = "closed" THEN ans ELSE [ans EXCEPT ![k] = @ \o reply[k]]
  /\ reply' = [reply EXCEPT ![k] = <<>>]
  /\ UNCHANGED <<clientVars, state, owner, server, reqs, serving, tasks, wpc, job, storeVars, history, spent>>

\* A command thread executes for connection k, or will.
Busy(k) ==
  \/ \E p \in Threads : job[p] # None /\ Conn(p) = k
  \/ \E i \in DOMAIN tasks[server[k]] : tasks[server[k]][i].conn = k

\* Mutant of CloseConn: the cache directory stays.
CloseConnOnly(k) ==
  /\ k \in serving /\ state[k] = "closed"
  /\ serving' = serving \ {k}
  /\ UNCHANGED <<clientVars, connVars, reply, tasks, wpc, job, storeVars, history, spent>>

\* EventHandlerClose: the cache directory of the connection is removed, then its
\* entry.
CloseConn(k) ==
  /\ k \in serving /\ state[k] = "closed"
  /\ cache' = [cache EXCEPT ![server[k]][Name[k]] = None]
  /\ serving' = serving \ {k}
  /\ outlived' = IF Busy(k) THEN outlived \cup {k} ELSE outlived
  /\ UNCHANGED <<clientVars, connVars, reply, tasks, wpc, job, pending, redis, overlapped, uploads, spent>>
-----------------------------------------------------------------------------
(* The command threads: exec and downloadScript.                           *)

Take(p) ==
  /\ wpc[p] = "idle" /\ tasks[p[1]] # <<>>
  /\ job' = [job EXCEPT ![p] = Head(tasks[p[1]])]
  /\ tasks' = [tasks EXCEPT ![p[1]] = Tail(@)]
  /\ Goto(p, "access")
  /\ UNCHANGED <<clientVars, connVars, serving, reply, storeVars, history, spent>>

\* exec: is the script in the cache directory?
Access(p) ==
  /\ wpc[p] = "access"
  /\ Goto(p, IF cache[p[1]][Dir(p)] # None THEN "run" ELSE "get")
  /\ UNCHANGED <<clientVars, connVars, serving, reply, tasks, job, storeVars, history, spent>>

\* A command of thread p in the shared context.  redis answers commands in the
\* order in which they are written; whoever reads takes the next reply.
Command(p, r) ==
  /\ pending' = [pending EXCEPT ![p[1]] = Append(@, r)]
  /\ overlapped' = (overlapped \/ pending[p[1]] # <<>>)

\* downloadScript: GET, unless redis cannot be reached.
Get(p) ==
  /\ wpc[p] = "get"
  /\ \/ /\ Command(p, redis[p[1]][Key(p)])
        /\ Goto(p, "getReply")
        /\ UNCHANGED <<job, spent>>
     \/ /\ Spend("fault")
        /\ Answer(p, Uninit(Call(p), Conn(p)))
        /\ UNCHANGED <<pending, overlapped>>
  /\ UNCHANGED <<clientVars, connVars, serving, reply, tasks, cache, redis, uploads, outlived>>

\* A string: the file is opened.  No value, or the number DEL returns: none.
GetReply(p) ==
  /\ wpc[p] = "getReply" /\ pending[p[1]] # <<>>
  /\ LET text == Head(pending[p[1]]) IN
       IF text \in Clients
         THEN /\ cache' = [cache EXCEPT ![p[1]][Dir(p)] = Empty]
              /\ job' = [job EXCEPT ![p].text = text]
              /\ Goto(p, "write")
         ELSE Goto(p, "del") /\ UNCHANGED <<cache, job>>
  /\ pending' = [pending EXCEPT ![p[1]] = Tail(@)]
  /\ UNCHANGED <<clientVars, connVars, serving, reply, tasks, redis, history, spent>>

\* Mutant of Write: the text does not get into the cache.
WriteLost(p) ==
  /\ wpc[p] = "write"
  /\ cache' = [cache EXCEPT ![p[1]][Dir(p)] = None]
  /\ Goto(p, "del")
  /\ UNCHANGED <<clientVars, connVars, serving, reply, tasks, job, pending, redis, history, spent>>

\* The directory may have been removed since the file was opened.
Write(p) ==
  /\ wpc[p] = "write"
  /\ cache' = IF cache[p[1]][Dir(p)] = None THEN cache
              ELSE [cache EXCEPT ![p[1]][Dir(p)] = job[p].text]
  /\ Goto(p, "del")
  /\ UNCHANGED <<clientVars, connVars, serving, reply, tasks, job, pending, redis, history, spent>>

\* DEL, whatever GET returned.
Del(p) ==
  /\ wpc[p] = "del"
  /\ Command(p, None)
  /\ redis' = [redis EXCEPT ![p[1]][Key(p)] = None]
  /\ Goto(p, "delReply")
  /\ UNCHANGED <<clientVars, connVars, serving, reply, tasks, job, cache, uploads, outlived, spent>>

\* The reply to DEL is not looked at.  Without a script the answer is UNINIT.
DelReply(p) ==
  /\ wpc[p] = "delReply" /\ pending[p[1]] # <<>>
  /\ pending' = [pending EXCEPT ![p[1]] = Tail(@)]
  /\ IF job[p].text = None
       THEN Answer(p, Uninit(Call(p), Conn(p)))
       ELSE Goto(p, "run") /\ UNCHANGED job
  /\ UNCHANGED <<clientVars, connVars, serving, reply, tasks, cache, redis, history, spent>>

\* The runner is started, and finds in the directory what is there now.
Run(p) ==
  /\ wpc[p] = "run"
  /\ Answer(p, Ok(Call(p), cache[p[1]][Dir(p)]))
  /\ UNCHANGED <<clientVars, connVars, serving, reply, tasks, storeVars, history, spent>>

\* addReplys: the reply replaces what the entry holds, if there is still one.
Store(p) ==
  /\ wpc[p] = "store"
  /\ reply' = IF Conn(p) \in serving THEN [reply EXCEPT ![Conn(p)] = job[p].send] ELSE reply
  /\ job' = [job EXCEPT ![p] = None]
  /\ Goto(p, "idle")
  /\ UNCHANGED <<clientVars, connVars, serving, tasks, storeVars, history, spent>>

\* Server s is killed, and started again: EventHandlerCMD begins with an empty
\* cache, redis is another process and keeps its keys.  A connection with unread
\* requests is reset, the others are closed.
Restart(s) ==
  /\ Spend("restart")
  /\ LET lost == {k \in serving : server[k] = s}
         mine == {p \in Threads : p[1] = s}
     IN
     /\ state' = [k \in Conns |->
                    IF k \notin lost \/ state[k] # "up" THEN state[k]
                    ELSE IF reqs[k] # <<>> THEN "rst" ELSE "fin"]
     /\ serving' = serving \ lost
     /\ reqs' = [k \in Conns |-> IF k \in lost THEN <<>> ELSE reqs[k]]
     /\ reply' = [k \in Conns |-> IF k \in lost THEN <<>> ELSE reply[k]]
     /\ wpc' = [p \in Threads |-> IF p \in mine THEN "idle" ELSE wpc[p]]
     /\ job' = [p \in Threads |-> IF p \in mine THEN None ELSE job[p]]
  /\ tasks' = [tasks EXCEPT ![s] = <<>>]
  /\ pending' = [pending EXCEPT ![s] = <<>>]
  /\ cache' = [cache EXCEPT ![s] = [n \in Names |-> None]]
  /\ UNCHANGED <<clientVars, owner, server, ans, redis, history>>
-----------------------------------------------------------------------------
Client(c) ==
  Refresh(c) \/ Exec(c) \/ Receive(c) \/ Eof(c) \/ SendScript(c)
Loop(k) == Dispatch(k) \/ Flush(k) \/ CloseConn(k)
Thread(p) ==
  \/ Take(p) \/ Access(p) \/ Get(p) \/ GetReply(p) \/ Write(p)
  \/ Del(p) \/ DelReply(p) \/ Run(p) \/ Store(p)

Next ==
  \/ \E c \in Clients : Client(c) \/ Timeout(c)
  \/ \E k \in Conns : Loop(k)
  \/ \E p \in Threads : Thread(p)
  \/ \E s \in Servers : Restart(s)

Spec == Init /\ [][Next]_vars

\* Every thread runs; a client goes on calling.
FairSpec ==
  /\ Spec
  /\ \A c \in Clients : WF_vars(Client(c))
  /\ \A k \in Conns : WF_vars(Loop(k))
  /\ \A p \in Threads : WF_vars(Thread(p))
-----------------------------------------------------------------------------
(* Properties.                                                             *)

Answers == [req : Calls, status : {"ok"}, body : Clients \cup {Empty, None}] \cup
           [req : Calls, status : {"uninit"}, body : Names]
Jobs == [conn : Conns, reqs : Seq(Calls), send : Seq(Answers), text : Clients \cup {None}]
ASSUME JobsAssumption == None \notin Jobs

\* The type invariant, with what a client's and a thread's step say of the rest:
\* a client that waits has a connection, an idle thread has no job.
TypeOK ==
  /\ pc \in [Clients -> {"refresh", "exec", "wait", "upload", "dead"}]
  /\ servIP \in [Clients -> Servers \cup {None}]
  /\ fd \in [Clients -> Conns \cup {None}]
  /\ req \in [Clients -> 0 .. MaxExecs]
  /\ heard \in [Clients -> [Calls -> 0 .. MaxExecs]]
  /\ outcome \in [Clients -> {"none", "ok", "local", "fail"}]
  /\ prefix \in [Clients -> Names \cup {None}]
  /\ state \in [Conns -> {"new", "up", "fin", "rst", "pipe", "closed"}]
  /\ owner \in [Conns -> Clients \cup {None}]
  /\ server \in [Conns -> Servers \cup {None}]
  /\ reqs \in [Conns -> Seq(Calls)]
  /\ ans \in [Conns -> Seq(Answers)]
  /\ serving \subseteq Conns
  /\ reply \in [Conns -> Seq(Answers)]
  /\ tasks \in [Servers -> Seq(Jobs)]
  /\ wpc \in [Threads -> {"idle", "access", "get", "getReply", "write", "del",
                          "delReply", "run", "store"}]
  /\ job \in [Threads -> Jobs \cup {None}]
  /\ pending \in [Servers -> Seq(Clients \cup {None})]
  /\ cache \in [Servers -> [Names -> Clients \cup {Empty, None}]]
  /\ redis \in [Servers -> [Names -> Clients \cup {None}]]
  /\ overlapped \in BOOLEAN
  /\ uploads \in [Conns -> 0 .. MaxUploads]
  /\ outlived \subseteq Conns
  /\ spent \in [DOMAIN Limit -> Nat]
  /\ \A c \in Clients : pc[c] \in {"wait", "upload"} => fd[c] # None /\ owner[fd[c]] = c
  /\ \A p \in Threads : (wpc[p] = "idle") <=> (job[p] = None)

\* The clients that have had a connection with the name of connection k.
NamedAs(k) == {owner[j] : j \in {i \in Conns : Name[i] = Name[k]}} \ {None}

\* The answers on their way on connection k.
OnTheWay(k) ==
  UNION {{q[i] : i \in DOMAIN q} :
           q \in {ans[k], reply[k]} \cup {job[p].send : p \in {t \in Threads : job[t] # None /\ Conn(t) = k}}}

\* What is executed for a connection is the text of a client that has, or had,
\* the connection's name, unless two threads have been in the redisContext at
\* once (cmdHandler.cpp:94, scriptsExec.cpp:40).
OwnScript ==
  overlapped \/
  \A k \in Conns : \A a \in OnTheWay(k) :
    a.status = "ok" /\ a.body \in Clients => a.body \in NamedAs(k)

\* Without time-outs, what a call takes for its answer is the answer to it
\* (cmpOffloading.cpp:195-212): no answer is left over, doubled or delayed.
OwnAnswer ==
  MaxTimeouts = 0 =>
    \A c \in Clients : \A i \in Calls : heard[c][i] \in {0, i}

\* After one time-out the client is a call behind for good, and answers come
\* doubled and several at once; still, with a single command thread, it never
\* takes an answer older than one it has taken (cmpOffloading.cpp:195-212).
NeverOlder ==
  \A c \in Clients : \A i, j \in Calls :
    i < j /\ heard[c][j] # 0 => heard[c][i] <= heard[c][j]

\* One upload is enough for a connection, and one more for each time redis could
\* not be reached: the script is then found in redis, and after that in the cache
\* (cmdHandler.cpp:92-112, scriptsExec.cpp:44).
UploadOnce == overlapped \/ \A k \in Conns : uploads[k] <= 1 + spent.fault

\* A directory in the cache belongs to a connection that is being served: the
\* close handler leaves nothing to a later connection of the same name, unless a
\* thread was still to execute for it (eventHandler.cpp:254, cmdHandler.cpp:98).
CacheServed ==
  \A s \in Servers : \A n \in Names :
    cache[s][n] # None =>
      \E k \in serving \cup outlived : server[k] = s /\ Name[k] = n

\* A client that goes on calling gets results again and again, from a server or
\* from its own interpreter, unless two threads meet in the redisContext.
Results ==
  \A c \in Clients : []<>(outcome[c] \in {"ok", "local"} \/ overlapped)

\* cmpOffloading.cpp:556: reFreshServIP also connects again after a disconnection.
Reconnects ==
  \A c \in Clients : [](fd[c] # None /\ state[fd[c]] = "fin" => <>(fd[c] # None /\ state[fd[c]] = "up"))
=============================================================================
