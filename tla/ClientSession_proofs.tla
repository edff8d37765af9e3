------------------------ MODULE ClientSession_proofs ------------------------
(***************************************************************************)
(* Proofs about ClientSession, for any clients, servers, threads and names *)
(* of connections, with time-outs, faults, restarts and moves: the types,  *)
(* whose script is executed, and what the close handler leaves behind.     *)
(***************************************************************************)
EXTENDS ClientSession, TLAPS

\* Client c has, or had, a connection with the name n; o are the owners.
Owns(o, c, n) == c \in Clients /\ \E k \in Conns : Name[k] = n /\ o[k] = c

\* A new connection is unused; a client's connection is its own.
Opened ==
  /\ \A k \in Conns : state[k] = "new" => owner[k] = None /\ k \notin serving \cup outlived
  /\ \A c \in Clients : fd[c] # None => state[fd[c]] # "new" /\ owner[fd[c]] = c
  /\ \A c \in Clients : pc[c] = "exec" => Cyclic \/ req[c] < MaxExecs

\* What is executed at server s is for a connection to s that is served, or has
\* been closed since.
Known(k, s) == k \in serving \cup outlived /\ server[k] = s
Working ==
  /\ \A p \in Threads : wpc[p] \notin {"idle", "store"} => job[p].reqs # <<>>
  /\ \A p \in Threads : job[p] # None => Known(Conn(p), p[1])
  /\ \A s \in Servers : \A i \in DOMAIN tasks[s] :
       tasks[s][i].reqs # <<>> /\ Known(tasks[s][i].conn, s)

\* What may be on its way to a connection of name n.
Fits(o, a, n) ==
  /\ a.status = "uninit" => a.body = n
  /\ a.status = "ok" /\ a.body \in Clients => Owns(o, a.body, n)
AllFit(o, q, n) == \A i \in DOMAIN q : Fits(o, q[i], n)
TextFits(o, x, n) == x \in Clients => Owns(o, x, n)

Uploads == \A c \in Clients : pc[c] = "upload" => prefix[c] = Name[fd[c]]
AnswersFit == \A k \in Conns : AllFit(owner, ans[k], Name[k]) /\ AllFit(owner, reply[k], Name[k])
TasksFit == \A s \in Servers : \A i \in DOMAIN tasks[s] :
              AllFit(owner, tasks[s][i].send, Name[tasks[s][i].conn]) /\ tasks[s][i].text = None
JobsFit == \A p \in Threads : job[p] # None =>
             AllFit(owner, job[p].send, Name[job[p].conn]) /\ TextFits(owner, job[p].text, Name[job[p].conn])
CacheFits == \A s \in Servers : \A n \in Names : TextFits(owner, cache[s][n], n)
RedisFits == \A s \in Servers : \A n \in Names : TextFits(owner, redis[s][n], n)

\* One thread at a time is in the redisContext, and what it waits for is its own.
InContext(p) == wpc[p] \in {"getReply", "delReply"}
OneInContext ==
  /\ \A s \in Servers : Len(pending[s]) <= 1
  /\ \A p \in Threads : InContext(p) => pending[p[1]] # <<>>
  /\ \A p, q \in Threads : InContext(p) /\ InContext(q) /\ p[1] = q[1] => p = q
  /\ \A p \in Threads : wpc[p] = "getReply" => TextFits(owner, pending[p[1]][1], Name[job[p].conn])

Fitting == Uploads /\ AnswersFit /\ TasksFit /\ JobsFit /\ CacheFits /\ RedisFits /\ OneInContext

Inv == TypeOK /\ Opened /\ Working /\ CacheServed /\ (overlapped \/ Fitting)
-----------------------------------------------------------------------------
(* Lemmas about the operators.                                             *)

LEMMA Zero == 0 \in 0 .. MaxExecs /\ Calls \subseteq 0 .. MaxExecs
BY BoundsAssumption DEF Calls

LEMMA SpendType ==
  ASSUME spent \in [DOMAIN Limit -> Nat], NEW e \in DOMAIN Limit, Spend(e)
  PROVE  spent' \in [DOMAIN Limit -> Nat]
BY DEF Spend

LEMMA Events == {"timeout", "fault", "restart", "move"} \subseteq DOMAIN Limit
BY DEF Limit

LEMMA NextCallType ==
  ASSUME NEW n \in 0 .. MaxExecs, Cyclic \/ n < MaxExecs
  PROVE  NextCall(n) \in Calls
BY BoundsAssumption DEF NextCall, Calls

\* A thread at work: its job, and what the answer a leaves of it.
LEMMA JobFacts ==
  ASSUME TypeOK, Working, NEW p \in Threads, wpc[p] # "idle"
  PROVE  /\ job[p] \in Jobs /\ Conn(p) \in Conns /\ Dir(p) \in Names
         /\ p[1] \in Servers /\ Known(Conn(p), p[1])
         /\ wpc[p] # "store" => job[p].reqs # <<>> /\ Call(p) \in Calls
<1>1. job[p] # None /\ job[p] \in Jobs
  BY DEF TypeOK
<1>2. job[p].conn \in Conns /\ job[p].reqs \in Seq(Calls)
  BY <1>1 DEF Jobs
<1>3. wpc[p] # "store" => job[p].reqs # <<>> /\ Head(job[p].reqs) \in Calls
  BY <1>2 DEF Working
<1>4. p[1] \in Servers
  BY DEF Threads
<1> QED BY <1>1, <1>2, <1>3, <1>4 DEF Working, Conn, Call, Dir, Names

LEMMA Update ==
  ASSUME NEW D, NEW R, NEW f \in [D -> R], NEW d, NEW v, d \in D => v \in R
  PROVE  /\ [f EXCEPT ![d] = v] \in [D -> R]
         /\ \A x \in D : [f EXCEPT ![d] = v][x] = IF x = d THEN v ELSE f[x]
OBVIOUS

LEMMA Update2 ==
  ASSUME NEW D, NEW E, NEW R, NEW f \in [D -> [E -> R]], NEW d, NEW e, NEW v \in R
  PROVE  /\ [f EXCEPT ![d][e] = v] \in [D -> [E -> R]]
         /\ \A x \in D : \A y \in E :
              [f EXCEPT ![d][e] = v][x][y] = IF x = d /\ y = e THEN v ELSE f[x][y]
<1>1. d \in D => [f[d] EXCEPT ![e] = v] \in [E -> R]
  OBVIOUS
<1>2. [f EXCEPT ![d][e] = v] = [f EXCEPT ![d] = [f[d] EXCEPT ![e] = v]]
  OBVIOUS
<1>3. [f EXCEPT ![d][e] = v] \in [D -> [E -> R]]
  BY <1>1, <1>2
<1>4. ASSUME NEW x \in D, NEW y \in E
      PROVE  [f EXCEPT ![d][e] = v][x][y] = IF x = d /\ y = e THEN v ELSE f[x][y]
  BY <1>1, <1>2
<1> QED BY <1>3, <1>4

LEMMA Update2Type ==
  ASSUME NEW D, NEW E, NEW R, NEW f \in [D -> [E -> R]], NEW d, NEW e, NEW v \in R
  PROVE  [f EXCEPT ![d][e] = v] \in [D -> [E -> R]]
BY Update2

LEMMA Shorter ==
  ASSUME NEW S, NEW q \in Seq(S), q # <<>>
  PROVE  /\ Head(q) \in S /\ Tail(q) \in Seq(S)
         /\ Len(q) # 1 => Tail(q) # <<>>
         /\ \A i \in DOMAIN Tail(q) : i + 1 \in DOMAIN q /\ Tail(q)[i] = q[i + 1]
         /\ 1 \in DOMAIN q /\ Head(q) = q[1]
<1>1. Len(q) \in Nat /\ Len(q) # 0
  OBVIOUS
<1>2. Tail(q) \in Seq(S) /\ Len(Tail(q)) = Len(q) - 1
  OBVIOUS
<1>3. Len(q) # 1 => Tail(q) # <<>>
  <2>1. \A t : Len(t) # 0 => t # <<>>
    OBVIOUS
  <2> QED BY <2>1, <1>1, <1>2, SMTT(30)
<1>4. \A i \in DOMAIN Tail(q) : i + 1 \in DOMAIN q /\ Tail(q)[i] = q[i + 1]
  <2> SUFFICES ASSUME NEW i \in 1 .. Len(q) - 1 PROVE i + 1 \in 1 .. Len(q) /\ Tail(q)[i] = q[i + 1]
    BY <1>1, <1>2
  <2> QED BY <1>1
<1> QED BY <1>1, <1>2, <1>3, <1>4

LEMMA AnsweredJob ==
  ASSUME NEW j \in Jobs, j.reqs # <<>>, NEW a \in Answers
  PROVE  [conn |-> j.conn, reqs |-> Tail(j.reqs), send |-> Append(j.send, a), text |-> None] \in Jobs
<1>1. j.conn \in Conns /\ j.reqs \in Seq(Calls) /\ j.send \in Seq(Answers)
  BY DEF Jobs
<1>2. Tail(j.reqs) \in Seq(Calls) /\ Append(j.send, a) \in Seq(Answers)
  BY <1>1, Shorter
<1> QED BY <1>1, <1>2 DEF Jobs

LEMMA AnswerFacts ==
  ASSUME TypeOK, Working, NEW p \in Threads, wpc[p] \notin {"idle", "store"},
         NEW a \in Answers, Answer(p, a)
  PROVE  /\ job' \in [Threads -> Jobs \cup {None}]
         /\ wpc' \in [Threads -> {"idle", "access", "get", "getReply", "write", "del",
                                  "delReply", "run", "store"}]
         /\ job'[p] \in Jobs /\ job'[p] # None
         /\ job'[p].conn = job[p].conn /\ job'[p].text = None
         /\ job'[p].send = Append(job[p].send, a)
         /\ wpc'[p] \in {"access", "store"}
         /\ wpc'[p] = "access" => job'[p].reqs # <<>>
         /\ \A q \in Threads : q # p => job'[q] = job[q] /\ wpc'[q] = wpc[q]
         /\ \A q \in Threads : (wpc'[q] = "idle") <=> (job'[q] = None)
<1> DEFINE j == job[p]
           new == [conn |-> j.conn, reqs |-> Tail(j.reqs), send |-> Append(j.send, a), text |-> None]
<1>1. j \in Jobs /\ j.reqs # <<>> /\ j.reqs \in Seq(Calls)
  BY JobFacts DEF Jobs
<1>2. new \in Jobs /\ (Len(j.reqs) # 1 => new.reqs # <<>>)
  BY <1>1, AnsweredJob, Shorter
<1>3. job' = [job EXCEPT ![p] = new]
  BY DEF Answer
<1>4. new # None
  BY <1>2, JobsAssumption
<1>5. /\ wpc' = [wpc EXCEPT ![p] = IF Len(j.reqs) = 1 THEN "store" ELSE "access"]
      /\ wpc \in [Threads -> {"idle", "access", "get", "getReply", "write", "del",
                              "delReply", "run", "store"}]
  BY DEF Answer, Goto, TypeOK
<1>6. new.conn = j.conn /\ new.send = Append(j.send, a) /\ new.text = None
  OBVIOUS
<1> HIDE DEF new
<1>7. job' \in [Threads -> Jobs \cup {None}] /\ job'[p] = new
      /\ \A q \in Threads : q # p => job'[q] = job[q]
  BY <1>2, <1>3 DEF TypeOK
<1>8. \A q \in Threads : (wpc[q] = "idle") <=> (job[q] = None)
  BY DEF TypeOK
<1> QED BY <1>2, <1>4, <1>5, <1>6, <1>7, <1>8

LEMMA AnswerTypes ==
  ASSUME NEW n \in Calls
  PROVE  /\ \A k \in Conns : Uninit(n, k) \in Answers
         /\ \A x \in Clients \cup {Empty, None} : Ok(n, x) \in Answers
BY DEF Uninit, Ok, Answers, Names
LEMMA GotoType ==
  ASSUME TypeOK, NEW p \in Threads, wpc[p] # "idle", UNCHANGED job,
         NEW l \in {"access", "get", "getReply", "write", "del", "delReply", "run", "store"}, Goto(p, l)
  PROVE  /\ wpc' \in [Threads -> {"idle", "access", "get", "getReply", "write", "del",
                                  "delReply", "run", "store"}]
         /\ \A q \in Threads : (wpc'[q] = "idle") <=> (job'[q] = None)
<1>1. wpc' = [wpc EXCEPT ![p] = l] /\ l # "idle"
  BY DEF Goto
<1>2. /\ wpc \in [Threads -> {"idle", "access", "get", "getReply", "write", "del",
                              "delReply", "run", "store"}]
      /\ \A q \in Threads : (wpc[q] = "idle") <=> (job[q] = None)
  BY DEF TypeOK
<1> QED BY <1>1, <1>2

LEMMA CommandType ==
  ASSUME TypeOK, NEW p \in Threads, NEW r \in Clients \cup {None}, Command(p, r)
  PROVE  pending' \in [Servers -> Seq(Clients \cup {None})] /\ overlapped' \in BOOLEAN
<1>1. /\ pending' = [pending EXCEPT ![p[1]] = Append(@, r)]
      /\ overlapped' = (overlapped \/ pending[p[1]] # <<>>)
  BY DEF Command
<1>2. p[1] \in Servers
  BY DEF Threads
<1>3. pending \in [Servers -> Seq(Clients \cup {None})] /\ overlapped \in BOOLEAN
  BY DEF TypeOK
<1>4. Append(pending[p[1]], r) \in Seq(Clients \cup {None})
  BY <1>2, <1>3
<1> QED BY <1>1, <1>3, <1>4

States == {"new", "up", "fin", "rst", "pipe", "closed"}
Steps == {"idle", "access", "get", "getReply", "write", "del", "delReply", "run", "store"}

\* A connection that refreshing client c opens was new; the others keep their owners.
LEMMA RefreshFacts ==
  ASSUME TypeOK, Opened, NEW c \in Clients, Refresh(c)
  PROVE  /\ servIP' \in [Clients -> Servers \cup {None}]
         /\ fd' \in [Clients -> Conns \cup {None}]
         /\ state' \in [Conns -> States]
         /\ owner' \in [Conns -> Clients \cup {None}]
         /\ server' \in [Conns -> Servers \cup {None}]
         /\ serving \subseteq serving' /\ serving' \subseteq Conns
         /\ \A d \in Clients : d # c => fd'[d] = fd[d]
         /\ fd'[c] # None => state'[fd'[c]] # "new" /\ owner'[fd'[c]] = c
         /\ \A k \in Conns :
              /\ state'[k] = "new" => state[k] = "new" /\ (k \in serving' => k \in serving)
              /\ state[k] # "new" \/ state'[k] = "new" => owner'[k] = owner[k] /\ server'[k] = server[k]
<1>0. /\ servIP \in [Clients -> Servers \cup {None}] /\ fd \in [Clients -> Conns \cup {None}]
      /\ state \in [Conns -> States] /\ owner \in [Conns -> Clients \cup {None}]
      /\ server \in [Conns -> Servers \cup {None}] /\ serving \subseteq Conns
  BY DEF TypeOK, States
<1>1. PICK s \in Servers \cup {servIP[c]} :
        LET moved == s # servIP[c]
            left == IF moved /\ fd[c] # None THEN {fd[c]} ELSE {}
            now == [k \in Conns |-> IF k \in left THEN "closed" ELSE state[k]] IN
        /\ servIP' = [servIP EXCEPT ![c] = s]
        /\ \/ /\ fd[c] # None
              /\ UNCHANGED <<fd, state, owner, server, serving>>
           \/ /\ s # None
              /\ \E k \in Conns : Connect(c, k, s) /\ state' = [now EXCEPT ![k] = "up"]
           \/ /\ fd' = [fd EXCEPT ![c] = None] /\ state' = now
              /\ UNCHANGED <<owner, server, serving>>
  BY Zenon DEF Refresh
<1> DEFINE left == IF s # servIP[c] /\ fd[c] # None THEN {fd[c]} ELSE {}
           now == [k \in Conns |-> IF k \in left THEN "closed" ELSE state[k]]
<1>2. /\ servIP' \in [Clients -> Servers \cup {None}] /\ s \in Servers \cup {None}
  BY <1>0, <1>1
<1>3. /\ now \in [Conns -> States]
      /\ \A k \in Conns : now[k] = "new" => state[k] = "new"
      /\ \A k \in Conns : state[k] = "new" => now[k] = "new"
  <2>1. \A k \in left : k # None => state[k] # "new"
    BY DEF Opened
  <2>2. None \notin Conns
    BY ValuesAssumption
  <2> QED BY <1>0, <2>1, <2>2 DEF States
<1> HIDE DEF now
<1>4. CASE fd[c] # None /\ UNCHANGED <<fd, state, owner, server, serving>>
  BY <1>0, <1>2, <1>4 DEF Opened
<1>5. CASE s # None /\ \E k \in Conns : Connect(c, k, s) /\ state' = [now EXCEPT ![k] = "up"]
  <2>1. PICK k \in Conns : Connect(c, k, s) /\ state' = [now EXCEPT ![k] = "up"]
    BY <1>5
  <2>2. "up" \in States /\ s \in Servers
    BY <1>2, <1>5 DEF States
  <2>3. /\ state[k] = "new" /\ serving' = serving \cup {k} /\ fd' = [fd EXCEPT ![c] = k]
        /\ owner' = [owner EXCEPT ![k] = c] /\ server' = [server EXCEPT ![k] = s]
    BY <2>1 DEF Connect
  <2>4. /\ fd' \in [Clients -> Conns \cup {None}] /\ fd'[c] = k
        /\ \A d \in Clients : d # c => fd'[d] = fd[d]
    BY <1>0, <2>3
  <2>5. /\ state' \in [Conns -> States] /\ state'[k] = "up"
        /\ \A l \in Conns : l # k => state'[l] = now[l]
    BY <1>3, <2>1, <2>2
  <2>6. /\ owner' \in [Conns -> Clients \cup {None}] /\ owner'[k] = c
        /\ server' \in [Conns -> Servers \cup {None}]
        /\ \A l \in Conns : l # k => owner'[l] = owner[l] /\ server'[l] = server[l]
    BY <1>0, <2>2, <2>3
  <2>7. /\ serving \subseteq serving' /\ serving' \subseteq Conns
        /\ \A l \in Conns : l # k /\ l \in serving' => l \in serving
    BY <1>0, <2>3
  <2>8. "up" # "new"
    OBVIOUS
  <2>9. ASSUME NEW l \in Conns
        PROVE  /\ state'[l] = "new" => state[l] = "new" /\ (l \in serving' => l \in serving)
               /\ state[l] # "new" \/ state'[l] = "new" => owner'[l] = owner[l] /\ server'[l] = server[l]
    <3>1. CASE l = k
      BY <2>3, <2>5, <2>8, <3>1, Zenon
    <3>2. CASE l # k
      BY <1>3, <2>5, <2>6, <2>7, <3>2, Zenon
    <3> QED BY <3>1, <3>2
  <2> QED BY <1>2, <2>4, <2>5, <2>6, <2>7, <2>8, <2>9
<1>7. CASE fd' = [fd EXCEPT ![c] = None] /\ state' = now /\ UNCHANGED <<owner, server, serving>>
  BY <1>0, <1>2, <1>3, <1>7
<1> QED BY <1>1, <1>4, <1>5, <1>7 DEF now

\* What exec of client c does to its connection and the state of connections.
LEMMA ExecFacts ==
  ASSUME TypeOK, Opened, NEW c \in Clients, Exec(c)
  PROVE  /\ pc' \in [Clients -> {"refresh", "exec", "wait", "upload", "dead"}]
         /\ fd' \in [Clients -> Conns \cup {None}]
         /\ state' \in [Conns -> States]
         /\ outcome' \in [Clients -> {"none", "ok", "local", "fail"}]
         /\ \A d \in Clients : pc'[d] \in {"wait", "upload"} => fd'[d] # None /\ owner[fd'[d]] = d
         /\ \A d \in Clients : pc'[d] \in {"exec", "upload"} => d # c /\ pc'[d] = pc[d]
         /\ \A d \in Clients : fd'[d] \in {fd[d], None} /\ (d # c => fd'[d] = fd[d])
         /\ \A k \in Conns : state'[k] = "new" <=> state[k] = "new"
<1>1. /\ pc \in [Clients -> {"refresh", "exec", "wait", "upload", "dead"}]
      /\ fd \in [Clients -> Conns \cup {None}]
      /\ state \in [Conns -> States]
      /\ outcome \in [Clients -> {"none", "ok", "local", "fail"}]
      /\ pc[c] = "exec"
      /\ \A d \in Clients : pc[d] \in {"wait", "upload"} => fd[d] # None /\ owner[fd[d]] = d
  BY DEF TypeOK, Exec, States
<1>2. None \notin Conns
  BY ValuesAssumption
<1>3. CASE fd[c] = None /\ Return(c, "local") /\ UNCHANGED <<fd, state>>
  BY <1>1, <1>3 DEF Return
<1>4. CASE pc' = [pc EXCEPT ![c] = "wait"] /\ fd[c] # None /\ UNCHANGED <<fd, outcome, state>>
  BY <1>1, <1>4 DEF Opened
<1>5. CASE /\ fd[c] # None /\ state[fd[c]] = "fin"
           /\ state' = [state EXCEPT ![fd[c]] = "pipe"]
           /\ pc' = [pc EXCEPT ![c] = "wait"] /\ UNCHANGED <<fd, outcome>>
  BY <1>1, <1>5 DEF Opened, States
<1>6. CASE /\ fd[c] # None /\ state[fd[c]] = "rst"
           /\ state' = [state EXCEPT ![fd[c]] = "closed"]
           /\ fd' = [fd EXCEPT ![c] = None] /\ Return(c, "fail")
  BY <1>1, <1>2, <1>6 DEF Return, States
<1>7. CASE pc' = [pc EXCEPT ![c] = "dead"] /\ UNCHANGED <<fd, outcome, state>>
  BY <1>1, <1>7
<1> QED BY <1>3, <1>4, <1>5, <1>6, <1>7 DEF Exec

-----------------------------------------------------------------------------
(* The types.                                                              *)

LEMMA TypeStep ==
  ASSUME TypeOK, Opened, Working, [Next]_vars
  PROVE  TypeOK'
<1> USE BoundsAssumption, ValuesAssumption, JobsAssumption
<1> USE DEF clientVars, connVars, serverVars, storeVars, history
<1>1. ASSUME NEW c \in Clients, Refresh(c) PROVE TypeOK'
  <2>1. spent' \in [DOMAIN Limit -> Nat]
    BY <1>1, SpendType, Events DEF Refresh, TypeOK
  <2>2. /\ servIP' \in [Clients -> Servers \cup {None}]
        /\ fd' \in [Clients -> Conns \cup {None}]
        /\ state' \in [Conns -> {"new", "up", "fin", "rst", "pipe", "closed"}]
        /\ owner' \in [Conns -> Clients \cup {None}]
        /\ server' \in [Conns -> Servers \cup {None}]
        /\ serving' \subseteq Conns
    BY <1>1, RefreshFacts DEF States
  <2>3. ASSUME NEW d \in Clients, pc'[d] \in {"wait", "upload"}
        PROVE  fd'[d] # None /\ owner'[fd'[d]] = d
    <3>1. d # c /\ pc[d] = pc'[d]
      BY <1>1, <2>3 DEF Refresh, TypeOK
    <3>2. fd[d] \in Conns /\ fd[d] # None /\ owner[fd[d]] = d /\ state[fd[d]] # "new"
      BY <2>3, <3>1 DEF TypeOK, Opened
    <3>3. fd'[d] = fd[d] /\ owner'[fd[d]] = owner[fd[d]]
      BY <1>1, <3>1, <3>2, RefreshFacts
    <3> QED BY <3>2, <3>3
  <2>4. pc' \in [Clients -> {"refresh", "exec", "wait", "upload", "dead"}]
    BY <1>1 DEF Refresh, TypeOK
  <2> QED BY <1>1, <2>1, <2>2, <2>3, <2>4 DEF Refresh, TypeOK
<1>2. ASSUME NEW c \in Clients, Exec(c) PROVE TypeOK'
  <2>1. NextCall(req[c]) \in Calls
    BY <1>2, NextCallType DEF Exec, TypeOK, Opened
  <2>2. req' \in [Clients -> 0 .. MaxExecs] /\ heard' \in [Clients -> [Calls -> 0 .. MaxExecs]]
    <3>1. /\ req' = [req EXCEPT ![c] = NextCall(@)]
          /\ heard' = [heard EXCEPT ![c][NextCall(req[c])] = 0]
      BY <1>2 DEF Exec
    <3>2. req' \in [Clients -> 0 .. MaxExecs]
      BY <2>1, <3>1, Zero DEF TypeOK
    <3>3. heard \in [Clients -> [Calls -> 0 .. MaxExecs]]
      BY DEF TypeOK
    <3>4. heard' \in [Clients -> [Calls -> 0 .. MaxExecs]]
      BY <3>1, <3>3, Zero, Update2Type
    <3> QED BY <3>2, <3>4
  <2>3. reqs' \in [Conns -> Seq(Calls)]
    <3>1. reqs \in [Conns -> Seq(Calls)]
      BY DEF TypeOK
    <3>2. ASSUME NEW k \in Conns, reqs' = [reqs EXCEPT ![k] = Append(@, NextCall(req[c]))]
          PROVE  reqs' \in [Conns -> Seq(Calls)]
      <4>1. Append(reqs[k], NextCall(req[c])) \in Seq(Calls)
        BY <2>1, <3>1
      <4> QED BY <3>1, <3>2, <4>1
    <3>3. reqs' = reqs \/ (fd[c] \in Conns /\ reqs' = [reqs EXCEPT ![fd[c]] = Append(@, NextCall(req[c]))])
      BY <1>2, SMTT(30) DEF Exec, TypeOK
    <3> QED BY <3>1, <3>2, <3>3
  <2>4. /\ pc' \in [Clients -> {"refresh", "exec", "wait", "upload", "dead"}]
        /\ fd' \in [Clients -> Conns \cup {None}]
        /\ state' \in [Conns -> {"new", "up", "fin", "rst", "pipe", "closed"}]
        /\ outcome' \in [Clients -> {"none", "ok", "local", "fail"}]
        /\ \A d \in Clients : pc'[d] \in {"wait", "upload"} => fd'[d] # None /\ owner[fd'[d]] = d
    BY <1>2, ExecFacts DEF States
  <2> QED BY <1>2, <2>2, <2>3, <2>4 DEF Exec, TypeOK
<1>3. ASSUME NEW c \in Clients, Receive(c) PROVE TypeOK'
  <2> DEFINE a == Head(ans[fd[c]])
  <2>1. fd[c] \in Conns /\ a \in Answers
    BY <1>3, Shorter DEF Receive, TypeOK
  <2>2. a.req \in Calls /\ (a.status = "uninit" => a.body \in Names)
    BY <2>1 DEF Answers
  <2>3. heard \in [Clients -> [Calls -> 0 .. MaxExecs]] /\ a.req \in 0 .. MaxExecs
    BY <2>2, Zero DEF TypeOK
  <2>4. heard' \in [Clients -> [Calls -> 0 .. MaxExecs]]
    <3>1. heard' = [heard EXCEPT ![c][req[c]] = a.req]
      BY <1>3 DEF Receive
    <3>2. \A n \in 0 .. MaxExecs : [heard EXCEPT ![c][req[c]] = n] \in [Clients -> [Calls -> 0 .. MaxExecs]]
      BY <2>3, Update2Type
    <3> QED BY <2>3, <3>1, <3>2
  <2>5. /\ pc' \in [Clients -> {"refresh", "exec", "wait", "upload", "dead"}]
        /\ prefix' \in [Clients -> Names \cup {None}]
        /\ outcome' \in [Clients -> {"none", "ok", "local", "fail"}]
        /\ \A d \in Clients : pc'[d] \in {"wait", "upload"} => pc[d] \in {"wait", "upload"}
    <3>1. /\ pc \in [Clients -> {"refresh", "exec", "wait", "upload", "dead"}]
          /\ prefix \in [Clients -> Names \cup {None}]
          /\ outcome \in [Clients -> {"none", "ok", "local", "fail"}] /\ pc[c] = "wait"
      BY <1>3 DEF Receive, TypeOK
    <3>2. CASE a.status = "uninit" /\ prefix' = [prefix EXCEPT ![c] = a.body]
               /\ pc' = [pc EXCEPT ![c] = "upload"] /\ UNCHANGED outcome
      BY <2>2, <3>1, <3>2
    <3>3. CASE Return(c, IF a.body \in Clients THEN "ok" ELSE "fail") /\ UNCHANGED prefix
      BY <3>1, <3>3 DEF Return
    <3> QED BY <1>3, <3>2, <3>3 DEF Receive
  <2>6. ans' \in [Conns -> Seq(Answers)]
    BY <1>3, <2>1 DEF Receive, TypeOK
  <2> HIDE DEF a
  <2>7. UNCHANGED <<servIP, fd, req, state, owner, server, reqs, serverVars, storeVars, history, spent>>
    BY <1>3 DEF Receive
  <2> QED BY <2>4, <2>5, <2>6, <2>7 DEF TypeOK
<1>4. ASSUME NEW c \in Clients, Eof(c) PROVE TypeOK'
  <2>1. /\ pc' \in [Clients -> {"refresh", "exec", "wait", "upload", "dead"}]
        /\ outcome' \in [Clients -> {"none", "ok", "local", "fail"}]
        /\ \A d \in Clients : pc'[d] \in {"wait", "upload"} => pc'[d] = pc[d]
    BY <1>4 DEF Eof, Return, TypeOK
  <2>2. state' \in [Conns -> {"new", "up", "fin", "rst", "pipe", "closed"}]
    BY <1>4 DEF Eof, TypeOK
  <2>3. UNCHANGED <<servIP, fd, req, heard, prefix, owner, server, reqs, ans, serverVars, storeVars, history, spent>>
    BY <1>4 DEF Eof
  <2> QED BY <2>1, <2>2, <2>3 DEF TypeOK
<1>5. ASSUME NEW c \in Clients, Timeout(c) PROVE TypeOK'
  <2>1. spent' \in [DOMAIN Limit -> Nat]
    BY <1>5, SpendType, Events DEF Timeout, TypeOK
  <2>2. /\ pc' \in [Clients -> {"refresh", "exec", "wait", "upload", "dead"}]
        /\ outcome' \in [Clients -> {"none", "ok", "local", "fail"}]
        /\ \A d \in Clients : pc'[d] \in {"wait", "upload"} => pc'[d] = pc[d]
    BY <1>5 DEF Timeout, Return, TypeOK
  <2>3. UNCHANGED <<servIP, fd, req, heard, prefix, connVars, serverVars, storeVars, history>>
    BY <1>5 DEF Timeout
  <2> QED BY <2>1, <2>2, <2>3 DEF TypeOK
<1>6. ASSUME NEW c \in Clients, SendScript(c) PROVE TypeOK'
  <2>1. spent' \in [DOMAIN Limit -> Nat]
    BY <1>6, SpendType, Events DEF SendScript, TypeOK
  <2>2. redis' \in [Servers -> [Names -> Clients \cup {None}]]
    <3>1. redis \in [Servers -> [Names -> Clients \cup {None}]] /\ c \in Clients \cup {None}
      BY DEF TypeOK
    <3>2. redis' \in {redis, [redis EXCEPT ![servIP[c]][prefix[c]] = c]}
      BY <1>6 DEF SendScript
    <3>3. [redis EXCEPT ![servIP[c]][prefix[c]] = c] \in [Servers -> [Names -> Clients \cup {None}]]
      BY <3>1, Update2Type
    <3> QED BY <3>1, <3>2, <3>3
  <2>3. uploads' \in [Conns -> 0 .. MaxUploads]
    <3>1. \A n \in 0 .. MaxUploads : n # MaxUploads => n + 1 \in 0 .. MaxUploads
      BY DEF MaxUploads
    <3>2. uploads' \in {uploads, [uploads EXCEPT ![fd[c]] = IF @ = MaxUploads THEN @ ELSE @ + 1]}
      BY <1>6 DEF SendScript
    <3>3. uploads \in [Conns -> 0 .. MaxUploads]
      BY DEF TypeOK
    <3> QED BY <3>1, <3>2, <3>3
  <2>4. /\ pc' \in [Clients -> {"refresh", "exec", "wait", "upload", "dead"}]
        /\ outcome' \in [Clients -> {"none", "ok", "local", "fail"}]
        /\ \A d \in Clients : pc'[d] \in {"wait", "upload"} => pc[d] \in {"wait", "upload"}
    BY <1>6, SMTT(30) DEF SendScript, Return, TypeOK
  <2>5. UNCHANGED <<servIP, fd, req, heard, prefix, connVars, serverVars, pending, cache, overlapped, outlived>>
    BY <1>6 DEF SendScript
  <2> QED BY <2>1, <2>2, <2>3, <2>4, <2>5 DEF TypeOK
<1>7. ASSUME NEW k \in Conns, Dispatch(k) PROVE TypeOK'
  <2> DEFINE j == [conn |-> k, reqs |-> reqs[k], send |-> reply[k], text |-> None]
  <2>1. j \in Jobs
    BY DEF Jobs, TypeOK
  <2> HIDE DEF j
  <2>2. tasks' \in [Servers -> Seq(Jobs)]
    <3>1. tasks \in [Servers -> Seq(Jobs)] /\ tasks' = [tasks EXCEPT ![server[k]] = Append(@, j)]
      BY <1>7 DEF Dispatch, TypeOK, j
    <3>2. server[k] \in Servers => Append(tasks[server[k]], j) \in Seq(Jobs)
      BY <2>1, <3>1
    <3> QED BY <3>1, <3>2, Update
  <2>3. reqs' \in [Conns -> Seq(Calls)]
    BY <1>7 DEF Dispatch, TypeOK
  <2> QED BY <1>7, <2>2, <2>3 DEF Dispatch, TypeOK
<1>8. ASSUME NEW k \in Conns, Flush(k) PROVE TypeOK'
  <2>1. ans' \in [Conns -> Seq(Answers)] /\ reply' \in [Conns -> Seq(Answers)]
    BY <1>8 DEF Flush, TypeOK
  <2> QED BY <1>8, <2>1 DEF Flush, TypeOK
<1>9. ASSUME NEW k \in Conns, CloseConn(k) PROVE TypeOK'
  <2>1. cache' \in [Servers -> [Names -> Clients \cup {Empty, None}]]
    <3>1. cache \in [Servers -> [Names -> Clients \cup {Empty, None}]]
          /\ cache' = [cache EXCEPT ![server[k]][Name[k]] = None]
      BY <1>9 DEF CloseConn, TypeOK
    <3> QED BY <3>1, Update2Type
  <2>2. serving' \subseteq Conns /\ outlived' \subseteq Conns
    BY <1>9 DEF CloseConn, TypeOK
  <2>3. UNCHANGED <<clientVars, connVars, reply, tasks, wpc, job, pending, redis, overlapped, uploads, spent>>
    BY <1>9 DEF CloseConn
  <2> QED BY <2>1, <2>2, <2>3 DEF TypeOK
<1>10. ASSUME NEW p \in Threads, Take(p) PROVE TypeOK'
  <2>1. p[1] \in Servers
    BY DEF Threads
  <2>2. Head(tasks[p[1]]) \in Jobs /\ Tail(tasks[p[1]]) \in Seq(Jobs)
    BY <2>1, <1>10, Shorter DEF Take, TypeOK
  <2>3. Head(tasks[p[1]]) # None
    BY <2>2, JobsAssumption
  <2> DEFINE j == Head(tasks[p[1]])
  <2> HIDE DEF j
  <2>4. /\ job' \in [Threads -> Jobs \cup {None}]
        /\ wpc' \in [Threads -> Steps]
        /\ \A q \in Threads : (wpc'[q] = "idle") <=> (job'[q] = None)
    <3>1. /\ job \in [Threads -> Jobs \cup {None}] /\ wpc \in [Threads -> Steps]
          /\ \A q \in Threads : (wpc[q] = "idle") <=> (job[q] = None)
      BY DEF TypeOK, Steps
    <3>2. job' = [job EXCEPT ![p] = j] /\ wpc' = [wpc EXCEPT ![p] = "access"]
      BY <1>10 DEF Take, Goto, j
    <3>3. j \in Jobs /\ j # None /\ "access" \in Steps
      BY <2>2, <2>3 DEF j, Steps
    <3> QED BY <3>1, <3>2, <3>3
  <2>5. tasks' \in [Servers -> Seq(Jobs)]
    BY <1>10, <2>2 DEF Take, TypeOK
  <2>6. UNCHANGED <<clientVars, connVars, serving, reply, storeVars, history, spent>>
    BY <1>10 DEF Take
  <2> QED BY <2>4, <2>5, <2>6 DEF TypeOK, Steps
<1>11. ASSUME NEW p \in Threads, Access(p) PROVE TypeOK'
  BY <1>11 DEF Access, Goto, TypeOK
<1>12. ASSUME NEW p \in Threads, Get(p) PROVE TypeOK'
  <2>1. /\ Dir(p) \in Names /\ Conn(p) \in Conns /\ Call(p) \in Calls /\ p[1] \in Servers
    BY <1>12, JobFacts DEF Get
  <2>4. UNCHANGED <<clientVars, connVars, serving, reply, tasks, cache, redis, uploads, outlived>>
    BY <1>12 DEF Get
  <2>2. CASE Command(p, redis[p[1]][Key(p)]) /\ Goto(p, "getReply") /\ UNCHANGED <<job, spent>>
    <3>0. redis \in [Servers -> [Names -> Clients \cup {None}]]
      BY DEF TypeOK
    <3>1. Key(p) \in Names /\ redis[p[1]][Key(p)] \in Clients \cup {None}
      BY <2>1, <3>0 DEF Key, Dir
    <3>2. pending' \in [Servers -> Seq(Clients \cup {None})] /\ overlapped' \in BOOLEAN
      BY <2>2, <3>1, CommandType
    <3>3. /\ wpc' \in [Threads -> {"idle", "access", "get", "getReply", "write", "del",
                                  "delReply", "run", "store"}]
          /\ \A q \in Threads : (wpc'[q] = "idle") <=> (job'[q] = None)
      BY <1>12, <2>2, GotoType DEF Get
    <3> QED BY <2>2, <2>4, <3>2, <3>3 DEF TypeOK
  <2>3. CASE Spend("fault") /\ Answer(p, Uninit(Call(p), Conn(p))) /\ UNCHANGED <<pending, overlapped>>
    <3>1. Uninit(Call(p), Conn(p)) \in Answers
      BY <2>1, AnswerTypes
    <3>2. /\ job' \in [Threads -> Jobs \cup {None}]
          /\ wpc' \in [Threads -> {"idle", "access", "get", "getReply", "write", "del",
                                  "delReply", "run", "store"}]
          /\ \A q \in Threads : (wpc'[q] = "idle") <=> (job'[q] = None)
      BY <1>12, <2>3, <3>1, AnswerFacts DEF Get
    <3>3. spent' \in [DOMAIN Limit -> Nat]
      BY <2>3, SpendType, Events DEF TypeOK
    <3> QED BY <1>12, <2>3, <3>2, <3>3 DEF Get, TypeOK
  <2> QED BY <1>12, <2>2, <2>3 DEF Get
<1>13. ASSUME NEW p \in Threads, GetReply(p) PROVE TypeOK'
  <2>1. /\ job[p] \in Jobs /\ Dir(p) \in Names /\ p[1] \in Servers
    BY <1>13, JobFacts DEF GetReply
  <2>2. Head(pending[p[1]]) \in Clients \cup {None} /\ Tail(pending[p[1]]) \in Seq(Clients \cup {None})
    BY <1>13, <2>1, Shorter DEF GetReply, TypeOK
  <2>3. \A x \in Clients : [job[p] EXCEPT !.text = x] \in Jobs /\ [job[p] EXCEPT !.text = x] # None
    BY <2>1 DEF Jobs
  <2>4. /\ job' \in [Threads -> Jobs \cup {None}]
        /\ wpc' \in [Threads -> {"idle", "access", "get", "getReply", "write", "del",
                                  "delReply", "run", "store"}]
        /\ \A q \in Threads : (wpc'[q] = "idle") <=> (job'[q] = None)
    <3>1. /\ job \in [Threads -> Jobs \cup {None}] /\ wpc \in [Threads -> Steps]
          /\ \A q \in Threads : (wpc[q] = "idle") <=> (job[q] = None)
          /\ wpc[p] = "getReply"
      BY <1>13 DEF GetReply, TypeOK, Steps
    <3>2. ASSUME NEW x \in Clients, job' = [job EXCEPT ![p] = [@ EXCEPT !.text = x]],
                 wpc' = [wpc EXCEPT ![p] = "write"]
          PROVE  /\ job' \in [Threads -> Jobs \cup {None}] /\ wpc' \in [Threads -> Steps]
                 /\ \A q \in Threads : (wpc'[q] = "idle") <=> (job'[q] = None)
      <4> DEFINE j == [job[p] EXCEPT !.text = x]
      <4>1. j \in Jobs /\ j # None /\ job' = [job EXCEPT ![p] = j] /\ "write" \in Steps
        BY <2>3, <3>2 DEF Steps
      <4> HIDE DEF j
      <4> QED BY <3>1, <3>2, <4>1
    <3>3. CASE wpc' = [wpc EXCEPT ![p] = "del"] /\ UNCHANGED job
      BY <3>1, <3>3 DEF Steps
    <3>4. Head(pending[p[1]]) \in Clients =>
            /\ job' = [job EXCEPT ![p] = [@ EXCEPT !.text = Head(pending[p[1]])]]
            /\ wpc' = [wpc EXCEPT ![p] = "write"]
      BY <1>13 DEF GetReply, Goto
    <3>5. Head(pending[p[1]]) \notin Clients => wpc' = [wpc EXCEPT ![p] = "del"] /\ UNCHANGED job
      BY <1>13 DEF GetReply, Goto
    <3> QED BY <3>2, <3>3, <3>4, <3>5 DEF Steps
  <2>5. cache' \in [Servers -> [Names -> Clients \cup {Empty, None}]]
    <3>1. /\ cache \in [Servers -> [Names -> Clients \cup {Empty, None}]]
          /\ cache' \in {cache, [cache EXCEPT ![p[1]][Dir(p)] = Empty]}
      BY <1>13 DEF GetReply, TypeOK
    <3>2. [cache EXCEPT ![p[1]][Dir(p)] = Empty] \in [Servers -> [Names -> Clients \cup {Empty, None}]]
      BY <3>1, Update2Type
    <3> QED BY <3>1, <3>2
  <2>6. pending' \in [Servers -> Seq(Clients \cup {None})]
    BY <1>13, <2>2 DEF GetReply, TypeOK
  <2> QED BY <1>13, <2>4, <2>5, <2>6 DEF GetReply, TypeOK
<1>14. ASSUME NEW p \in Threads, Write(p) PROVE TypeOK'
  <2>1. job[p].text \in Clients \cup {None}
    BY <1>14, JobFacts DEF Write, Jobs
  <2>2. cache' \in [Servers -> [Names -> Clients \cup {Empty, None}]]
    <3>1. /\ cache \in [Servers -> [Names -> Clients \cup {Empty, None}]]
          /\ cache' \in {cache, [cache EXCEPT ![p[1]][Dir(p)] = job[p].text]}
      BY <1>14 DEF Write, TypeOK
    <3>2. job[p].text \in Clients \cup {Empty, None}
      BY <2>1
    <3>3. ASSUME NEW x \in Clients \cup {Empty, None}
          PROVE  [cache EXCEPT ![p[1]][Dir(p)] = x] \in [Servers -> [Names -> Clients \cup {Empty, None}]]
      BY <3>1, Update2Type
    <3> QED BY <3>1, <3>2, <3>3
  <2> QED BY <1>14, <2>2 DEF Write, Goto, TypeOK
<1>15. ASSUME NEW p \in Threads, Del(p) PROVE TypeOK'
  <2>1. p[1] \in Servers
    BY DEF Threads
  <2>2. pending' \in [Servers -> Seq(Clients \cup {None})] /\ overlapped' \in BOOLEAN
    BY <1>15, CommandType DEF Del
  <2>3. redis' \in [Servers -> [Names -> Clients \cup {None}]]
    BY <1>15 DEF Del, TypeOK
  <2>4. /\ wpc' \in [Threads -> {"idle", "access", "get", "getReply", "write", "del",
                                "delReply", "run", "store"}]
        /\ \A q \in Threads : (wpc'[q] = "idle") <=> (job'[q] = None)
    BY <1>15, GotoType DEF Del
  <2>5. UNCHANGED <<clientVars, connVars, serving, reply, tasks, job, cache, uploads, outlived, spent>>
    BY <1>15 DEF Del
  <2> QED BY <2>2, <2>3, <2>4, <2>5 DEF TypeOK
<1>16. ASSUME NEW p \in Threads, DelReply(p) PROVE TypeOK'
  <2>1. Conn(p) \in Conns /\ Call(p) \in Calls /\ p[1] \in Servers
    BY <1>16, JobFacts DEF DelReply
  <2>2. pending' \in [Servers -> Seq(Clients \cup {None})]
    BY <1>16, <2>1, Shorter DEF DelReply, TypeOK
  <2>5. UNCHANGED <<clientVars, connVars, serving, reply, tasks, cache, redis, history, spent>>
    BY <1>16 DEF DelReply
  <2>3. CASE Answer(p, Uninit(Call(p), Conn(p)))
    <3>1. Uninit(Call(p), Conn(p)) \in Answers
      BY <2>1, AnswerTypes
    <3>2. /\ job' \in [Threads -> Jobs \cup {None}]
          /\ wpc' \in [Threads -> {"idle", "access", "get", "getReply", "write", "del",
                                  "delReply", "run", "store"}]
          /\ \A q \in Threads : (wpc'[q] = "idle") <=> (job'[q] = None)
      BY <1>16, <2>3, <3>1, AnswerFacts DEF DelReply
    <3> QED BY <2>2, <2>5, <3>2 DEF TypeOK
  <2>4. CASE Goto(p, "run") /\ UNCHANGED job
    <3>1. /\ wpc' \in [Threads -> {"idle", "access", "get", "getReply", "write", "del",
                                  "delReply", "run", "store"}]
          /\ \A q \in Threads : (wpc'[q] = "idle") <=> (job'[q] = None)
      BY <1>16, <2>4, GotoType DEF DelReply
    <3> QED BY <2>2, <2>4, <2>5, <3>1 DEF TypeOK
  <2> QED BY <1>16, <2>3, <2>4 DEF DelReply
<1>17. ASSUME NEW p \in Threads, Run(p) PROVE TypeOK'
  <2>1. Dir(p) \in Names /\ Call(p) \in Calls /\ p[1] \in Servers
    BY <1>17, JobFacts DEF Run
  <2>2. Ok(Call(p), cache[p[1]][Dir(p)]) \in Answers
    BY <2>1, AnswerTypes DEF TypeOK
  <2>3. /\ job' \in [Threads -> Jobs \cup {None}]
        /\ wpc' \in [Threads -> {"idle", "access", "get", "getReply", "write", "del",
                                "delReply", "run", "store"}]
        /\ \A q \in Threads : (wpc'[q] = "idle") <=> (job'[q] = None)
    BY <1>17, <2>2, AnswerFacts DEF Run
  <2> QED BY <1>17, <2>3 DEF Run, TypeOK
<1>18. ASSUME NEW p \in Threads, Store(p) PROVE TypeOK'
  <2>1. job[p].send \in Seq(Answers)
    BY <1>18, JobFacts DEF Store, Jobs
  <2>2. reply' \in [Conns -> Seq(Answers)]
    BY <1>18, <2>1 DEF Store, TypeOK
  <2>3. /\ job' \in [Threads -> Jobs \cup {None}] /\ wpc' \in [Threads -> Steps]
        /\ \A q \in Threads : (wpc'[q] = "idle") <=> (job'[q] = None)
    BY <1>18 DEF Store, Goto, TypeOK, Steps
  <2>4. UNCHANGED <<clientVars, connVars, serving, tasks, storeVars, history, spent>>
    BY <1>18 DEF Store
  <2> QED BY <2>2, <2>3, <2>4 DEF TypeOK, Steps
<1>19. ASSUME NEW s \in Servers, Restart(s) PROVE TypeOK'
  <2>1. spent' \in [DOMAIN Limit -> Nat]
    BY <1>19, SpendType, Events DEF Restart, TypeOK
  <2>2. <<>> \in Seq(Calls) /\ <<>> \in Seq(Answers) /\ <<>> \in Seq(Jobs)
        /\ <<>> \in Seq(Clients \cup {None})
    OBVIOUS
  <2>3. /\ state' \in [Conns -> {"new", "up", "fin", "rst", "pipe", "closed"}]
        /\ serving' \subseteq Conns
        /\ reqs' \in [Conns -> Seq(Calls)] /\ reply' \in [Conns -> Seq(Answers)]
    BY <1>19, <2>2 DEF Restart, TypeOK
  <2>4. /\ job' \in [Threads -> Jobs \cup {None}]
        /\ wpc' \in [Threads -> {"idle", "access", "get", "getReply", "write", "del",
                                "delReply", "run", "store"}]
        /\ \A q \in Threads : (wpc'[q] = "idle") <=> (job'[q] = None)
    BY <1>19 DEF Restart, TypeOK
  <2>5. /\ tasks' \in [Servers -> Seq(Jobs)] /\ pending' \in [Servers -> Seq(Clients \cup {None})]
        /\ cache' \in [Servers -> [Names -> Clients \cup {Empty, None}]]
    BY <1>19, <2>2 DEF Restart, TypeOK
  <2>6. UNCHANGED <<clientVars, owner, server, ans, redis, history>>
    BY <1>19 DEF Restart
  <2> QED BY <2>1, <2>3, <2>4, <2>5, <2>6 DEF TypeOK
<1>20. CASE UNCHANGED vars
  BY <1>20 DEF vars, TypeOK
<1> QED BY <1>1, <1>2, <1>3, <1>4, <1>5, <1>6, <1>7, <1>8, <1>9, <1>10, <1>11, <1>12, <1>13,
           <1>14, <1>15, <1>16, <1>17, <1>18, <1>19, <1>20 DEF Next, Client, Loop, Thread
-----------------------------------------------------------------------------
(* Connections are opened once.                                            *)

\* The steps of the server's threads leave clients and connections alone.
LEMMA ThreadQuiet ==
  ASSUME NEW p \in Threads, Thread(p)
  PROVE  UNCHANGED <<pc, servIP, fd, req, heard, outcome, prefix, state, owner, server, reqs, ans,
                     serving, outlived>>
BY DEF Thread, Take, Access, Get, GetReply, Write, Del, DelReply, Run, Store, Command,
       clientVars, connVars, history

LEMMA OpenedStep ==
  ASSUME TypeOK, Opened, [Next]_vars
  PROVE  Opened'
<1> USE DEF clientVars, connVars, serverVars, storeVars, history
<1>0. fd \in [Clients -> Conns \cup {None}] /\ serving \subseteq Conns
      /\ pc \in [Clients -> {"refresh", "exec", "wait", "upload", "dead"}]
  BY DEF TypeOK
<1>1. ASSUME NEW c \in Clients, Refresh(c) PROVE Opened'
  <2>1. /\ pc' = [pc EXCEPT ![c] = "exec"] /\ (Cyclic \/ req[c] < MaxExecs)
        /\ UNCHANGED <<req, outlived>>
    BY <1>1 DEF Refresh
  <2>2. \A k \in Conns : state'[k] = "new" => owner'[k] = None /\ k \notin serving' \cup outlived'
    BY <1>1, <2>1, RefreshFacts DEF Opened
  <2>3. ASSUME NEW d \in Clients, fd'[d] # None PROVE state'[fd'[d]] # "new" /\ owner'[fd'[d]] = d
    <3>1. CASE d = c
      BY <1>1, <2>3, <3>1, RefreshFacts
    <3>2. CASE d # c
      <4>1. fd'[d] = fd[d] /\ fd[d] \in Conns
        BY <1>1, <2>3, <3>2, RefreshFacts DEF TypeOK
      <4>2. state[fd[d]] # "new" /\ owner[fd[d]] = d
        BY <2>3, <4>1 DEF Opened
      <4> QED BY <1>1, <4>1, <4>2, RefreshFacts
    <3> QED BY <3>1, <3>2
  <2>4. \A d \in Clients : pc'[d] = "exec" => Cyclic \/ req'[d] < MaxExecs
    BY <1>0, <2>1 DEF Opened
  <2> QED BY <2>2, <2>3, <2>4 DEF Opened
<1>2. ASSUME NEW c \in Clients, Exec(c) PROVE Opened'
  <2>1. UNCHANGED <<owner, serving, outlived>> /\ \A d \in Clients : d # c => req'[d] = req[d]
    BY <1>2 DEF Exec, TypeOK
  <2>2. \A d \in Clients : fd'[d] # None => fd'[d] = fd[d] /\ fd[d] \in Conns
    BY <1>0, <1>2, ExecFacts
  <2>3. \A d \in Clients : fd'[d] # None => state'[fd'[d]] # "new" /\ owner'[fd'[d]] = d
    BY <1>2, <2>1, <2>2, ExecFacts DEF Opened
  <2>4. \A d \in Clients : pc'[d] = "exec" => Cyclic \/ req'[d] < MaxExecs
    BY <1>2, <2>1, ExecFacts DEF Opened
  <2>5. \A k \in Conns : state'[k] = "new" => owner'[k] = None /\ k \notin serving' \cup outlived'
    BY <1>2, <2>1, ExecFacts DEF Opened
  <2> QED BY <2>3, <2>4, <2>5 DEF Opened
<1>3. ASSUME NEW c \in Clients, Receive(c) \/ Eof(c) \/ Timeout(c) \/ SendScript(c) PROVE Opened'
  <2>1. UNCHANGED <<fd, req, owner, serving, outlived>>
    BY <1>3 DEF Receive, Eof, Timeout, SendScript
  <2>2. \A d \in Clients : pc'[d] = "exec" => pc[d] = "exec"
    BY <1>0, <1>3 DEF Receive, Eof, Timeout, SendScript, Return
  <2>3. \A k \in Conns : state'[k] = "new" <=> state[k] = "new"
    BY <1>3 DEF Receive, Eof, Timeout, SendScript, TypeOK
  <2> QED BY <1>0, <2>1, <2>2, <2>3 DEF Opened
<1>4. ASSUME NEW k \in Conns, Dispatch(k) \/ Flush(k) PROVE Opened'
  BY <1>4 DEF Dispatch, Flush, Opened
<1>5. ASSUME NEW k \in Conns, CloseConn(k) PROVE Opened'
  BY <1>5 DEF CloseConn, Opened
<1>6. ASSUME NEW p \in Threads, Thread(p) PROVE Opened'
  BY <1>6, ThreadQuiet DEF Opened
<1>7. ASSUME NEW s \in Servers, Restart(s) PROVE Opened'
  <2>1. UNCHANGED <<pc, fd, req, owner, outlived>> /\ serving' \subseteq serving
        /\ \A k \in Conns : state'[k] = "new" <=> state[k] = "new"
    BY <1>7 DEF Restart, TypeOK
  <2> QED BY <1>0, <2>1 DEF Opened
<1>8. CASE UNCHANGED vars
  BY <1>8 DEF vars, Opened
<1> QED BY <1>1, <1>2, <1>3, <1>4, <1>5, <1>6, <1>7, <1>8 DEF Next, Client, Loop
-----------------------------------------------------------------------------
(* What is executed, and what is cached, is for a known connection.        *)

\* Connections become known, and stay so unless their server restarts.
LEMMA KnownStep ==
  ASSUME TypeOK, Opened, [Next]_vars, NEW k \in Conns, NEW s \in Servers, Known(k, s)
  PROVE  \/ Known(k, s)'
         \/ Restart(s)
         \/ CloseConn(k) /\ ~Busy(k)
<1> USE DEF clientVars, connVars, serverVars, storeVars, history
<1>1. ASSUME NEW c \in Clients, Refresh(c) PROVE Known(k, s)'
  <2>1. state[k] # "new" /\ server[k] = s /\ k \in serving \cup outlived
    BY DEF Known, Opened
  <2>2. UNCHANGED outlived
    BY <1>1 DEF Refresh
  <2> QED BY <1>1, <2>1, <2>2, RefreshFacts DEF Known
<1>2. ASSUME NEW c \in Clients, Exec(c) \/ Receive(c) \/ Eof(c) \/ Timeout(c) \/ SendScript(c)
      PROVE  Known(k, s)'
  BY <1>2 DEF Exec, Receive, Eof, Timeout, SendScript, Known
<1>3. ASSUME NEW l \in Conns, Dispatch(l) \/ Flush(l) PROVE Known(k, s)'
  BY <1>3 DEF Dispatch, Flush, Known
<1>4. ASSUME NEW l \in Conns, CloseConn(l), l # k \/ Busy(k) PROVE Known(k, s)'
  BY <1>4 DEF CloseConn, Known
<1>5. ASSUME NEW p \in Threads, Thread(p) PROVE Known(k, s)'
  BY <1>5, ThreadQuiet DEF Known
<1>6. ASSUME NEW t \in Servers, Restart(t), t # s PROVE Known(k, s)'
  BY <1>6 DEF Restart, Known
<1>7. CASE UNCHANGED vars
  BY <1>7 DEF vars, Known
<1> QED BY <1>1, <1>2, <1>3, <1>4, <1>5, <1>6, <1>7 DEF Next, Client, Loop

\* Where the events in a queue come from.
LEMMA TaskOrigin ==
  ASSUME TypeOK, [Next]_vars, NEW s \in Servers, NEW i \in DOMAIN tasks'[s]
  PROVE  /\ ~Restart(s)
         /\ \/ \E j \in DOMAIN tasks[s] : tasks'[s][i] = tasks[s][j]
            \/ \E k \in Conns : /\ Dispatch(k) /\ server[k] = s
                                /\ tasks'[s][i] = [conn |-> k, reqs |-> reqs[k], send |-> reply[k], text |-> None]
<1> USE DEF clientVars, connVars, serverVars, storeVars, history
<1>0. tasks \in [Servers -> Seq(Jobs)]
  BY DEF TypeOK
<1>1. CASE UNCHANGED tasks
  <2>1. ~Restart(s)
    <3>1. Restart(s) => tasks'[s] = <<>>
      BY <1>0 DEF Restart
    <3>2. DOMAIN tasks'[s] # {}
      OBVIOUS
    <3> QED BY <3>1, <3>2
  <2> QED BY <1>1, <2>1
<1>2. ASSUME NEW k \in Conns, Dispatch(k)
      PROVE  \/ \E j \in DOMAIN tasks[s] : tasks'[s][i] = tasks[s][j]
             \/ /\ server[k] = s
                /\ tasks'[s][i] = [conn |-> k, reqs |-> reqs[k], send |-> reply[k], text |-> None]
  <2> DEFINE e == [conn |-> k, reqs |-> reqs[k], send |-> reply[k], text |-> None]
  <2>1. tasks' = [tasks EXCEPT ![server[k]] = Append(@, e)]
    BY <1>2 DEF Dispatch
  <2> HIDE DEF e
  <2>2. CASE server[k] = s
    <3>1. tasks'[s] = Append(tasks[s], e) /\ tasks[s] \in Seq(Jobs)
      BY <1>0, <2>1, <2>2
    <3>2. i \in DOMAIN tasks[s] \/ i = Len(tasks[s]) + 1
      BY <3>1
    <3>3. i \in DOMAIN tasks[s] => tasks'[s][i] = tasks[s][i]
      BY <3>1
    <3>4. i = Len(tasks[s]) + 1 => tasks'[s][i] = e
      BY <3>1
    <3> QED BY <2>2, <3>2, <3>3, <3>4 DEF e
  <2>3. CASE server[k] # s
    BY <1>0, <2>1, <2>3
  <2> QED BY <2>2, <2>3
<1>3. ASSUME NEW p \in Threads, Take(p)
      PROVE  \E j \in DOMAIN tasks[s] : tasks'[s][i] = tasks[s][j]
  <2>1. CASE p[1] = s
    <3>1. tasks[s] # <<>> /\ tasks'[s] = Tail(tasks[s]) /\ tasks[s] \in Seq(Jobs)
      BY <1>0, <1>3, <2>1 DEF Take
    <3> QED BY <3>1, Shorter
  <2>2. CASE p[1] # s
    BY <1>0, <1>3, <2>2 DEF Take
  <2> QED BY <2>1, <2>2
<1>4. ASSUME NEW t \in Servers, Restart(t)
      PROVE  t # s /\ tasks'[s] = tasks[s]
  <2>1. tasks' = [tasks EXCEPT ![t] = <<>>]
    BY <1>4 DEF Restart
  <2>2. DOMAIN tasks'[s] # {}
    OBVIOUS
  <2> QED BY <1>0, <2>1, <2>2
<1>5. ~Restart(s)
  BY <1>4
<1>6. CASE \E k \in Conns : Dispatch(k)
  BY <1>2, <1>5, <1>6
<1>7. CASE \E p \in Threads : Take(p)
  BY <1>3, <1>5, <1>7
<1>8. CASE \E t \in Servers : Restart(t)
  BY <1>4, <1>8
<1>9. ASSUME NEW c \in Clients, Client(c) \/ Timeout(c) PROVE UNCHANGED tasks
  BY <1>9 DEF Client, Refresh, Exec, Receive, Eof, Timeout, SendScript
<1>10. ASSUME NEW k \in Conns, Flush(k) \/ CloseConn(k) PROVE UNCHANGED tasks
  BY <1>10 DEF Flush, CloseConn
<1>11. ASSUME NEW p \in Threads, Thread(p), ~Take(p) PROVE UNCHANGED tasks
  BY <1>11 DEF Thread, Access, Get, GetReply, Write, Del, DelReply, Run, Store
<1>12. CASE UNCHANGED vars
  BY <1>1, <1>12 DEF vars
<1> QED BY <1>1, <1>6, <1>7, <1>8, <1>9, <1>10, <1>11, <1>12 DEF Next, Loop

\* Where a thread's event comes from.
LEMMA JobOrigin ==
  ASSUME TypeOK, Working, [Next]_vars, NEW p \in Threads, job'[p] # None
  PROVE  /\ ~Restart(p[1])
         /\ \/ job[p] # None /\ job'[p].conn = job[p].conn
            \/ Take(p) /\ tasks[p[1]] # <<>> /\ job'[p] = tasks[p[1]][1]
<1> USE DEF clientVars, connVars, serverVars, storeVars, history
<1>0. /\ tasks \in [Servers -> Seq(Jobs)] /\ p[1] \in Servers
      /\ job \in [Threads -> Jobs \cup {None}]
  BY DEF TypeOK, Threads
<1>1. ~Restart(p[1])
  <2>1. Restart(p[1]) => job'[p] = None
    BY DEF Restart
  <2> QED BY <2>1
<1>2. ASSUME NEW q \in Threads, q # p, Thread(q) PROVE job'[p] = job[p]
  BY <1>0, <1>2 DEF Thread, Take, Access, Get, GetReply, Write, Del, DelReply, Run, Store, Answer
<1>3. CASE Take(p)
  BY <1>0, <1>1, <1>3, Shorter DEF Take
<1>4. ASSUME NEW a, Answer(p, a), job[p] # None PROVE job'[p].conn = job[p].conn
  BY <1>0, <1>4 DEF Answer
<1>5. CASE (Get(p) \/ DelReply(p) \/ Run(p)) /\ ~UNCHANGED job
  <2>1. job[p] # None
    BY <1>5 DEF Get, DelReply, Run, TypeOK
  <2> QED BY <1>1, <1>4, <1>5, <2>1 DEF Get, DelReply, Run
<1>6. CASE GetReply(p)
  <2>1. job[p] # None /\ job[p] \in Jobs
    BY <1>0, <1>6 DEF GetReply, TypeOK
  <2>2. \A x : [job[p] EXCEPT !.text = x].conn = job[p].conn
    BY <2>1 DEF Jobs
  <2>3. job' \in {job, [job EXCEPT ![p] = [@ EXCEPT !.text = Head(pending[p[1]])]]}
    BY <1>6 DEF GetReply
  <2>4. job'[p] \in {job[p], [job[p] EXCEPT !.text = Head(pending[p[1]])]}
    BY <1>0, <2>3
  <2> QED BY <1>1, <2>1, <2>2, <2>4
<1>7. CASE UNCHANGED job
  BY <1>1, <1>7
<1>8. CASE Store(p)
  BY <1>0, <1>8 DEF Store
<1>9. ASSUME NEW t \in Servers, Restart(t) PROVE job'[p] = job[p]
  BY <1>1, <1>9 DEF Restart
<1>10. ASSUME NEW c \in Clients, Client(c) \/ Timeout(c) PROVE UNCHANGED job
  BY <1>10 DEF Client, Refresh, Exec, Receive, Eof, Timeout, SendScript
<1>11. ASSUME NEW k \in Conns, Loop(k) PROVE UNCHANGED job
  BY <1>11 DEF Loop, Dispatch, Flush, CloseConn
<1>12. CASE Thread(p)
  <2>1. Access(p) \/ Write(p) \/ Del(p) => UNCHANGED job
    BY DEF Access, Write, Del
  <2> QED BY <1>3, <1>5, <1>6, <1>7, <1>8, <1>12, <2>1 DEF Thread
<1> QED BY <1>1, <1>2, <1>7, <1>9, <1>10, <1>11, <1>12 DEF Next, vars

\* A connection for which a thread is to execute stays known.
LEMMA BusyKnown ==
  ASSUME TypeOK, Opened, [Next]_vars, NEW k \in Conns, NEW s \in Servers, Known(k, s), Busy(k), ~Restart(s)
  PROVE  Known(k, s)'
BY KnownStep

LEMMA WorkingStep ==
  ASSUME TypeOK, TypeOK', Opened, Working, [Next]_vars
  PROVE  Working'
<1>0. /\ tasks \in [Servers -> Seq(Jobs)] /\ job \in [Threads -> Jobs \cup {None}]
      /\ wpc \in [Threads -> Steps]
  BY DEF TypeOK, Steps
<1>1. ASSUME NEW s \in Servers, NEW i \in DOMAIN tasks'[s]
      PROVE  tasks'[s][i].reqs # <<>> /\ Known(tasks[s][i].conn, s)'
  <2>1. CASE \E j \in DOMAIN tasks[s] : tasks'[s][i] = tasks[s][j]
    <3>1. PICK j \in DOMAIN tasks[s] : tasks'[s][i] = tasks[s][j]
      BY <2>1
    <3>2. tasks[s][j] \in Jobs
      BY <1>0
    <3>3. PICK k \in Conns : k = tasks[s][j].conn
      BY <3>2 DEF Jobs
    <3>4. Known(k, s) /\ tasks[s][j].reqs # <<>>
      BY <3>3 DEF Working
    <3>5. Busy(k)
      BY <3>3, <3>4 DEF Busy, Known
    <3>6. Known(k, s)'
      BY <3>4, <3>5, BusyKnown, TaskOrigin
    <3> QED BY <3>1, <3>3, <3>4, <3>6 DEF Known
  <2>2. ASSUME NEW k \in Conns, Dispatch(k), server[k] = s,
               tasks'[s][i] = [conn |-> k, reqs |-> reqs[k], send |-> reply[k], text |-> None]
        PROVE  tasks'[s][i].reqs # <<>> /\ Known(tasks[s][i].conn, s)'
    <3>1. reqs[k] # <<>> /\ k \in serving /\ UNCHANGED <<server, serving, outlived>>
      BY <2>2 DEF Dispatch, history
    <3> QED BY <2>2, <3>1 DEF Known
  <2> QED BY <2>1, <2>2, TaskOrigin
<1>2. ASSUME NEW p \in Threads, job'[p] # None
      PROVE  Known(Conn(p), p[1])'
  <2>0. p[1] \in Servers /\ Conn(p)' = job'[p].conn
    BY DEF Threads, Conn
  <2>1. CASE job[p] # None /\ job'[p].conn = job[p].conn
    <3>0. PICK k \in Conns : k = job[p].conn
      BY <1>0, <2>1 DEF Jobs
    <3>1. Known(k, p[1]) /\ Busy(k)
      BY <2>1, <3>0 DEF Working, Busy, Conn
    <3>2. ~Restart(p[1])
      BY <1>2, JobOrigin
    <3>3. Known(k, p[1])'
      BY <2>0, <3>1, <3>2, BusyKnown
    <3> QED BY <2>0, <2>1, <3>0, <3>3 DEF Known, Conn
  <2>2. CASE Take(p) /\ tasks[p[1]] # <<>> /\ job'[p] = tasks[p[1]][1]
    <3>0. 1 \in DOMAIN tasks[p[1]] /\ tasks[p[1]][1] \in Jobs
      BY <1>0, <2>0, <2>2, Shorter
    <3>5. PICK k \in Conns : k = tasks[p[1]][1].conn
      BY <3>0 DEF Jobs
    <3>1. Known(k, p[1])
      BY <2>0, <3>0, <3>5 DEF Working
    <3>2. Busy(k)
      BY <3>0, <3>1, <3>5 DEF Busy, Known
    <3>3. ~Restart(p[1])
      BY <1>2, JobOrigin
    <3>4. Known(k, p[1])'
      BY <2>0, <3>1, <3>2, <3>3, BusyKnown
    <3> QED BY <2>0, <2>2, <3>4, <3>5 DEF Known, Conn
  <2> QED BY <1>2, <2>1, <2>2, JobOrigin
<1>3. ASSUME NEW p \in Threads, wpc'[p] \notin {"idle", "store"}
      PROVE  job'[p].reqs # <<>>
  <2>1. ASSUME NEW a \in Answers, Answer(p, a), wpc[p] \notin {"idle", "store"} PROVE job'[p].reqs # <<>>
    BY <1>3, <2>1, AnswerFacts
  <2>2. CASE UNCHANGED <<job, wpc>>
    BY <1>3, <2>2 DEF Working
  <2>3. ASSUME NEW q \in Threads, q # p, Thread(q) PROVE job'[p].reqs # <<>>
    <3>1. job'[p] = job[p] /\ wpc'[p] = wpc[p]
      BY <1>0, <2>3 DEF Thread, Take, Access, Get, GetReply, Write, Del, DelReply, Run, Store, Answer, Goto
    <3> QED BY <1>3, <3>1 DEF Working
  <2>4. CASE Take(p)
    <3>1. p[1] \in Servers
      BY DEF Threads
    <3>2. 1 \in DOMAIN tasks[p[1]] /\ job'[p] = tasks[p[1]][1]
      BY <1>0, <2>4, <3>1, Shorter DEF Take
    <3> QED BY <3>1, <3>2 DEF Working
  <2>5. CASE (Access(p) \/ Get(p) \/ Write(p) \/ Del(p) \/ DelReply(p)) /\ UNCHANGED job
    <3>1. wpc[p] \notin {"idle", "store"}
      BY <2>5 DEF Access, Get, Write, Del, DelReply
    <3> QED BY <2>5, <3>1 DEF Working
  <2>6. CASE GetReply(p)
    <3>1. job[p] \in Jobs /\ job[p].reqs # <<>>
      BY <2>6, JobFacts DEF GetReply
    <3>2. \A x : [job[p] EXCEPT !.text = x].reqs = job[p].reqs
      BY <3>1 DEF Jobs
    <3>3. job' \in {job, [job EXCEPT ![p] = [@ EXCEPT !.text = Head(pending[p[1]])]]}
      BY <2>6 DEF GetReply
    <3>4. job'[p] \in {job[p], [job[p] EXCEPT !.text = Head(pending[p[1]])]}
      BY <1>0, <3>3
    <3> QED BY <3>1, <3>2, <3>4
  <2>7. CASE (Get(p) \/ DelReply(p) \/ Run(p)) /\ ~UNCHANGED job
    <3>1. wpc[p] \notin {"idle", "store"}
      BY <2>7 DEF Get, DelReply, Run
    <3>2. Conn(p) \in Conns /\ Call(p) \in Calls /\ Dir(p) \in Names /\ p[1] \in Servers
      BY <3>1, JobFacts
    <3>3. Uninit(Call(p), Conn(p)) \in Answers /\ Ok(Call(p), cache[p[1]][Dir(p)]) \in Answers
      BY <3>2, AnswerTypes DEF TypeOK
    <3> QED BY <2>1, <2>7, <3>1, <3>3 DEF Get, DelReply, Run
  <2>8. CASE Store(p)
    <3>1. wpc'[p] = "idle"
      BY <1>0, <2>8 DEF Store, Goto
    <3> QED BY <1>3, <3>1
  <2>9. ASSUME NEW s \in Servers, Restart(s) PROVE job'[p].reqs # <<>>
    <3>1. wpc'[p] = "idle" \/ (job'[p] = job[p] /\ wpc'[p] = wpc[p])
      BY <2>9 DEF Restart
    <3> QED BY <1>3, <3>1 DEF Working
  <2>10. ASSUME NEW c \in Clients, Client(c) \/ Timeout(c) PROVE UNCHANGED <<job, wpc>>
    BY <2>10 DEF Client, Refresh, Exec, Receive, Eof, Timeout, SendScript, serverVars
  <2>11. ASSUME NEW k \in Conns, Loop(k) PROVE UNCHANGED <<job, wpc>>
    BY <2>11 DEF Loop, Dispatch, Flush, CloseConn
  <2>12. CASE Run(p) /\ UNCHANGED job
    <3>1. wpc[p] \notin {"idle", "store"}
      BY <2>12 DEF Run
    <3> QED BY <2>12, <3>1 DEF Working
  <2>13. CASE Thread(p)
    <3>1. Access(p) \/ Write(p) \/ Del(p) => UNCHANGED job
      BY DEF Access, Write, Del
    <3> QED BY <2>4, <2>5, <2>6, <2>7, <2>8, <2>12, <2>13, <3>1 DEF Thread
  <2>14. CASE UNCHANGED vars
    BY <2>2, <2>14 DEF vars, serverVars
  <2> QED BY <2>2, <2>3, <2>9, <2>10, <2>11, <2>13, <2>14 DEF Next
<1> QED BY <1>1, <1>2, <1>3 DEF Working

LEMMA CacheServedStep ==
  ASSUME TypeOK, Opened, Working, CacheServed, [Next]_vars
  PROVE  CacheServed'
<1>0. /\ cache \in [Servers -> [Names -> Clients \cup {Empty, None}]]
  BY DEF TypeOK
<1> SUFFICES ASSUME NEW s \in Servers, NEW n \in Names, cache'[s][n] # None
             PROVE  \E k \in Conns : Name[k] = n /\ Known(k, s)'
  BY DEF CacheServed, Known
<1>1. CASE cache[s][n] # None /\ ~Restart(s)
  <2>1. PICK k \in Conns : Name[k] = n /\ Known(k, s)
    BY <1>1 DEF CacheServed, Known, TypeOK
  <2>2. CloseConn(k) => cache'[s][n] = None
    BY <1>0, <2>1 DEF CloseConn, Known
  <2> QED BY <1>1, <2>1, <2>2, KnownStep
<1>2. CASE Restart(s)
  <2>1. cache'[s][n] = None
    BY <1>0, <1>2 DEF Restart
  <2> QED BY <2>1
<1>3. CASE cache[s][n] = None
  <2>1. PICK p \in Threads : GetReply(p) /\ p[1] = s /\ Dir(p) = n
    <3>1. ASSUME NEW c \in Clients, Client(c) \/ Timeout(c) PROVE UNCHANGED cache
      BY <3>1 DEF Client, Refresh, Exec, Receive, Eof, Timeout, SendScript, storeVars
    <3>2. ASSUME NEW k \in Conns, Dispatch(k) \/ Flush(k) PROVE UNCHANGED cache
      BY <3>2 DEF Dispatch, Flush, storeVars
    <3>3. ASSUME NEW k \in Conns, CloseConn(k) PROVE cache'[s][n] = None
      BY <1>0, <1>3, <3>3 DEF CloseConn
    <3>4. ASSUME NEW p \in Threads, Take(p) \/ Access(p) \/ Get(p) \/ Del(p) \/ DelReply(p) \/ Run(p) \/ Store(p)
          PROVE  UNCHANGED cache
      BY <3>4 DEF Take, Access, Get, Del, DelReply, Run, Store, storeVars
    <3>5. ASSUME NEW p \in Threads, Write(p) PROVE cache'[s][n] = None
      BY <1>0, <1>3, <3>5 DEF Write
    <3>6. ASSUME NEW p \in Threads, GetReply(p), ~(p[1] = s /\ Dir(p) = n) PROVE cache'[s][n] = None
      BY <1>0, <1>3, <3>6 DEF GetReply
    <3>7. ASSUME NEW t \in Servers, Restart(t) PROVE cache'[s][n] = None
      BY <1>0, <1>3, <3>7 DEF Restart
    <3> QED BY <1>3, <3>1, <3>2, <3>3, <3>4, <3>5, <3>6, <3>7 DEF Next, Loop, Thread, vars, storeVars
  <2>2. Conn(p) \in Conns /\ Known(Conn(p), s) /\ Name[Conn(p)] = n
    BY <2>1, JobFacts DEF GetReply, Dir
  <2>3. UNCHANGED <<server, serving, outlived>>
    BY <2>1 DEF GetReply, connVars, history
  <2> QED BY <2>2, <2>3 DEF Known
<1> QED BY <1>1, <1>2, <1>3
-----------------------------------------------------------------------------
(* Whose script is executed.                                               *)

LEMMA OwnersKept ==
  ASSUME TypeOK, Opened, [Next]_vars, NEW k \in Conns, owner[k] # None
  PROVE  owner'[k] = owner[k]
<1> USE DEF clientVars, connVars, serverVars, storeVars, history
<1>1. ASSUME NEW c \in Clients, Refresh(c) PROVE owner'[k] = owner[k]
  BY <1>1, RefreshFacts DEF Opened
<1>2. ASSUME NEW c \in Clients, Exec(c) \/ Receive(c) \/ Eof(c) \/ Timeout(c) \/ SendScript(c)
      PROVE  UNCHANGED owner
  BY <1>2 DEF Exec, Receive, Eof, Timeout, SendScript
<1>3. ASSUME NEW l \in Conns, Loop(l) PROVE UNCHANGED owner
  BY <1>3 DEF Loop, Dispatch, Flush, CloseConn
<1>4. ASSUME NEW p \in Threads, Thread(p) PROVE UNCHANGED owner
  BY <1>4, ThreadQuiet
<1>5. ASSUME NEW s \in Servers, Restart(s) PROVE UNCHANGED owner
  BY <1>5 DEF Restart
<1> QED BY <1>1, <1>2, <1>3, <1>4, <1>5 DEF Next, Client, vars

LEMMA OwnsKept ==
  ASSUME TypeOK, Opened, [Next]_vars, NEW c, NEW n, Owns(owner, c, n)
  PROVE  Owns(owner', c, n)
<1>1. PICK k \in Conns : Name[k] = n /\ owner[k] = c
  BY DEF Owns
<1>2. owner[k] # None
  BY <1>1, ValuesAssumption DEF Owns
<1> QED BY <1>1, <1>2, OwnersKept DEF Owns

LEMMA TextKept ==
  ASSUME TypeOK, Opened, [Next]_vars, NEW x, NEW n, TextFits(owner, x, n)
  PROVE  TextFits(owner', x, n)
BY OwnsKept DEF TextFits

LEMMA FitKept ==
  ASSUME TypeOK, Opened, [Next]_vars, NEW q, NEW n, AllFit(owner, q, n)
  PROVE  AllFit(owner', q, n)
BY OwnsKept DEF AllFit, Fits

LEMMA EmptyFits == \A o, n : AllFit(o, <<>>, n)
BY DEF AllFit

LEMMA AppendFits ==
  ASSUME NEW o, NEW n, NEW q \in Seq(Answers), NEW a, AllFit(o, q, n), Fits(o, a, n)
  PROVE  AllFit(o, Append(q, a), n)
<1>1. ASSUME NEW i \in DOMAIN Append(q, a) PROVE Append(q, a)[i] = a \/ (i \in DOMAIN q /\ Append(q, a)[i] = q[i])
  OBVIOUS
<1> QED BY <1>1 DEF AllFit

LEMMA ConcatFits ==
  ASSUME NEW o, NEW n, NEW q \in Seq(Answers), NEW r \in Seq(Answers), AllFit(o, q, n), AllFit(o, r, n)
  PROVE  AllFit(o, q \o r, n)
<1>1. ASSUME NEW i \in DOMAIN (q \o r)
      PROVE  \/ i \in DOMAIN q /\ (q \o r)[i] = q[i]
             \/ i - Len(q) \in DOMAIN r /\ (q \o r)[i] = r[i - Len(q)]
  OBVIOUS
<1> QED BY <1>1 DEF AllFit

\* The answer to a call for connection k, from the text x.
LEMMA AnswerFits ==
  ASSUME NEW o, NEW m, NEW k, NEW x, TextFits(o, x, Name[k])
  PROVE  Fits(o, Uninit(m, k), Name[k]) /\ Fits(o, Ok(m, x), Name[k])
BY DEF Fits, Uninit, Ok, TextFits

LEMMA UploadsStep ==
  ASSUME TypeOK, Opened, Uploads, AnswersFit, [Next]_vars
  PROVE  Uploads'
<1> USE DEF clientVars, connVars, serverVars, storeVars, history
<1>0. pc \in [Clients -> {"refresh", "exec", "wait", "upload", "dead"}]
      /\ prefix \in [Clients -> Names \cup {None}] /\ ans \in [Conns -> Seq(Answers)]
  BY DEF TypeOK
<1> SUFFICES ASSUME NEW c \in Clients, pc'[c] = "upload" PROVE prefix'[c] = Name[fd'[c]]
  BY DEF Uploads
<1>1. ASSUME NEW d \in Clients, Refresh(d) PROVE prefix'[c] = Name[fd'[c]]
  <2>1. d # c /\ pc[c] = "upload" /\ UNCHANGED prefix
    BY <1>0, <1>1 DEF Refresh
  <2> QED BY <1>1, <2>1, RefreshFacts DEF Uploads
<1>2. ASSUME NEW d \in Clients, Exec(d) PROVE prefix'[c] = Name[fd'[c]]
  <2>1. d # c /\ pc[c] = "upload"
    BY <1>2, ExecFacts
  <2>2. UNCHANGED prefix /\ fd'[c] = fd[c]
    BY <1>2, <2>1, ExecFacts DEF Exec
  <2> QED BY <2>1, <2>2 DEF Uploads
<1>3. ASSUME NEW d \in Clients, Receive(d) PROVE prefix'[c] = Name[fd'[c]]
  <2> DEFINE a == Head(ans[fd[d]])
  <2>0. UNCHANGED fd /\ fd[d] \in Conns /\ ans[fd[d]] # <<>>
    BY <1>3 DEF Receive, TypeOK
  <2>1. CASE d = c
    <3>1. a.status = "uninit" /\ prefix'[c] = a.body
      BY <1>0, <1>3, <2>1 DEF Receive, Return
    <3>2. 1 \in DOMAIN ans[fd[d]] /\ a = ans[fd[d]][1]
      BY <1>0, <2>0, Shorter
    <3>3. Fits(owner, a, Name[fd[d]])
      BY <2>0, <3>2 DEF AnswersFit, AllFit
    <3> QED BY <2>0, <2>1, <3>1, <3>3 DEF Fits
  <2>2. CASE d # c
    <3>1. pc[c] = "upload" /\ prefix'[c] = prefix[c]
      BY <1>0, <1>3, <2>2 DEF Receive, Return
    <3> QED BY <2>0, <3>1 DEF Uploads
  <2> QED BY <2>1, <2>2
<1>4. ASSUME NEW d \in Clients, Eof(d) \/ Timeout(d) \/ SendScript(d) PROVE prefix'[c] = Name[fd'[c]]
  <2>1. pc[c] = "upload" /\ UNCHANGED <<prefix, fd>>
    BY <1>0, <1>4 DEF Eof, Timeout, SendScript, Return
  <2> QED BY <2>1 DEF Uploads
<1>5. ASSUME NEW k \in Conns, Loop(k) PROVE UNCHANGED <<pc, prefix, fd>>
  BY <1>5 DEF Loop, Dispatch, Flush, CloseConn
<1>6. ASSUME NEW p \in Threads, Thread(p) PROVE UNCHANGED <<pc, prefix, fd>>
  BY <1>6, ThreadQuiet
<1>7. ASSUME NEW s \in Servers, Restart(s) PROVE UNCHANGED <<pc, prefix, fd>>
  BY <1>7 DEF Restart
<1>8. CASE UNCHANGED <<pc, prefix, fd>>
  BY <1>8 DEF Uploads
<1> QED BY <1>1, <1>2, <1>3, <1>4, <1>5, <1>6, <1>7, <1>8 DEF Next, Client, vars

LEMMA AnswersStep ==
  ASSUME TypeOK, Opened, AnswersFit, JobsFit, [Next]_vars
  PROVE  AnswersFit'
<1> USE DEF clientVars, connVars, serverVars, storeVars, history
<1>0. ans \in [Conns -> Seq(Answers)] /\ reply \in [Conns -> Seq(Answers)]
  BY DEF TypeOK
<1> SUFFICES ASSUME NEW k \in Conns
             PROVE  AllFit(owner, ans'[k], Name[k]) /\ AllFit(owner, reply'[k], Name[k])
  BY FitKept DEF AnswersFit
<1> DEFINE Good == AllFit(owner, ans'[k], Name[k]) /\ AllFit(owner, reply'[k], Name[k])
<1>1. CASE UNCHANGED <<ans, reply>>
  BY <1>1 DEF AnswersFit
<1>2. ASSUME NEW c \in Clients, Client(c) \/ Timeout(c), ~Receive(c) PROVE UNCHANGED <<ans, reply>>
  BY <1>2 DEF Client, Refresh, Exec, Eof, Timeout, SendScript
<1>3. ASSUME NEW c \in Clients, Receive(c) PROVE Good
  <2>1. UNCHANGED reply /\ ans'[k] \in {ans[k], <<>>}
    BY <1>0, <1>3 DEF Receive
  <2> QED BY <2>1, EmptyFits DEF AnswersFit
<1>4. ASSUME NEW l \in Conns, Dispatch(l) \/ CloseConn(l) PROVE UNCHANGED <<ans, reply>>
  BY <1>4 DEF Dispatch, CloseConn
<1>5. ASSUME NEW l \in Conns, Flush(l) PROVE Good
  <2>1. reply'[k] \in {reply[k], <<>>} /\ ans'[k] \in {ans[k], ans[k] \o reply[k]}
    BY <1>0, <1>5 DEF Flush
  <2>2. AllFit(owner, ans[k] \o reply[k], Name[k])
    BY <1>0, ConcatFits DEF AnswersFit
  <2> QED BY <2>1, <2>2, EmptyFits DEF AnswersFit
<1>6. ASSUME NEW p \in Threads, Thread(p), ~Store(p) PROVE UNCHANGED <<ans, reply>>
  BY <1>6 DEF Thread, Take, Access, Get, GetReply, Write, Del, DelReply, Run
<1>7. ASSUME NEW p \in Threads, Store(p) PROVE Good
  <2>1. UNCHANGED ans /\ (reply'[k] = reply[k] \/ (k = job[p].conn /\ reply'[k] = job[p].send))
    BY <1>0, <1>7 DEF Store, Conn
  <2>2. job[p] # None
    BY <1>7 DEF Store, TypeOK
  <2> QED BY <2>1, <2>2 DEF AnswersFit, JobsFit
<1>8. ASSUME NEW s \in Servers, Restart(s) PROVE Good
  <2>1. UNCHANGED ans /\ reply'[k] \in {reply[k], <<>>}
    BY <1>0, <1>8 DEF Restart
  <2> QED BY <2>1, EmptyFits DEF AnswersFit
<1> QED BY <1>1, <1>2, <1>3, <1>4, <1>5, <1>6, <1>7, <1>8 DEF Next, Loop, vars

LEMMA TasksStep ==
  ASSUME TypeOK, Opened, AnswersFit, TasksFit, [Next]_vars
  PROVE  TasksFit'
<1> SUFFICES ASSUME NEW s \in Servers, NEW i \in DOMAIN tasks'[s]
             PROVE  AllFit(owner, tasks'[s][i].send, Name[tasks'[s][i].conn]) /\ tasks'[s][i].text = None
  BY FitKept DEF TasksFit
<1>1. CASE \E j \in DOMAIN tasks[s] : tasks'[s][i] = tasks[s][j]
  BY <1>1 DEF TasksFit
<1>2. ASSUME NEW k \in Conns,
             tasks'[s][i] = [conn |-> k, reqs |-> reqs[k], send |-> reply[k], text |-> None]
      PROVE  AllFit(owner, tasks'[s][i].send, Name[tasks'[s][i].conn]) /\ tasks'[s][i].text = None
  BY <1>2 DEF AnswersFit
<1> QED BY <1>1, <1>2, TaskOrigin

LEMMA JobsStep ==
  ASSUME TypeOK, Opened, Working, TasksFit, JobsFit, CacheFits, OneInContext, [Next]_vars
  PROVE  JobsFit'
<1> USE DEF serverVars
<1>0. /\ job \in [Threads -> Jobs \cup {None}] /\ tasks \in [Servers -> Seq(Jobs)]
      /\ pending \in [Servers -> Seq(Clients \cup {None})]
      /\ None \notin Clients
  BY ValuesAssumption DEF TypeOK
<1> SUFFICES ASSUME NEW p \in Threads, job'[p] # None
             PROVE  /\ AllFit(owner, job'[p].send, Name[job'[p].conn])
                    /\ TextFits(owner, job'[p].text, Name[job'[p].conn])
  BY FitKept, TextKept DEF JobsFit
<1> DEFINE Good == /\ AllFit(owner, job'[p].send, Name[job'[p].conn])
                   /\ TextFits(owner, job'[p].text, Name[job'[p].conn])
<1>1. CASE job'[p] = job[p]
  BY <1>1 DEF JobsFit
<1>2. ASSUME NEW q \in Threads, q # p, Thread(q) PROVE job'[p] = job[p]
  BY <1>0, <1>2 DEF Thread, Take, Access, Get, GetReply, Write, Del, DelReply, Run, Store, Answer
<1>3. CASE Take(p)
  <2>1. p[1] \in Servers
    BY DEF Threads
  <2>2. 1 \in DOMAIN tasks[p[1]] /\ job'[p] = tasks[p[1]][1]
    BY <1>0, <1>3, <2>1, Shorter DEF Take
  <2> QED BY <1>0, <2>1, <2>2 DEF TasksFit, TextFits
<1>4. ASSUME NEW x \in Clients \cup {Empty, None}, TextFits(owner, x, Dir(p)),
             wpc[p] \notin {"idle", "store"},
             Answer(p, Uninit(Call(p), Conn(p))) \/ Answer(p, Ok(Call(p), x))
      PROVE  Good
  <2>1. /\ job[p] \in Jobs /\ Conn(p) \in Conns /\ Call(p) \in Calls /\ job[p] # None
    BY <1>4, JobFacts DEF TypeOK
  <2>2. PICK a \in Answers : Answer(p, a) /\ Fits(owner, a, Dir(p))
    BY <1>4, <2>1, AnswerTypes, AnswerFits DEF Dir
  <2>3. /\ job'[p].conn = job[p].conn /\ job'[p].text = None /\ job'[p].send = Append(job[p].send, a)
    BY <1>4, <2>2, AnswerFacts
  <2>4. job[p].send \in Seq(Answers) /\ AllFit(owner, job[p].send, Dir(p))
    BY <2>1 DEF JobsFit, Jobs, Dir, Conn
  <2>5. AllFit(owner, Append(job[p].send, a), Dir(p))
    BY <2>2, <2>4, AppendFits
  <2> QED BY <1>0, <2>3, <2>5 DEF TextFits, Dir, Conn
<1>5. CASE (Get(p) \/ DelReply(p)) /\ ~UNCHANGED job
  <2>1. TextFits(owner, None, Dir(p))
    BY <1>0 DEF TextFits
  <2> QED BY <1>4, <1>5, <2>1 DEF Get, DelReply
<1>6. CASE Run(p)
  <2>1. p[1] \in Servers /\ Dir(p) \in Names
    BY <1>6, JobFacts DEF Run
  <2>2. cache[p[1]][Dir(p)] \in Clients \cup {Empty, None} /\ TextFits(owner, cache[p[1]][Dir(p)], Dir(p))
    BY <2>1 DEF TypeOK, CacheFits
  <2> QED BY <1>4, <1>6, <2>2 DEF Run
<1>7. CASE GetReply(p)
  <2>1. job[p] \in Jobs /\ job[p] # None /\ p[1] \in Servers
    BY <1>7, JobFacts DEF GetReply, TypeOK
  <2> DEFINE x == Head(pending[p[1]])
  <2>2. job' \in {job, [job EXCEPT ![p] = [@ EXCEPT !.text = x]]}
    BY <1>7 DEF GetReply
  <2>3. x = pending[p[1]][1] /\ TextFits(owner, x, Name[job[p].conn])
    BY <1>0, <1>7, <2>1, Shorter DEF GetReply, OneInContext
  <2> HIDE DEF x
  <2>4. job'[p] \in {job[p], [job[p] EXCEPT !.text = x]}
    BY <1>0, <2>2
  <2>5. [job[p] EXCEPT !.text = x] = [conn |-> job[p].conn, reqs |-> job[p].reqs, send |-> job[p].send, text |-> x]
    BY <2>1 DEF Jobs
  <2> QED BY <2>1, <2>3, <2>4, <2>5 DEF JobsFit
<1>8. CASE Store(p)
  BY <1>0, <1>8 DEF Store
<1>9. ASSUME NEW s \in Servers, Restart(s) PROVE job'[p] = job[p]
  BY <1>9 DEF Restart
<1>10. ASSUME NEW c \in Clients, Client(c) \/ Timeout(c) PROVE UNCHANGED job
  BY <1>10 DEF Client, Refresh, Exec, Receive, Eof, Timeout, SendScript
<1>11. ASSUME NEW k \in Conns, Loop(k) PROVE UNCHANGED job
  BY <1>11 DEF Loop, Dispatch, Flush, CloseConn
<1>12. CASE Thread(p)
  <2>1. Access(p) \/ Write(p) \/ Del(p) => UNCHANGED job
    BY DEF Access, Write, Del
  <2> QED BY <1>1, <1>3, <1>5, <1>6, <1>7, <1>8, <1>12, <2>1 DEF Thread
<1> QED BY <1>1, <1>2, <1>9, <1>10, <1>11, <1>12 DEF Next, vars

LEMMA CacheStep ==
  ASSUME TypeOK, Opened, Working, JobsFit, CacheFits, [Next]_vars
  PROVE  CacheFits'
<1> USE DEF storeVars
<1>0. /\ cache \in [Servers -> [Names -> Clients \cup {Empty, None}]]
      /\ None \notin Clients /\ Empty \notin Clients
  BY ValuesAssumption DEF TypeOK
<1> SUFFICES ASSUME NEW s \in Servers, NEW n \in Names PROVE TextFits(owner, cache'[s][n], n)
  BY TextKept DEF CacheFits
<1>1. CASE cache'[s][n] \in {cache[s][n], Empty, None}
  BY <1>0, <1>1 DEF CacheFits, TextFits
<1>2. ASSUME NEW c \in Clients, Client(c) \/ Timeout(c) PROVE UNCHANGED cache
  BY <1>2 DEF Client, Refresh, Exec, Receive, Eof, Timeout, SendScript
<1>3. ASSUME NEW k \in Conns, Loop(k) PROVE cache'[s][n] \in {cache[s][n], None}
  <2>1. CloseConn(k) \/ UNCHANGED cache
    BY <1>3 DEF Loop, Dispatch, Flush
  <2>2. CloseConn(k) => cache'[s][n] \in {cache[s][n], None}
    BY <1>0 DEF CloseConn
  <2> QED BY <2>1, <2>2
<1>4. ASSUME NEW p \in Threads, Thread(p), ~Write(p) PROVE cache'[s][n] \in {cache[s][n], Empty}
  <2>1. GetReply(p) \/ UNCHANGED cache
    BY <1>4 DEF Thread, Take, Access, Get, Del, DelReply, Run, Store
  <2>2. GetReply(p) => cache'[s][n] \in {cache[s][n], Empty}
    BY <1>0 DEF GetReply
  <2> QED BY <2>1, <2>2
<1>5. ASSUME NEW p \in Threads, Write(p) PROVE TextFits(owner, cache'[s][n], n)
  <2>1. job[p] # None
    BY <1>5 DEF Write, TypeOK
  <2>2. cache'[s][n] = cache[s][n] \/ (n = Name[job[p].conn] /\ cache'[s][n] = job[p].text)
    BY <1>0, <1>5 DEF Write, Dir, Conn
  <2> QED BY <2>1, <2>2 DEF CacheFits, JobsFit
<1>6. ASSUME NEW t \in Servers, Restart(t) PROVE cache'[s][n] \in {cache[s][n], None}
  BY <1>0, <1>6 DEF Restart
<1> QED BY <1>1, <1>2, <1>3, <1>4, <1>5, <1>6 DEF Next, vars

LEMMA RedisStep ==
  ASSUME TypeOK, Opened, Uploads, RedisFits, [Next]_vars
  PROVE  RedisFits'
<1> USE DEF storeVars
<1>0. redis \in [Servers -> [Names -> Clients \cup {None}]] /\ None \notin Clients
  BY ValuesAssumption DEF TypeOK
<1> SUFFICES ASSUME NEW s \in Servers, NEW n \in Names PROVE TextFits(owner, redis'[s][n], n)
  BY TextKept DEF RedisFits
<1>1. CASE redis'[s][n] \in {redis[s][n], None}
  BY <1>0, <1>1 DEF RedisFits, TextFits
<1>2. ASSUME NEW c \in Clients, Client(c) \/ Timeout(c), ~SendScript(c) PROVE UNCHANGED redis
  BY <1>2 DEF Client, Refresh, Exec, Receive, Eof, Timeout
<1>3. ASSUME NEW c \in Clients, SendScript(c) PROVE TextFits(owner, redis'[s][n], n)
  <2>1. /\ fd[c] \in Conns /\ prefix[c] = Name[fd[c]] /\ owner[fd[c]] = c
    BY <1>3 DEF SendScript, TypeOK, Uploads
  <2>2. redis'[s][n] = redis[s][n] \/ (n = prefix[c] /\ redis'[s][n] = c)
    BY <1>0, <1>3 DEF SendScript
  <2> QED BY <2>1, <2>2 DEF RedisFits, TextFits, Owns
<1>4. ASSUME NEW k \in Conns, Loop(k) PROVE UNCHANGED redis
  BY <1>4 DEF Loop, Dispatch, Flush, CloseConn
<1>5. ASSUME NEW p \in Threads, Thread(p) PROVE redis'[s][n] \in {redis[s][n], None}
  BY <1>0, <1>5 DEF Thread, Take, Access, Get, GetReply, Write, Del, DelReply, Run, Store
<1>6. ASSUME NEW t \in Servers, Restart(t) PROVE UNCHANGED redis
  BY <1>6 DEF Restart
<1> QED BY <1>1, <1>2, <1>3, <1>4, <1>5, <1>6 DEF Next, vars

\* Only Command, with the context empty, and the reading of a reply change who is
\* in the redisContext.
LEMMA ContextStep ==
  ASSUME TypeOK, Opened, Working, RedisFits, OneInContext, ~overlapped', [Next]_vars
  PROVE  OneInContext'
<1> USE DEF serverVars, storeVars
<1>0. /\ wpc \in [Threads -> Steps] /\ job \in [Threads -> Jobs \cup {None}]
      /\ pending \in [Servers -> Seq(Clients \cup {None})]
      /\ None \notin Clients
      /\ \A p \in Threads : p[1] \in Servers
  BY ValuesAssumption DEF TypeOK, Steps, Threads
<1>1. ASSUME UNCHANGED pending,
             \A p \in Threads : \/ wpc'[p] = wpc[p] /\ job'[p] = job[p]
                                \/ ~InContext(p)'
      PROVE  OneInContext'
  <2>1. \A p \in Threads : InContext(p)' => InContext(p)
    BY <1>1 DEF InContext
  <2>2. ASSUME NEW p \in Threads, wpc'[p] = "getReply"
        PROVE  TextFits(owner', pending'[p[1]][1], Name[job'[p].conn])
    <3>1. wpc[p] = "getReply" /\ job'[p] = job[p]
      BY <1>1, <2>2 DEF InContext
    <3>2. TextFits(owner, pending[p[1]][1], Name[job[p].conn])
      BY <3>1 DEF OneInContext
    <3> QED BY <1>1, <3>1, <3>2, TextKept
  <2> QED BY <1>1, <2>1, <2>2 DEF OneInContext
<1>2. ASSUME NEW p \in Threads, NEW r \in Clients \cup {None}, Command(p, r),
             Goto(p, "getReply") \/ Goto(p, "delReply"), UNCHANGED job,
             wpc'[p] = "getReply" => TextFits(owner, r, Name[job[p].conn])
      PROVE  OneInContext'
  <2>1. pending[p[1]] = <<>> /\ pending' = [pending EXCEPT ![p[1]] = Append(@, r)]
    BY <1>0, <1>2 DEF Command, TypeOK
  <2>2. Append(pending[p[1]], r) = <<r>>
    BY <2>1
  <2>3. pending'[p[1]] = <<r>> /\ \A s \in Servers : s # p[1] => pending'[s] = pending[s]
    BY <1>0, <2>1, <2>2
  <2>4. \A q \in Threads : q # p => wpc'[q] = wpc[q]
    BY <1>0, <1>2 DEF Goto
  <2>5. \A q \in Threads : q # p /\ InContext(q)' => InContext(q) /\ q[1] # p[1]
    BY <2>1, <2>4 DEF InContext, OneInContext
  <2>6. ASSUME NEW q \in Threads, wpc'[q] = "getReply"
        PROVE  TextFits(owner', pending'[q[1]][1], Name[job'[q].conn])
    <3>1. CASE q = p
      BY <1>2, <2>3, <2>6, <3>1, TextKept
    <3>2. CASE q # p
      <4>1. wpc[q] = "getReply" /\ q[1] # p[1]
        BY <2>4, <2>5, <2>6, <3>2 DEF InContext
      <4>2. pending'[q[1]] = pending[q[1]] /\ TextFits(owner, pending[q[1]][1], Name[job[q].conn])
        BY <1>0, <2>3, <4>1 DEF OneInContext
      <4> QED BY <1>2, <4>2, TextKept
    <3> QED BY <3>1, <3>2
  <2>7. \A s \in Servers : Len(pending'[s]) <= 1
    <3>1. Len(<<r>>) = 1 /\ Len(pending'[p[1]]) = Len(<<r>>)
      BY <2>3
    <3>2. \A s \in Servers : s # p[1] => Len(pending'[s]) <= 1
      BY <2>3 DEF OneInContext
    <3>3. \A n : n = 1 => n <= 1
      OBVIOUS
    <3> QED BY <3>1, <3>2, <3>3, Zenon
  <2>8. \A q \in Threads : InContext(q)' => pending'[q[1]] # <<>>
    <3>1. <<r>> # <<>>
      OBVIOUS
    <3> QED BY <1>0, <2>3, <2>5, <3>1 DEF OneInContext
  <2>9. \A q, t \in Threads : InContext(q)' /\ InContext(t)' /\ q[1] = t[1] => q = t
    BY <2>5 DEF OneInContext
  <2> QED BY <2>6, <2>7, <2>8, <2>9 DEF OneInContext, InContext
<1>3. ASSUME NEW p \in Threads, InContext(p), pending[p[1]] # <<>>,
             pending' = [pending EXCEPT ![p[1]] = Tail(@)], ~InContext(p)',
             \A q \in Threads : q # p => wpc'[q] = wpc[q] /\ job'[q] = job[q]
      PROVE  OneInContext'
  <2>1. Len(pending[p[1]]) = 1 /\ pending[p[1]] \in Seq(Clients \cup {None})
    <3>1. pending[p[1]] \in Seq(Clients \cup {None}) /\ Len(pending[p[1]]) <= 1
      BY <1>0 DEF OneInContext
    <3>2. Len(pending[p[1]]) \in Nat /\ Len(pending[p[1]]) # 0
      BY <1>3, <3>1
    <3>3. \A n \in Nat : n <= 1 /\ n # 0 => n = 1
      OBVIOUS
    <3> QED BY <3>1, <3>2, <3>3, Zenon
  <2>2. Len(Tail(pending[p[1]])) = 0
    BY <2>1
  <2>3. Len(pending'[p[1]]) = 0 /\ \A s \in Servers : s # p[1] => pending'[s] = pending[s]
    BY <1>0, <1>3, <2>2
  <2>4. \A q \in Threads : InContext(q)' => q # p /\ InContext(q) /\ q[1] # p[1]
    BY <1>3 DEF InContext, OneInContext
  <2>5. ASSUME NEW q \in Threads, wpc'[q] = "getReply"
        PROVE  TextFits(owner', pending'[q[1]][1], Name[job'[q].conn])
    <3>1. q # p /\ q[1] # p[1] /\ wpc[q] = "getReply" /\ job'[q] = job[q]
      BY <1>3, <2>4, <2>5 DEF InContext
    <3>2. TextFits(owner, pending[q[1]][1], Name[job[q].conn]) /\ pending'[q[1]] = pending[q[1]]
      BY <1>0, <2>3, <3>1 DEF OneInContext
    <3> QED BY <3>1, <3>2, TextKept
  <2>6. \A s \in Servers : Len(pending'[s]) <= 1
    BY <2>3 DEF OneInContext
  <2>7. \A q \in Threads : InContext(q)' => pending'[q[1]] # <<>>
    BY <1>0, <2>3, <2>4 DEF OneInContext
  <2>8. \A q, t \in Threads : InContext(q)' /\ InContext(t)' /\ q[1] = t[1] => q = t
    BY <2>4 DEF OneInContext
  <2> QED BY <2>5, <2>6, <2>7, <2>8 DEF OneInContext, InContext
<1>4. ASSUME NEW c \in Clients, Client(c) \/ Timeout(c) PROVE UNCHANGED <<pending, wpc, job>>
  BY <1>4 DEF Client, Refresh, Exec, Receive, Eof, Timeout, SendScript
<1>5. ASSUME NEW k \in Conns, Loop(k) PROVE UNCHANGED <<pending, wpc, job>>
  BY <1>5 DEF Loop, Dispatch, Flush, CloseConn
<1>6. ASSUME NEW p \in Threads, Take(p) \/ Access(p) \/ Write(p) \/ Store(p) PROVE OneInContext'
  <2>1. UNCHANGED pending /\ wpc'[p] \notin {"getReply", "delReply"}
        /\ \A q \in Threads : q # p => wpc'[q] = wpc[q] /\ job'[q] = job[q]
    BY <1>0, <1>6 DEF Take, Access, Write, Store, Goto
  <2> QED BY <1>1, <2>1 DEF InContext
<1>7. ASSUME NEW p \in Threads, NEW a \in Answers, Answer(p, a), wpc[p] \notin {"idle", "store"}
      PROVE  /\ ~InContext(p)'
             /\ \A q \in Threads : q # p => wpc'[q] = wpc[q] /\ job'[q] = job[q]
  BY <1>7, AnswerFacts DEF InContext
<1>8. ASSUME NEW p \in Threads, wpc[p] \notin {"idle", "store"}
      PROVE  /\ job[p] # None /\ Dir(p) = Name[job[p].conn] /\ Dir(p) \in Names
             /\ Uninit(Call(p), Conn(p)) \in Answers
             /\ Ok(Call(p), cache[p[1]][Dir(p)]) \in Answers
  <2>1. Conn(p) \in Conns /\ Call(p) \in Calls /\ Dir(p) \in Names /\ p[1] \in Servers
    BY <1>8, JobFacts
  <2> QED BY <1>8, <2>1, AnswerTypes DEF TypeOK, Dir, Conn
<1>9. ASSUME NEW p \in Threads, Get(p) PROVE OneInContext'
  <2>1. wpc[p] \notin {"idle", "store"}
    BY <1>9 DEF Get
  <2>2. CASE Command(p, redis[p[1]][Key(p)]) /\ Goto(p, "getReply") /\ UNCHANGED <<job, spent>>
    <3>1. Key(p) = Name[job[p].conn] /\ Key(p) \in Names
      BY <1>8, <2>1 DEF Key, Dir
    <3>2. redis[p[1]][Key(p)] \in Clients \cup {None} /\ TextFits(owner, redis[p[1]][Key(p)], Name[job[p].conn])
      BY <1>0, <3>1 DEF TypeOK, RedisFits
    <3> QED BY <1>2, <2>2, <3>2
  <2>3. CASE Answer(p, Uninit(Call(p), Conn(p))) /\ UNCHANGED <<pending, overlapped>>
    BY <1>1, <1>7, <1>8, <2>1, <2>3
  <2> QED BY <1>9, <2>2, <2>3 DEF Get
<1>10. ASSUME NEW p \in Threads, GetReply(p) PROVE OneInContext'
  <2>1. InContext(p) /\ pending[p[1]] # <<>> /\ pending' = [pending EXCEPT ![p[1]] = Tail(@)]
        /\ wpc'[p] \in {"write", "del"}
        /\ \A q \in Threads : q # p => wpc'[q] = wpc[q] /\ job'[q] = job[q]
    BY <1>0, <1>10 DEF GetReply, Goto, InContext
  <2> QED BY <1>3, <2>1 DEF InContext
<1>11. ASSUME NEW p \in Threads, Del(p) PROVE OneInContext'
  <2>1. Command(p, None) /\ Goto(p, "delReply") /\ UNCHANGED job /\ wpc'[p] # "getReply"
    BY <1>0, <1>11 DEF Del, Goto
  <2> QED BY <1>2, <2>1
<1>12. ASSUME NEW p \in Threads, DelReply(p) PROVE OneInContext'
  <2>1. InContext(p) /\ wpc[p] \notin {"idle", "store"}
        /\ pending[p[1]] # <<>> /\ pending' = [pending EXCEPT ![p[1]] = Tail(@)]
    BY <1>12 DEF DelReply, InContext
  <2>2. CASE Answer(p, Uninit(Call(p), Conn(p)))
    BY <1>3, <1>7, <1>8, <2>1, <2>2
  <2>3. CASE Goto(p, "run") /\ UNCHANGED job
    <3>1. wpc'[p] = "run" /\ \A q \in Threads : q # p => wpc'[q] = wpc[q] /\ job'[q] = job[q]
      BY <1>0, <2>3 DEF Goto
    <3> QED BY <1>3, <2>1, <3>1 DEF InContext
  <2> QED BY <1>12, <2>2, <2>3 DEF DelReply
<1>13. ASSUME NEW p \in Threads, Run(p) PROVE OneInContext'
  <2>1. wpc[p] \notin {"idle", "store"} /\ UNCHANGED pending
        /\ Answer(p, Ok(Call(p), cache[p[1]][Dir(p)]))
    BY <1>13 DEF Run
  <2> QED BY <1>1, <1>7, <1>8, <2>1
<1>14. ASSUME NEW s \in Servers, Restart(s) PROVE OneInContext'
  <2>1. /\ pending' = [pending EXCEPT ![s] = <<>>]
        /\ \A p \in Threads : IF p[1] = s THEN wpc'[p] = "idle" ELSE wpc'[p] = wpc[p] /\ job'[p] = job[p]
    BY <1>0, <1>14 DEF Restart
  <2>2. \A t \in Servers : t # s => pending'[t] = pending[t]
    BY <1>0, <2>1
  <2>3. Len(<<>>) = 0 /\ pending'[s] = <<>>
    BY <1>0, <2>1
  <2>4. \A p \in Threads : InContext(p)' => InContext(p) /\ p[1] # s
    BY <2>1 DEF InContext
  <2>5. ASSUME NEW p \in Threads, wpc'[p] = "getReply"
        PROVE  TextFits(owner', pending'[p[1]][1], Name[job'[p].conn])
    <3>1. p[1] # s /\ wpc[p] = "getReply" /\ job'[p] = job[p] /\ pending'[p[1]] = pending[p[1]]
      BY <1>0, <2>1, <2>2, <2>5
    <3>2. TextFits(owner, pending[p[1]][1], Name[job[p].conn])
      BY <3>1 DEF OneInContext
    <3> QED BY <3>1, <3>2, TextKept
  <2>6. \A t \in Servers : Len(pending'[t]) <= 1
    BY <2>2, <2>3 DEF OneInContext
  <2>7. \A p \in Threads : InContext(p)' => pending'[p[1]] # <<>>
    BY <1>0, <2>2, <2>4 DEF OneInContext
  <2>8. \A p, q \in Threads : InContext(p)' /\ InContext(q)' /\ p[1] = q[1] => p = q
    BY <2>4 DEF OneInContext
  <2> QED BY <2>5, <2>6, <2>7, <2>8 DEF OneInContext, InContext
<1>15. CASE UNCHANGED <<pending, wpc, job>>
  BY <1>1, <1>15
<1> QED BY <1>4, <1>5, <1>6, <1>9, <1>10, <1>11, <1>12, <1>13, <1>14, <1>15 DEF Next, Thread, vars
-----------------------------------------------------------------------------
(* The theorems.                                                           *)

LEMMA InvStart == Init => Inv
<1> SUFFICES ASSUME Init PROVE Inv
  OBVIOUS
<1> USE DEF Init
<1>1. TypeOK
  <2>1. <<>> \in Seq(Calls) /\ <<>> \in Seq(Answers) /\ <<>> \in Seq(Jobs)
        /\ <<>> \in Seq(Clients \cup {None})
    OBVIOUS
  <2>2. 0 \in 0 .. MaxExecs /\ 0 \in 0 .. MaxUploads
    BY BoundsAssumption DEF MaxUploads
  <2>3. /\ reqs \in [Conns -> Seq(Calls)] /\ ans \in [Conns -> Seq(Answers)]
        /\ reply \in [Conns -> Seq(Answers)] /\ tasks \in [Servers -> Seq(Jobs)]
        /\ pending \in [Servers -> Seq(Clients \cup {None})]
    BY <2>1
  <2>4. /\ req \in [Clients -> 0 .. MaxExecs] /\ heard \in [Clients -> [Calls -> 0 .. MaxExecs]]
        /\ uploads \in [Conns -> 0 .. MaxUploads] /\ spent \in [DOMAIN Limit -> Nat]
    BY <2>2
  <2>5. /\ cache \in [Servers -> [Names -> Clients \cup {Empty, None}]]
        /\ redis \in [Servers -> [Names -> Clients \cup {None}]]
    OBVIOUS
  <2> QED BY <2>3, <2>4, <2>5 DEF TypeOK
<1>2. Opened
  BY DEF Opened
<1>3. \A s \in Servers : DOMAIN tasks[s] = {} /\ Len(pending[s]) = 0
  OBVIOUS
<1>4. Working /\ CacheServed
  BY <1>3 DEF Working, CacheServed
<1>5. Uploads /\ AnswersFit /\ TasksFit /\ JobsFit
  BY <1>3, EmptyFits DEF Uploads, AnswersFit, TasksFit, JobsFit
<1>6. CacheFits /\ RedisFits
  BY ValuesAssumption DEF CacheFits, RedisFits, TextFits
<1>7. OneInContext
  BY <1>3 DEF OneInContext, InContext, Threads
<1> QED BY <1>1, <1>2, <1>4, <1>5, <1>6, <1>7 DEF Inv, Fitting

\* Once two threads have met in the redisContext, that is known for good.
LEMMA OverlapStays == overlapped /\ [Next]_vars => overlapped'
<1> SUFFICES ASSUME overlapped, [Next]_vars PROVE overlapped'
  OBVIOUS
<1> USE DEF history
<1>1. ASSUME NEW c \in Clients, Client(c) \/ Timeout(c) PROVE UNCHANGED overlapped
  BY <1>1 DEF Client, Refresh, Exec, Receive, Eof, Timeout, SendScript
<1>2. ASSUME NEW k \in Conns, Loop(k) PROVE UNCHANGED overlapped
  BY <1>2 DEF Loop, Dispatch, Flush, CloseConn
<1>3. ASSUME NEW p \in Threads, Thread(p) PROVE overlapped => overlapped'
  BY <1>3 DEF Thread, Take, Access, Get, GetReply, Write, Del, DelReply, Run, Store, Command
<1>4. ASSUME NEW s \in Servers, Restart(s) PROVE UNCHANGED overlapped
  BY <1>4 DEF Restart
<1>5. UNCHANGED vars => UNCHANGED overlapped
  BY DEF vars
<1> QED BY <1>1, <1>2, <1>3, <1>4, <1>5 DEF Next

LEMMA InvStep == Inv /\ [Next]_vars => Inv'
<1> SUFFICES ASSUME Inv, [Next]_vars PROVE Inv'
  OBVIOUS
<1> USE DEF Inv
<1>1. TypeOK'
  BY TypeStep
<1>2. Opened'
  BY OpenedStep
<1>3. Working'
  BY <1>1, WorkingStep
<1>4. CacheServed'
  BY CacheServedStep
<1>5. overlapped => overlapped'
  BY OverlapStays
<1>6. CASE ~overlapped'
  <2>1. Fitting
    BY <1>5, <1>6
  <2>2. Uploads' /\ AnswersFit' /\ TasksFit' /\ JobsFit'
    BY <2>1, UploadsStep, AnswersStep, TasksStep, JobsStep DEF Fitting
  <2>3. CacheFits' /\ RedisFits' /\ OneInContext'
    BY <1>6, <2>1, CacheStep, RedisStep, ContextStep DEF Fitting
  <2> QED BY <1>1, <1>2, <1>3, <1>4, <2>2, <2>3 DEF Fitting
<1> QED BY <1>1, <1>2, <1>3, <1>4, <1>6

LEMMA InvAlways == Spec => []Inv
BY InvStart, InvStep, PTL DEF Spec

\* The types, and that a client that waits has a connection of its own.
THEOREM TypeCorrect == Spec => []TypeOK
<1>1. Inv => TypeOK
  BY DEF Inv
<1> QED BY <1>1, InvAlways, PTL

\* Whatever fails, restarts or comes late, and however names are reused: only the
\* text of a client that has, or had, the connection's name is executed for it,
\* as long as no two threads meet in the redisContext.
THEOREM OwnScripts == Spec => []OwnScript
<1>1. Inv => OwnScript
  <2> SUFFICES ASSUME Inv, ~overlapped, NEW k \in Conns, NEW a \in OnTheWay(k),
                      a.status = "ok", a.body \in Clients
               PROVE  a.body \in NamedAs(k)
    BY DEF OwnScript
  <2>1. Fits(owner, a, Name[k])
    <3>1. AllFit(owner, ans[k], Name[k]) /\ AllFit(owner, reply[k], Name[k])
      BY DEF Inv, Fitting, AnswersFit
    <3>2. \A p \in Threads : job[p] # None /\ Conn(p) = k => AllFit(owner, job[p].send, Name[k])
      BY DEF Inv, Fitting, JobsFit, Conn
    <3>3. \E q : AllFit(owner, q, Name[k]) /\ \E i \in DOMAIN q : a = q[i]
      BY <3>1, <3>2 DEF OnTheWay
    <3> QED BY <3>3 DEF AllFit
  <2>2. PICK j \in Conns : Name[j] = Name[k] /\ owner[j] = a.body
    BY <2>1 DEF Fits, Owns
  <2> QED BY <2>2, ValuesAssumption DEF NamedAs
<1> QED BY <1>1, InvAlways, PTL

\* A directory is left behind in the cache only for a connection that is served,
\* or that a thread outlived.
THEOREM CacheCleared == Spec => []CacheServed
<1>1. Inv => CacheServed
  BY DEF Inv
<1> QED BY <1>1, InvAlways, PTL
=============================================================================
