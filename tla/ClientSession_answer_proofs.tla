-------------------- MODULE ClientSession_answer_proofs ---------------------
(***************************************************************************)
(* What a call takes for its answer, and what is uploaded for it.  First   *)
(* for clients that never time out: the request or its answer is in one    *)
(* place, and its caller waits for it.                                     *)
(***************************************************************************)
EXTENDS ClientSession_proofs

\* Client c waits on connection k for the answer to call n.
Waits(k, n) == \E c \in Clients : pc[c] = "wait" /\ fd[c] = k /\ req[c] = n

\* What the server holds of connection k.
HasTask(k) == \E s \in Servers : \E i \in DOMAIN tasks[s] : tasks[s][i].conn = k
HasJob(k) == \E p \in Threads : job[p] # None /\ job[p].conn = k
Held(k) == reqs[k] # <<>> \/ HasTask(k) \/ HasJob(k) \/ reply[k] # <<>>

\* A connection's request, or the answer to it, is in one place.
OnePlace ==
  \A k \in Conns :
    /\ reqs[k] # <<>> => ~HasTask(k) /\ ~HasJob(k) /\ reply[k] = <<>>
    /\ HasTask(k) => ~HasJob(k) /\ reply[k] = <<>>
    /\ HasJob(k) => reply[k] = <<>>
    /\ Held(k) => ans[k] = <<>>
OneTask ==
  \A s \in Servers : \A i, j \in DOMAIN tasks[s] : tasks[s][i].conn = tasks[s][j].conn => i = j
OneJob ==
  \A p, q \in Threads : job[p] # None /\ job[q] # None /\ job[p].conn = job[q].conn => p = q

\* Wherever it is, its caller waits for it.
Asked(q, k) == Len(q) = 1 /\ Waits(k, q[1])
Answered(q, k) == Len(q) = 1 /\ Waits(k, q[1].req)
QueuesAwaited ==
  \A k \in Conns :
    /\ reqs[k] # <<>> => Asked(reqs[k], k)
    /\ reply[k] # <<>> => Answered(reply[k], k)
    /\ ans[k] # <<>> => Answered(ans[k], k)
TasksAwaited ==
  \A s \in Servers : \A i \in DOMAIN tasks[s] :
    tasks[s][i].send = <<>> /\ Asked(tasks[s][i].reqs, tasks[s][i].conn)
JobsAwaited ==
  \A p \in Threads : job[p] # None =>
    \/ wpc[p] = "store" /\ Answered(job[p].send, job[p].conn)
    \/ wpc[p] # "store" /\ job[p].send = <<>> /\ Asked(job[p].reqs, job[p].conn)

Serial == OnePlace /\ OneTask /\ OneJob /\ QueuesAwaited /\ TasksAwaited /\ JobsAwaited

\* A server that has ended a connection holds nothing of it.
Ended == \A k \in Conns : state[k] \in {"fin", "rst", "pipe"} => ~Held(k)

HeardOwn == \A c \in Clients : \A i \in Calls : heard[c][i] \in {0, i}

SInv == Serial /\ Ended /\ HeardOwn
-----------------------------------------------------------------------------
(* Lemmas.                                                                 *)

LEMMA WaitsSame ==
  ASSUME UNCHANGED <<pc, fd, req>>, NEW k, NEW n
  PROVE  Waits(k, n)' <=> Waits(k, n)
BY DEF Waits

\* Without time-outs none happens.
LEMMA NoTimeout ==
  ASSUME TypeOK, MaxTimeouts = 0, NEW c \in Clients
  PROVE  ~Timeout(c)
<1>1. spent["timeout"] \in Nat /\ Limit["timeout"] = MaxTimeouts
  BY Events DEF TypeOK, Limit
<1>2. \A n \in Nat : ~(n < 0)
  OBVIOUS
<1> QED BY <1>1, <1>2 DEF Timeout, Spend

LEMMA Longer ==
  ASSUME NEW S, NEW q \in Seq(S), NEW e \in S
  PROVE  /\ Append(q, e) \in Seq(S)
         /\ DOMAIN Append(q, e) = DOMAIN q \cup {Len(q) + 1} /\ Len(q) + 1 \notin DOMAIN q
         /\ Append(q, e)[Len(q) + 1] = e
         /\ \A i \in DOMAIN q : Append(q, e)[i] = q[i]
         /\ q = <<>> => Len(Append(q, e)) = 1 /\ Append(q, e)[1] = e
OBVIOUS

LEMMA TasksTyped ==
  ASSUME TypeOK, NEW s \in Servers, NEW i \in DOMAIN tasks[s]
  PROVE  /\ tasks[s][i] \in Jobs /\ tasks[s][i].conn \in Conns
         /\ tasks[s][i].reqs \in Seq(Calls) /\ tasks[s][i].send \in Seq(Answers)
<1>1. tasks[s] \in Seq(Jobs)
  BY DEF TypeOK
<1>2. tasks[s][i] \in Jobs
  BY <1>1
<1> QED BY <1>2 DEF Jobs

LEMMA JobsTyped ==
  ASSUME TypeOK, NEW p \in Threads, job[p] # None
  PROVE  /\ job[p] \in Jobs /\ job[p].conn \in Conns
         /\ job[p].reqs \in Seq(Calls) /\ job[p].send \in Seq(Answers)
<1>1. job[p] \in Jobs
  BY DEF TypeOK
<1> QED BY <1>1 DEF Jobs

\* What is on a connection is awaited, so a client that does not wait has nothing
\* on its connection.
LEMMA NothingUnawaited ==
  ASSUME TypeOK, Opened, Serial, NEW c \in Clients, fd[c] # None, pc[c] # "wait"
  PROVE  ~Held(fd[c]) /\ ans[fd[c]] = <<>>
<1>1. fd[c] \in Conns /\ owner[fd[c]] = c
  BY DEF TypeOK, Opened
<1>2. ~\E n : Waits(fd[c], n)
  BY <1>1, ValuesAssumption DEF Waits, Opened
<1>3. reqs[fd[c]] = <<>> /\ reply[fd[c]] = <<>> /\ ans[fd[c]] = <<>>
  BY <1>1, <1>2 DEF Serial, QueuesAwaited, Asked, Answered
<1>4. ~HasTask(fd[c])
  BY <1>2 DEF Serial, TasksAwaited, Asked, HasTask
<1>5. ~HasJob(fd[c])
  BY <1>2 DEF Serial, JobsAwaited, Asked, Answered, HasJob
<1> QED BY <1>3, <1>4, <1>5 DEF Held

\* A step that at most empties places, and keeps those waiting whose connections
\* it does not empty, keeps Serial.
Kept(p) ==
  job'[p] # None =>
    /\ job[p] # None /\ job'[p].conn = job[p].conn
    /\ job'[p].reqs = job[p].reqs /\ job'[p].send = job[p].send
    /\ (wpc'[p] = "store") <=> (wpc[p] = "store")
LEMMA Fewer ==
  ASSUME TypeOK, Serial,
         \A k \in Conns : /\ reqs'[k] \in {reqs[k], <<>>} /\ reply'[k] \in {reply[k], <<>>}
                          /\ ans'[k] \in {ans[k], <<>>},
         \A s \in Servers : tasks'[s] \in {tasks[s], <<>>},
         \A p \in Threads : Kept(p),
         \A k \in Conns : \A n : Waits(k, n) => Waits(k, n)' \/ (~Held(k)' /\ ans'[k] = <<>>)
  PROVE  Serial' /\ \A k \in Conns : Held(k)' => Held(k)
<1>0. /\ \A s \in Servers : \A i \in DOMAIN tasks[s] : tasks[s][i] \in Jobs /\ tasks[s][i].conn \in Conns
      /\ \A p \in Threads : job[p] # None => job[p] \in Jobs /\ job[p].conn \in Conns
  BY TasksTyped, JobsTyped
<1>1. \A s \in Servers : \A i \in DOMAIN tasks'[s] : tasks'[s] = tasks[s] /\ i \in DOMAIN tasks[s]
  <2>1. DOMAIN <<>> = {}
    OBVIOUS
  <2> QED BY <2>1
<1>2. \A k : HasTask(k)' => HasTask(k)
  BY <1>1 DEF HasTask
<1>3. \A k : HasJob(k)' => HasJob(k)
  BY DEF HasJob, Kept
<1>4. OnePlace' /\ \A k \in Conns : Held(k)' => Held(k)
  BY <1>2, <1>3 DEF Serial, OnePlace, Held
<1>5. OneTask' /\ OneJob'
  BY <1>1 DEF Serial, OneTask, OneJob, Kept
<1>6. QueuesAwaited'
  BY DEF Serial, QueuesAwaited, Held, Asked, Answered
<1>7. ASSUME NEW s \in Servers, NEW i \in DOMAIN tasks'[s]
      PROVE  tasks'[s][i].send = <<>> /\ Asked(tasks[s][i].reqs, tasks[s][i].conn)'
  <2>1. i \in DOMAIN tasks[s] /\ tasks'[s] = tasks[s] /\ tasks[s][i].conn \in Conns
    BY <1>0, <1>1
  <2>2. HasTask(tasks[s][i].conn)'
    BY <2>1 DEF HasTask
  <2> QED BY <2>1, <2>2 DEF Serial, TasksAwaited, Asked, Held
<1>8. ASSUME NEW p \in Threads, job'[p] # None
      PROVE  \/ wpc'[p] = "store" /\ Answered(job[p].send, job[p].conn)'
             \/ wpc'[p] # "store" /\ job'[p].send = <<>> /\ Asked(job[p].reqs, job[p].conn)'
  <2>1. /\ job[p] # None /\ job'[p].conn = job[p].conn /\ job[p].conn \in Conns
        /\ job'[p].reqs = job[p].reqs /\ job'[p].send = job[p].send
        /\ (wpc'[p] = "store") <=> (wpc[p] = "store")
    BY <1>0, <1>8 DEF Kept
  <2>2. HasJob(job[p].conn)'
    BY <1>8, <2>1 DEF HasJob
  <2>3. \A n : Waits(job[p].conn, n) => Waits(job[p].conn, n)'
    BY <2>1, <2>2 DEF Held
  <2> QED BY <2>1, <2>3 DEF Serial, JobsAwaited, Asked, Answered
<1> QED BY <1>4, <1>5, <1>6, <1>7, <1>8 DEF Serial, TasksAwaited, JobsAwaited
-----------------------------------------------------------------------------
(* A request goes its way.                                                 *)

\* exec: the request of a call is the only thing on the connection.
LEMMA AskStep ==
  ASSUME TypeOK, Opened, Serial, NEW c \in Clients, Exec(c), fd[c] # None,
         reqs' = [reqs EXCEPT ![fd[c]] = Append(@, NextCall(req[c]))],
         pc' = [pc EXCEPT ![c] = "wait"], UNCHANGED fd
  PROVE  Serial' /\ \A k \in Conns : k # fd[c] /\ Held(k)' => Held(k)
<1> PICK k \in Conns : k = fd[c]
  BY DEF TypeOK
<1>0. /\ k \in Conns /\ reqs \in [Conns -> Seq(Calls)] /\ NextCall(req[c]) \in Calls
      /\ req \in [Clients -> 0 .. MaxExecs] /\ pc[c] = "exec"
      /\ pc \in [Clients -> {"refresh", "exec", "wait", "upload", "dead"}]
  BY NextCallType DEF Exec, TypeOK, Opened
<1>1. ~Held(k) /\ ans[k] = <<>>
  BY <1>0, NothingUnawaited
<1>2. UNCHANGED <<reply, ans, tasks, job, wpc>> /\ req' = [req EXCEPT ![c] = NextCall(@)]
  BY DEF Exec, serverVars
<1>3. /\ Len(reqs'[k]) = 1 /\ reqs'[k][1] = NextCall(req[c])
      /\ \A l \in Conns : l # k => reqs'[l] = reqs[l]
  BY <1>0, <1>1, Longer DEF Held
<1>4. pc'[c] = "wait" /\ req'[c] = NextCall(req[c])
  BY <1>0, <1>2
<1>5. \A l, n : Waits(l, n) => Waits(l, n)'
  BY <1>0, <1>2 DEF Waits
<1>6. Asked(reqs[k], k)'
  BY <1>3, <1>4 DEF Asked, Waits
<1>7. ~HasTask(k) /\ ~HasJob(k) /\ reply[k] = <<>>
  BY <1>1 DEF Held
<1>8. \A l : HasTask(l)' = HasTask(l) /\ HasJob(l)' = HasJob(l)
  BY <1>2 DEF HasTask, HasJob
<1>9. OnePlace' /\ \A l \in Conns : l # k /\ Held(l)' => Held(l)
  BY <1>1, <1>2, <1>3, <1>7, <1>8 DEF Serial, OnePlace, Held
<1>10. OneTask' /\ OneJob'
  BY <1>2 DEF Serial, OneTask, OneJob
<1>11. QueuesAwaited'
  <2> SUFFICES ASSUME NEW l \in Conns
               PROVE  /\ reqs'[l] # <<>> => Asked(reqs[l], l)'
                      /\ reply'[l] # <<>> => Answered(reply[l], l)'
                      /\ ans'[l] # <<>> => Answered(ans[l], l)'
    BY DEF QueuesAwaited
  <2>1. CASE l = k
    BY <1>1, <1>2, <1>6, <1>7, <2>1
  <2>2. CASE l # k
    BY <1>2, <1>3, <1>5, <2>2 DEF Serial, QueuesAwaited, Asked, Answered
  <2> QED BY <2>1, <2>2
<1>12. TasksAwaited' /\ JobsAwaited'
  BY <1>2, <1>5 DEF Serial, TasksAwaited, JobsAwaited, Asked, Answered
<1> QED BY <1>9, <1>10, <1>11, <1>12 DEF Serial

LEMMA DispatchStep ==
  ASSUME TypeOK, Serial, NEW k \in Conns, Dispatch(k)
  PROVE  Serial' /\ \A l \in Conns : Held(l)' => Held(l)
<1> DEFINE e == [conn |-> k, reqs |-> reqs[k], send |-> reply[k], text |-> None]
<1>0. /\ tasks \in [Servers -> Seq(Jobs)] /\ reqs \in [Conns -> Seq(Calls)] /\ e \in Jobs
      /\ reqs[k] # <<>> /\ reqs' = [reqs EXCEPT ![k] = <<>>]
      /\ tasks' = [tasks EXCEPT ![server[k]] = Append(@, e)]
      /\ UNCHANGED <<pc, fd, req, reply, ans, job, wpc>>
  BY DEF Dispatch, TypeOK, Jobs, clientVars
<1>1. /\ ~HasTask(k) /\ ~HasJob(k) /\ reply[k] = <<>> /\ ans[k] = <<>> /\ Asked(reqs[k], k)
  BY <1>0 DEF Serial, OnePlace, QueuesAwaited, Held
<1>2. e.conn = k /\ e.reqs = reqs[k] /\ e.send = <<>>
  BY <1>1
<1> HIDE DEF e
<1>3. ASSUME NEW s \in Servers, NEW i \in DOMAIN tasks'[s]
      PROVE  \/ i \in DOMAIN tasks[s] /\ tasks'[s][i] = tasks[s][i]
             \/ s = server[k] /\ i = Len(tasks[s]) + 1 /\ tasks'[s][i] = e
  <2>1. CASE s = server[k]
    BY <1>0, <2>1, Longer
  <2>2. CASE s # server[k]
    BY <1>0, <2>2
  <2> QED BY <2>1, <2>2
<1>4. \A l : HasTask(l)' => l = k \/ HasTask(l)
  BY <1>2, <1>3 DEF HasTask
<1>5. \A l : HasJob(l)' = HasJob(l)
  BY <1>0 DEF HasJob
<1>6. \A l \in Conns : reqs'[l] = IF l = k THEN <<>> ELSE reqs[l]
  BY <1>0
<1>7. OnePlace' /\ \A l \in Conns : Held(l)' => Held(l)
  BY <1>0, <1>1, <1>4, <1>5, <1>6 DEF Serial, OnePlace, Held
<1>8. OneTask'
  <2> SUFFICES ASSUME NEW s \in Servers, NEW i \in DOMAIN tasks'[s], NEW j \in DOMAIN tasks'[s],
                      tasks'[s][i].conn = tasks'[s][j].conn
               PROVE  i = j
    BY DEF OneTask
  <2>1. \A m \in DOMAIN tasks[s] : tasks[s][m].conn # k
    BY <1>1 DEF HasTask
  <2> QED BY <1>2, <1>3, <2>1 DEF Serial, OneTask
<1>9. \A l, n : Waits(l, n)' <=> Waits(l, n)
  BY <1>0, WaitsSame
<1>10. OneJob' /\ JobsAwaited'
  BY <1>0, <1>9 DEF Serial, OneJob, JobsAwaited, Asked, Answered
<1>11. QueuesAwaited'
  BY <1>0, <1>6, <1>9 DEF Serial, QueuesAwaited, Asked, Answered
<1>12. TasksAwaited'
  BY <1>1, <1>2, <1>3, <1>9 DEF Serial, TasksAwaited, Asked
<1> QED BY <1>7, <1>8, <1>10, <1>11, <1>12 DEF Serial

\* The command threads' part: no queue of a connection changes.
LEMMA TakeStep ==
  ASSUME TypeOK, Working, Serial, NEW p \in Threads, Take(p)
  PROVE  Serial' /\ \A l \in Conns : Held(l)' => Held(l)
<1> DEFINE s == p[1]
<1> PICK j : j = tasks[s][1]
  OBVIOUS
<1>0. /\ s \in Servers /\ tasks \in [Servers -> Seq(Jobs)] /\ job \in [Threads -> Jobs \cup {None}]
      /\ wpc \in [Threads -> Steps] /\ job[p] = None /\ tasks[s] # <<>>
      /\ UNCHANGED <<pc, fd, req, reqs, reply, ans>>
  BY DEF Take, TypeOK, Threads, Steps, clientVars, connVars
<1>1. /\ 1 \in DOMAIN tasks[s] /\ j \in Jobs /\ j.conn \in Conns /\ j # None
      /\ job' = [job EXCEPT ![p] = j] /\ wpc' = [wpc EXCEPT ![p] = "access"]
      /\ tasks' = [tasks EXCEPT ![s] = Tail(@)]
  BY <1>0, Shorter, TasksTyped, JobsAssumption DEF Take, Goto
<1>2. /\ j.send = <<>> /\ Asked(j.reqs, j.conn) /\ HasTask(j.conn) /\ server[j.conn] = s
  BY <1>0, <1>1 DEF Serial, TasksAwaited, HasTask, Working, Known
<1> PICK k \in Conns : k = j.conn
  BY <1>1
<1>3. ~HasJob(k) /\ reqs[k] = <<>> /\ reply[k] = <<>> /\ ans[k] = <<>>
  BY <1>1, <1>2 DEF Serial, OnePlace, Held
<1>4. ASSUME NEW t \in Servers, NEW i \in DOMAIN tasks'[t]
      PROVE  \E m \in DOMAIN tasks[t] : /\ tasks'[t][i] = tasks[t][m]
                                        /\ m = IF t = s THEN i + 1 ELSE i
                                        /\ t = s => m # 1
  <2>1. CASE t = s
    <3>1. tasks'[t] = Tail(tasks[t]) /\ tasks[t] \in Seq(Jobs)
      BY <1>0, <1>1, <2>1
    <3>2. i + 1 \in DOMAIN tasks[t] /\ tasks'[t][i] = tasks[t][i + 1]
      BY <1>0, <2>1, <3>1, Shorter
    <3>3. i \in Nat \ {0}
      BY <3>1, <1>0, <2>1
    <3> QED BY <2>1, <3>2, <3>3
  <2>2. CASE t # s
    BY <1>0, <1>1, <2>2
  <2> QED BY <2>1, <2>2
<1>5. \A l : HasTask(l)' => HasTask(l)
  BY <1>4 DEF HasTask
<1>6. ~HasTask(k)'
  <2> SUFFICES ASSUME NEW t \in Servers, NEW m \in DOMAIN tasks[t], tasks[t][m].conn = k, t = s => m # 1
               PROVE  FALSE
    BY <1>4 DEF HasTask
  <2>1. t = s
    BY <1>2 DEF Working, Known
  <2> QED BY <1>1, <2>1 DEF Serial, OneTask
<1>7. /\ job'[p] = j /\ wpc'[p] = "access"
      /\ \A q \in Threads : q # p => job'[q] = job[q] /\ wpc'[q] = wpc[q]
  BY <1>0, <1>1
<1> HIDE DEF s
<1>8. \A l : HasJob(l)' => l = k \/ HasJob(l)
  BY <1>7 DEF HasJob
<1>9. OnePlace' /\ \A l \in Conns : Held(l)' => Held(l)
  BY <1>0, <1>2, <1>3, <1>5, <1>6, <1>8 DEF Serial, OnePlace, Held
<1>10. OneTask'
  <2> SUFFICES ASSUME NEW t \in Servers, NEW i \in DOMAIN tasks'[t], NEW m \in DOMAIN tasks'[t],
                      tasks'[t][i].conn = tasks'[t][m].conn
               PROVE  i = m
    BY DEF OneTask
  <2>1. i \in Int /\ m \in Int
    <3>1. tasks'[t] \in Seq(Jobs)
      BY <1>0, <1>1, Shorter DEF s
    <3> QED BY <3>1
  <2>2. CASE t = s
    <3>1. i + 1 = m + 1
      BY <1>4, <2>2 DEF Serial, OneTask
    <3> QED BY <2>1, <3>1
  <2>3. CASE t # s
    BY <1>4, <2>3 DEF Serial, OneTask
  <2> QED BY <2>2, <2>3
<1>11. \A l, n : Waits(l, n)' <=> Waits(l, n)
  BY <1>0, WaitsSame
<1>12. OneJob'
  BY <1>3, <1>7 DEF Serial, OneJob, HasJob
<1>13. QueuesAwaited'
  BY <1>0, <1>11 DEF Serial, QueuesAwaited, Asked, Answered
<1>14. TasksAwaited'
  BY <1>4, <1>11 DEF Serial, TasksAwaited, Asked
<1>15. JobsAwaited'
  BY <1>2, <1>7, <1>11 DEF Serial, JobsAwaited, Asked, Answered
<1> QED BY <1>9, <1>10, <1>12, <1>13, <1>14, <1>15 DEF Serial

LEMMA AnswerStep ==
  ASSUME TypeOK, Working, Serial, NEW p \in Threads, wpc[p] \notin {"idle", "store"},
         NEW a \in Answers, a.req = Call(p), Answer(p, a),
         UNCHANGED <<pc, fd, req, reqs, reply, ans, tasks>>
  PROVE  Serial' /\ \A l \in Conns : Held(l)' => Held(l)
<1>0. job[p] # None /\ job[p].reqs \in Seq(Calls) /\ job[p].reqs # <<>>
  BY JobFacts, JobsTyped DEF TypeOK, Working
<1> PICK k \in Conns : k = job[p].conn
  BY <1>0, JobsTyped
<1>1. /\ job[p].send = <<>> /\ Len(job[p].reqs) = 1 /\ Waits(k, job[p].reqs[1])
  BY <1>0 DEF Serial, JobsAwaited, Asked
<1>2. a.req = job[p].reqs[1]
  BY <1>0, Shorter DEF Call
<1>3. wpc'[p] = "store"
  BY <1>1 DEF Answer, Goto, TypeOK
<1>4. /\ job'[p] # None /\ job'[p].conn = k /\ job'[p].send = Append(<<>>, a)
      /\ \A q \in Threads : q # p => job'[q] = job[q] /\ wpc'[q] = wpc[q]
  BY <1>1, AnswerFacts
<1>5. <<>> \in Seq(Answers)
  OBVIOUS
<1>6. Len(job'[p].send) = 1 /\ job'[p].send[1].req = job[p].reqs[1]
  BY <1>2, <1>4, <1>5, Longer
<1>7. \A l, n : Waits(l, n)' <=> Waits(l, n)
  BY WaitsSame
<1>8. \A l : HasJob(l)' <=> HasJob(l)
  BY <1>0, <1>4 DEF HasJob
<1>9. \A l : HasTask(l)' <=> HasTask(l)
  BY DEF HasTask
<1>10. OnePlace' /\ \A l \in Conns : Held(l)' => Held(l)
  BY <1>8, <1>9 DEF Serial, OnePlace, Held
<1>11. OneTask' /\ OneJob'
  BY <1>0, <1>4 DEF Serial, OneTask, OneJob
<1>12. QueuesAwaited' /\ TasksAwaited'
  BY <1>7 DEF Serial, QueuesAwaited, TasksAwaited, Asked, Answered
<1>13. Answered(job[p].send, job[p].conn)'
  BY <1>1, <1>4, <1>6, <1>7 DEF Answered
<1>14. JobsAwaited'
  BY <1>3, <1>4, <1>7, <1>13 DEF Serial, JobsAwaited, Asked, Answered
<1> QED BY <1>10, <1>11, <1>12, <1>14 DEF Serial

LEMMA StoreStep ==
  ASSUME TypeOK, Working, Serial, NEW p \in Threads, Store(p)
  PROVE  Serial' /\ \A l \in Conns : Held(l)' => Held(l)
<1>0. /\ wpc[p] = "store" /\ job[p] # None
      /\ UNCHANGED <<pc, fd, req, reqs, ans, tasks>>
      /\ wpc'[p] = "idle" /\ job'[p] = None
      /\ \A t \in Threads : t # p => job'[t] = job[t] /\ wpc'[t] = wpc[t]
  BY DEF Store, Goto, TypeOK, clientVars, connVars
<1> PICK k \in Conns : k = job[p].conn
  BY <1>0, JobsTyped
<1> PICK q : q = job[p].send
  OBVIOUS
<1>1. Answered(q, k) /\ HasJob(k)
  BY <1>0 DEF Serial, JobsAwaited, HasJob
<1>2. /\ reqs[k] = <<>> /\ ~HasTask(k) /\ reply[k] = <<>> /\ ans[k] = <<>>
  BY <1>1 DEF Serial, OnePlace, Held
<1>3. /\ reply'[k] \in {<<>>, q}
      /\ \A l \in Conns : l # k => reply'[l] = reply[l]
  BY <1>2 DEF Store, TypeOK, Conn
<1>4. ~HasJob(k)' /\ \A l : HasJob(l)' => HasJob(l)
  BY <1>0 DEF Serial, OneJob, HasJob
<1>5. \A l : HasTask(l)' <=> HasTask(l)
  BY <1>0 DEF HasTask
<1>6. \A l, n : Waits(l, n)' <=> Waits(l, n)
  BY <1>0, WaitsSame
<1>7. OnePlace' /\ \A l \in Conns : Held(l)' => Held(l)
  BY <1>0, <1>1, <1>2, <1>3, <1>4, <1>5 DEF Serial, OnePlace, Held
<1>8. OneTask' /\ OneJob'
  BY <1>0 DEF Serial, OneTask, OneJob
<1>9. Len(q) = 1 /\ Waits(k, q[1].req)'
  BY <1>1, <1>6 DEF Answered
<1>10. reply'[k] # <<>> => Answered(reply[k], k)'
  BY <1>3, <1>9 DEF Answered
<1>11. QueuesAwaited'
  <2> SUFFICES ASSUME NEW l \in Conns
               PROVE  /\ reqs'[l] # <<>> => Asked(reqs[l], l)'
                      /\ reply'[l] # <<>> => Answered(reply[l], l)'
                      /\ ans'[l] # <<>> => Answered(ans[l], l)'
    BY DEF QueuesAwaited
  <2>1. CASE l = k
    BY <1>0, <1>2, <1>10, <2>1
  <2>2. CASE l # k
    BY <1>0, <1>3, <1>6, <2>2 DEF Serial, QueuesAwaited, Asked, Answered
  <2> QED BY <2>1, <2>2
<1>12. TasksAwaited' /\ JobsAwaited'
  BY <1>0, <1>6 DEF Serial, TasksAwaited, JobsAwaited, Asked, Answered
<1> QED BY <1>7, <1>8, <1>11, <1>12 DEF Serial

LEMMA FlushStep ==
  ASSUME TypeOK, Serial, NEW k \in Conns, Flush(k)
  PROVE  Serial' /\ \A l \in Conns : Held(l)' => Held(l)
<1>0. /\ UNCHANGED <<pc, fd, req, reqs, tasks, job, wpc>>
      /\ reply[k] # <<>> /\ reply'[k] = <<>>
      /\ \A l \in Conns : l # k => reply'[l] = reply[l] /\ ans'[l] = ans[l]
      /\ ans'[k] = ans[k] \/ ans'[k] = ans[k] \o reply[k]
      /\ reply[k] \in Seq(Answers)
  BY DEF Flush, TypeOK, clientVars
<1>1. /\ Answered(reply[k], k) /\ reqs[k] = <<>> /\ ~HasTask(k) /\ ~HasJob(k) /\ ans[k] = <<>>
  BY <1>0 DEF Serial, OnePlace, QueuesAwaited, Held
<1>2. ans'[k] \in {<<>>, reply[k]}
  BY <1>0, <1>1
<1>3. \A l, n : Waits(l, n)' <=> Waits(l, n)
  BY <1>0, WaitsSame
<1>4. \A l : (HasTask(l)' <=> HasTask(l)) /\ (HasJob(l)' <=> HasJob(l))
  BY <1>0 DEF HasTask, HasJob
<1>5. OnePlace' /\ \A l \in Conns : Held(l)' => Held(l)
  BY <1>0, <1>1, <1>4 DEF Serial, OnePlace, Held
<1>6. OneTask' /\ OneJob' /\ TasksAwaited' /\ JobsAwaited'
  BY <1>0, <1>3 DEF Serial, OneTask, OneJob, TasksAwaited, JobsAwaited, Asked, Answered
<1>7. ans'[k] # <<>> => Answered(ans[k], k)'
  BY <1>1, <1>2, <1>3 DEF Answered
<1>8. QueuesAwaited'
  <2> SUFFICES ASSUME NEW l \in Conns
               PROVE  /\ reqs'[l] # <<>> => Asked(reqs[l], l)'
                      /\ reply'[l] # <<>> => Answered(reply[l], l)'
                      /\ ans'[l] # <<>> => Answered(ans[l], l)'
    BY DEF QueuesAwaited
  <2>1. CASE l = k
    BY <1>0, <1>1, <1>7, <2>1
  <2>2. CASE l # k
    BY <1>0, <1>3, <2>2 DEF Serial, QueuesAwaited, Asked, Answered
  <2> QED BY <2>1, <2>2
<1> QED BY <1>5, <1>6, <1>8 DEF Serial
-----------------------------------------------------------------------------
(* Steps that empty places, or leave them.                                 *)

\* Fewer, for a step of a client that leaves the server's side alone.
LEMMA ClientsOnly ==
  ASSUME TypeOK, Serial, UNCHANGED <<reqs, reply, tasks, job, wpc>>,
         \A k \in Conns : ans'[k] \in {ans[k], <<>>},
         \A k \in Conns : \A n : Waits(k, n) => Waits(k, n)' \/ (~Held(k) /\ ans'[k] = <<>>)
  PROVE  Serial' /\ \A k \in Conns : Held(k)' => Held(k)
<1>1. \A k \in Conns : Held(k)' <=> Held(k)
  BY DEF Held, HasTask, HasJob
<1>2. \A p \in Threads : Kept(p)
  BY DEF Kept
<1> QED BY <1>1, <1>2, Fewer

LEMMA ReceiveStep ==
  ASSUME TypeOK, Opened, Serial, NEW c \in Clients, Receive(c)
  PROVE  /\ Serial' /\ \A k \in Conns : Held(k)' => Held(k)
         /\ ans[fd[c]][1].req = req[c]
<1> PICK k \in Conns : k = fd[c]
  BY DEF Receive, TypeOK
<1>1. /\ pc[c] = "wait" /\ ans[k] # <<>> /\ ans' = [ans EXCEPT ![k] = <<>>]
      /\ UNCHANGED <<fd, req, reqs, reply, tasks, job, wpc>>
      /\ \A d \in Clients : d # c => pc'[d] = pc[d]
  BY DEF Receive, Return, TypeOK, serverVars
<1>2. \A d \in Clients : fd[d] = k => d = c
  BY ValuesAssumption DEF Opened
<1>3. ~Held(k) /\ Answered(ans[k], k)
  BY <1>1 DEF Serial, OnePlace, QueuesAwaited
<1>4. \A l \in Conns : l # k => ans'[l] = ans[l]
  BY <1>1 DEF TypeOK
<1>5. ans'[k] = <<>>
  BY <1>1 DEF TypeOK
<1>6. \A l, n : l # k /\ Waits(l, n) => Waits(l, n)'
  BY <1>1 DEF Waits
<1>7. Serial' /\ \A l \in Conns : Held(l)' => Held(l)
  BY <1>1, <1>3, <1>4, <1>5, <1>6, ClientsOnly
<1>8. ans[k][1].req = req[c]
  BY <1>2, <1>3 DEF Answered, Waits
<1> QED BY <1>7, <1>8

LEMMA EofStep ==
  ASSUME TypeOK, Opened, Serial, Ended, NEW c \in Clients, Eof(c)
  PROVE  Serial' /\ \A k \in Conns : Held(k)' => Held(k)
<1> PICK k \in Conns : k = fd[c]
  BY DEF Eof, TypeOK
<1>1. /\ ans[k] = <<>> /\ state[k] \in {"fin", "rst", "pipe"}
      /\ UNCHANGED <<fd, req, reqs, reply, ans, tasks, job, wpc>>
      /\ \A d \in Clients : d # c => pc'[d] = pc[d]
  BY DEF Eof, Return, TypeOK, serverVars
<1>2. ~Held(k)
  BY <1>1 DEF Ended
<1>3. \A l, n : l # k /\ Waits(l, n) => Waits(l, n)'
  BY <1>1 DEF Waits
<1> QED BY <1>1, <1>2, <1>3, ClientsOnly

\* A step, away from the queues, of a client that does not wait.
LEMMA IdleClientStep ==
  ASSUME TypeOK, Opened, Serial, NEW c \in Clients, pc[c] # "wait",
         UNCHANGED <<reqs, reply, ans, tasks, job, wpc>>,
         \A d \in Clients : d # c => pc'[d] = pc[d] /\ fd'[d] = fd[d] /\ req'[d] = req[d]
  PROVE  Serial' /\ \A k \in Conns : Held(k)' => Held(k)
<1>1. \A k, n : Waits(k, n) => Waits(k, n)'
  BY DEF Waits
<1> QED BY <1>1, ClientsOnly

\* A restarted server holds nothing.
LEMMA RestartEmpties ==
  ASSUME TypeOK, Working, NEW s \in Servers, Restart(s)
  PROVE  /\ \A k \in Conns : /\ reqs'[k] \in {reqs[k], <<>>} /\ reply'[k] \in {reply[k], <<>>}
                             /\ k \in serving /\ server[k] = s => ~Held(k)'
         /\ \A p \in Threads : IF p[1] = s THEN job'[p] = None ELSE job'[p] = job[p] /\ wpc'[p] = wpc[p]
         /\ \A t \in Servers : tasks'[t] = IF t = s THEN <<>> ELSE tasks[t]
         /\ UNCHANGED <<pc, fd, req, heard, ans>>
<1>1. /\ \A k \in Conns : IF k \in serving /\ server[k] = s THEN reqs'[k] = <<>> /\ reply'[k] = <<>>
                                                              ELSE reqs'[k] = reqs[k] /\ reply'[k] = reply[k]
      /\ \A p \in Threads : IF p[1] = s THEN job'[p] = None ELSE job'[p] = job[p] /\ wpc'[p] = wpc[p]
      /\ \A t \in Servers : tasks'[t] = IF t = s THEN <<>> ELSE tasks[t]
      /\ UNCHANGED <<pc, fd, req, heard, ans>>
  BY DEF Restart, TypeOK, clientVars
<1>2. DOMAIN <<>> = {}
  OBVIOUS
<1>3. ASSUME NEW k \in Conns, k \in serving, server[k] = s PROVE ~Held(k)'
  <2>1. ~HasTask(k)'
    <3> SUFFICES ASSUME NEW t \in Servers, NEW i \in DOMAIN tasks'[t], tasks'[t][i].conn = k
                 PROVE  FALSE
      BY DEF HasTask
    <3>1. t # s /\ tasks'[t] = tasks[t]
      BY <1>1, <1>2
    <3> QED BY <1>3, <3>1 DEF Working, Known
  <2>2. ~HasJob(k)'
    <3> SUFFICES ASSUME NEW p \in Threads, job'[p] # None, job'[p].conn = k
                 PROVE  FALSE
      BY DEF HasJob
    <3>1. p[1] # s /\ job'[p] = job[p]
      BY <1>1
    <3> QED BY <1>3, <3>1 DEF Working, Known, Conn
  <2> QED BY <1>1, <1>3, <2>1, <2>2 DEF Held
<1> QED BY <1>1, <1>3

LEMMA RestartStep ==
  ASSUME TypeOK, Working, Serial, NEW s \in Servers, Restart(s)
  PROVE  /\ Serial' /\ \A k \in Conns : Held(k)' => Held(k)
         /\ \A k \in Conns : k \in serving /\ server[k] = s => ~Held(k)'
<1>1. \A p \in Threads : Kept(p)
  BY RestartEmpties DEF Kept
<1>2. \A k, n : Waits(k, n)' <=> Waits(k, n)
  BY RestartEmpties, WaitsSame
<1>3. \A t \in Servers : tasks'[t] \in {tasks[t], <<>>}
  BY RestartEmpties
<1> QED BY <1>1, <1>2, <1>3, RestartEmpties, Fewer

\* The other steps of a command thread: its event stays as it is.
LEMMA GoStep ==
  ASSUME TypeOK, Serial, NEW p \in Threads, UNCHANGED <<pc, fd, req, reqs, reply, ans, tasks>>,
         wpc[p] \notin {"idle", "store"}, wpc'[p] \notin {"idle", "store"},
         job'[p].conn = job[p].conn, job'[p].reqs = job[p].reqs, job'[p].send = job[p].send,
         \A q \in Threads : q # p => job'[q] = job[q] /\ wpc'[q] = wpc[q]
  PROVE  Serial' /\ \A k \in Conns : Held(k)' => Held(k)
<1>1. job[p] # None
  BY DEF TypeOK
<1>2. \A q \in Threads : Kept(q)
  BY <1>1 DEF Kept
<1>3. \A k, n : Waits(k, n)' <=> Waits(k, n)
  BY WaitsSame
<1> QED BY <1>2, <1>3, Fewer

\* A thread takes an event, stores its reply, answers its call, or goes on with its
\* event, of which at most the text changes.
LEMMA ThreadKinds ==
  ASSUME TypeOK, Working, NEW p \in Threads, Thread(p)
  PROVE  \/ Take(p) \/ Store(p)
         \/ /\ wpc[p] \notin {"idle", "store"} /\ UNCHANGED <<reply, tasks>>
            /\ \/ \E a \in Answers : a.req = Call(p) /\ Answer(p, a)
               \/ /\ wpc'[p] \notin {"idle", "store"} /\ job'[p] # None
                  /\ job'[p].conn = job[p].conn /\ job'[p].reqs = job[p].reqs /\ job'[p].send = job[p].send
                  /\ \A q \in Threads : q # p => job'[q] = job[q] /\ wpc'[q] = wpc[q]
<1> SUFFICES ASSUME ~Take(p), ~Store(p)
             PROVE  /\ wpc[p] \notin {"idle", "store"} /\ UNCHANGED <<reply, tasks>>
                    /\ \/ \E a \in Answers : a.req = Call(p) /\ Answer(p, a)
                       \/ /\ wpc'[p] \notin {"idle", "store"} /\ job'[p] # None
                          /\ job'[p].conn = job[p].conn /\ job'[p].reqs = job[p].reqs /\ job'[p].send = job[p].send
                          /\ \A q \in Threads : q # p => job'[q] = job[q] /\ wpc'[q] = wpc[q]
  OBVIOUS
<1>0. /\ wpc \in [Threads -> Steps] /\ job \in [Threads -> Jobs \cup {None}]
      /\ (wpc[p] = "idle") <=> (job[p] = None)
  BY DEF TypeOK, Steps
<1>1. wpc[p] \notin {"idle", "store"} /\ UNCHANGED <<reply, tasks>> /\ job[p] # None
  BY <1>0 DEF Thread, Access, Get, GetReply, Write, Del, DelReply, Run
<1>2. ASSUME NEW l \in Steps \ {"idle", "store"}, Goto(p, l), UNCHANGED job
      PROVE  /\ wpc'[p] \notin {"idle", "store"} /\ job'[p] # None
             /\ \A q \in Threads : q # p => job'[q] = job[q] /\ wpc'[q] = wpc[q]
  BY <1>0, <1>1, <1>2 DEF Goto
<1>3. CASE Access(p) \/ Write(p) \/ Del(p)
  <2>1. UNCHANGED job /\ \E l \in Steps \ {"idle", "store"} : Goto(p, l)
    BY <1>3 DEF Access, Write, Del, Steps
  <2> QED BY <1>1, <1>2, <2>1
<1>4. CASE Get(p) \/ DelReply(p) \/ Run(p)
  <2>1. \/ Answer(p, Uninit(Call(p), Conn(p))) \/ Answer(p, Ok(Call(p), cache[p[1]][Dir(p)]))
        \/ UNCHANGED job /\ \E l \in {"getReply", "run"} : Goto(p, l)
    BY <1>4 DEF Get, DelReply, Run
  <2>2. Conn(p) \in Conns /\ Call(p) \in Calls /\ Dir(p) \in Names /\ p[1] \in Servers
    BY <1>1, JobFacts
  <2>3. /\ Uninit(Call(p), Conn(p)) \in Answers /\ Uninit(Call(p), Conn(p)).req = Call(p)
        /\ Ok(Call(p), cache[p[1]][Dir(p)]) \in Answers /\ Ok(Call(p), cache[p[1]][Dir(p)]).req = Call(p)
    BY <2>2, AnswerTypes DEF Uninit, Ok, TypeOK
  <2> QED BY <1>1, <1>2, <2>1, <2>3 DEF Steps
<1>5. CASE GetReply(p)
  <2>1. wpc'[p] \in {"write", "del"} /\ \A q \in Threads : q # p => wpc'[q] = wpc[q]
    BY <1>0, <1>5 DEF GetReply, Goto
  <2>2. UNCHANGED job \/ \E x \in Clients : job' = [job EXCEPT ![p] = [@ EXCEPT !.text = x]]
    BY <1>5 DEF GetReply
  <2>3. job[p] \in Jobs
    BY <1>1, JobsTyped
  <2>4. ASSUME NEW x \in Clients
        PROVE  /\ [job[p] EXCEPT !.text = x] \in Jobs
               /\ [job[p] EXCEPT !.text = x].conn = job[p].conn
               /\ [job[p] EXCEPT !.text = x].reqs = job[p].reqs
               /\ [job[p] EXCEPT !.text = x].send = job[p].send
    BY <2>3 DEF Jobs
  <2>5. /\ job'[p] \in {job[p]} \cup {[job[p] EXCEPT !.text = x] : x \in Clients}
        /\ \A q \in Threads : q # p => job'[q] = job[q]
    BY <1>0, <2>2
  <2>6. /\ job'[p].conn = job[p].conn /\ job'[p].reqs = job[p].reqs /\ job'[p].send = job[p].send
        /\ job'[p] # None
    <3>1. CASE job'[p] = job[p]
      BY <1>1, <3>1
    <3>2. ASSUME NEW x \in Clients, job'[p] = [job[p] EXCEPT !.text = x]
          PROVE  /\ job'[p].conn = job[p].conn /\ job'[p].reqs = job[p].reqs /\ job'[p].send = job[p].send
                 /\ job'[p] # None
      BY <2>4, <3>2, JobsAssumption
    <3> QED BY <2>5, <3>1, <3>2
  <2> QED BY <1>1, <2>1, <2>5, <2>6
<1> QED BY <1>3, <1>4, <1>5 DEF Thread

LEMMA ThreadStep ==
  ASSUME TypeOK, Working, Serial, NEW p \in Threads, Thread(p)
  PROVE  Serial' /\ \A k \in Conns : Held(k)' => Held(k)
BY ThreadKinds, TakeStep, StoreStep, AnswerStep, GoStep, ThreadQuiet
-----------------------------------------------------------------------------
(* The theorem.                                                            *)

\* What a client's exec does: it asks, or there is nothing on its connection that
\* it adds to.
LEMMA ExecStep ==
  ASSUME TypeOK, Opened, Serial, Ended, NEW c \in Clients, Exec(c)
  PROVE  Serial' /\ Ended'
<1>0. /\ state \in [Conns -> States] /\ pc[c] = "exec"
      /\ UNCHANGED <<reply, ans, tasks, job, wpc>>
  BY DEF Exec, TypeOK, States, serverVars
<1>1. \A d \in Clients : d # c => pc'[d] = pc[d] /\ fd'[d] = fd[d] /\ req'[d] = req[d]
  BY DEF Exec, Return, TypeOK
<1>2. CASE UNCHANGED reqs
  <2>1. Serial' /\ \A k \in Conns : Held(k)' => Held(k)
    BY <1>0, <1>1, <1>2, IdleClientStep
  <2>2. \A k \in Conns : state'[k] \in {"fin", "rst", "pipe"} => state[k] \in {"fin", "rst", "pipe"}
    BY <1>0 DEF Exec
  <2> QED BY <2>1, <2>2 DEF Ended
<1>3. CASE /\ fd[c] # None /\ state[fd[c]] = "up" /\ UNCHANGED <<fd, state>>
           /\ reqs' = [reqs EXCEPT ![fd[c]] = Append(@, NextCall(req[c]))]
           /\ pc' = [pc EXCEPT ![c] = "wait"]
  <2>1. Serial' /\ \A k \in Conns : k # fd[c] /\ Held(k)' => Held(k)
    BY <1>3, AskStep
  <2> QED BY <1>3, <2>1 DEF Ended
<1> QED BY <1>2, <1>3 DEF Exec

LEMMA SInvStart == Init => SInv
<1> SUFFICES ASSUME Init PROVE SInv
  OBVIOUS
<1> USE DEF Init
<1>1. \A s \in Servers : DOMAIN tasks[s] = {}
  OBVIOUS
<1>2. \A k \in Conns : ~Held(k) /\ ~HasTask(k) /\ ~HasJob(k) /\ reqs[k] = <<>> /\ reply[k] = <<>> /\ ans[k] = <<>>
  BY <1>1 DEF Held, HasTask, HasJob
<1>3. OnePlace /\ QueuesAwaited /\ Ended
  BY <1>2 DEF OnePlace, QueuesAwaited, Ended
<1>4. OneTask /\ OneJob /\ TasksAwaited /\ JobsAwaited
  BY <1>1 DEF OneTask, OneJob, TasksAwaited, JobsAwaited
<1>5. HeardOwn
  BY DEF HeardOwn
<1> QED BY <1>3, <1>4, <1>5 DEF SInv, Serial

LEMMA HeardOwnStep ==
  ASSUME TypeOK, Opened, Serial, HeardOwn, [Next]_vars
  PROVE  HeardOwn'
<1>0. heard \in [Clients -> [Calls -> 0 .. MaxExecs]]
  BY DEF TypeOK
<1>1. CASE UNCHANGED heard
  BY <1>1 DEF HeardOwn
<1>2. ASSUME NEW c \in Clients, Exec(c) PROVE HeardOwn'
  <2>1. heard' = [heard EXCEPT ![c][NextCall(req[c])] = 0]
    BY <1>2 DEF Exec
  <2>2. \A d \in Clients : \A i \in Calls : heard'[d][i] \in {heard[d][i], 0}
    BY <1>0, <2>1
  <2> QED BY <2>2 DEF HeardOwn
<1>3. ASSUME NEW c \in Clients, Receive(c) PROVE HeardOwn'
  <2>0. fd[c] \in Conns /\ ans[fd[c]] # <<>> /\ ans[fd[c]] \in Seq(Answers)
    BY <1>3, ValuesAssumption DEF Receive, TypeOK
  <2>1. heard' = [heard EXCEPT ![c][req[c]] = ans[fd[c]][1].req]
    BY <1>3, <2>0, Shorter DEF Receive
  <2>2. ans[fd[c]][1].req = req[c]
    BY <1>3, ReceiveStep
  <2>3. \A d \in Clients : \A i \in Calls : heard'[d][i] = IF d = c /\ i = req[c] THEN req[c] ELSE heard[d][i]
    BY <1>0, <2>1, <2>2
  <2> QED BY <2>3 DEF HeardOwn
<1>4. ASSUME NEW c \in Clients, Refresh(c) \/ Eof(c) \/ Timeout(c) \/ SendScript(c) PROVE UNCHANGED heard
  BY <1>4 DEF Refresh, Eof, Timeout, SendScript
<1>5. ASSUME NEW k \in Conns, Loop(k) PROVE UNCHANGED heard
  BY <1>5 DEF Loop, Dispatch, Flush, CloseConn, clientVars
<1>6. ASSUME NEW p \in Threads, Thread(p) PROVE UNCHANGED heard
  BY <1>6, ThreadQuiet
<1>7. ASSUME NEW s \in Servers, Restart(s) PROVE UNCHANGED heard
  BY <1>7 DEF Restart, clientVars
<1>8. UNCHANGED vars => UNCHANGED heard
  BY DEF vars, clientVars
<1> QED BY <1>1, <1>2, <1>3, <1>4, <1>5, <1>6, <1>7, <1>8 DEF Next, Client

\* A refreshing client leaves a connection as it is, opens or closes it.
LEMMA RefreshStates ==
  ASSUME TypeOK, NEW c \in Clients, Refresh(c)
  PROVE  \A k \in Conns : state'[k] \in {"up", "closed", state[k]}
<1>1. state \in [Conns -> States]
  BY DEF TypeOK, States
<1>2. PICK s \in Servers \cup {servIP[c]} :
        LET left == IF s # servIP[c] /\ fd[c] # None THEN {fd[c]} ELSE {}
            now == [k \in Conns |-> IF k \in left THEN "closed" ELSE state[k]]
        IN  state' = now \/ state' = state \/ \E k \in Conns : state' = [now EXCEPT ![k] = "up"]
  BY Zenon DEF Refresh
<1> DEFINE left == IF s # servIP[c] /\ fd[c] # None THEN {fd[c]} ELSE {}
           now == [k \in Conns |-> IF k \in left THEN "closed" ELSE state[k]]
<1>3. now \in [Conns -> States] /\ \A k \in Conns : now[k] \in {"closed", state[k]}
  BY <1>1 DEF States
<1>4. state' = now \/ state' = state \/ \E k \in Conns : state' = [now EXCEPT ![k] = "up"]
  BY <1>2
<1> HIDE DEF now
<1> QED BY <1>3, <1>4

LEMMA SInvStep ==
  ASSUME MaxTimeouts = 0, TypeOK, Opened, Working, SInv, [Next]_vars
  PROVE  SInv'
<1> USE DEF SInv
<1>1. HeardOwn'
  BY HeardOwnStep
<1>2. ASSUME Serial', \A k \in Conns : Held(k)' => Held(k),
             \A k \in Conns : state'[k] \in {"fin", "rst", "pipe"} => state[k] \in {"fin", "rst", "pipe"}
      PROVE  SInv'
  BY <1>1, <1>2 DEF Ended
<1>3. ASSUME NEW c \in Clients, Refresh(c) PROVE SInv'
  <2>1. /\ pc[c] # "wait" /\ UNCHANGED <<req, reqs, ans, reply, tasks, wpc, job>>
        /\ \A d \in Clients : d # c => pc'[d] = pc[d]
    BY <1>3 DEF Refresh, TypeOK
  <2>2. \A d \in Clients : d # c => fd'[d] = fd[d]
    BY <1>3, RefreshFacts
  <2>3. \A k \in Conns : state'[k] \in {"up", "closed", state[k]}
    BY <1>3, RefreshStates
  <2>4. Serial' /\ \A k \in Conns : Held(k)' => Held(k)
    BY <2>1, <2>2, IdleClientStep
  <2> QED BY <1>2, <2>3, <2>4
<1>4. ASSUME NEW c \in Clients, Exec(c) PROVE SInv'
  BY <1>1, <1>4, ExecStep
<1>5. ASSUME NEW c \in Clients, Receive(c) PROVE SInv'
  <2>1. UNCHANGED state
    BY <1>5 DEF Receive
  <2> QED BY <1>2, <1>5, <2>1, ReceiveStep
<1>6. ASSUME NEW c \in Clients, Eof(c) PROVE SInv'
  <2>1. \A k \in Conns : state'[k] \in {"fin", "rst", "pipe"} => state[k] \in {"fin", "rst", "pipe"}
    BY <1>6 DEF Eof, TypeOK
  <2> QED BY <1>2, <1>6, <2>1, EofStep
<1>7. ASSUME NEW c \in Clients, SendScript(c) PROVE SInv'
  <2>1. /\ pc[c] # "wait" /\ UNCHANGED <<fd, req, state, reqs, ans, reply, tasks, wpc, job>>
        /\ \A d \in Clients : d # c => pc'[d] = pc[d]
    BY <1>7 DEF SendScript, Return, TypeOK, connVars, serverVars
  <2> QED BY <1>2, <2>1, IdleClientStep
<1>8. ASSUME NEW k \in Conns, Dispatch(k) PROVE SInv'
  <2>1. UNCHANGED state
    BY <1>8 DEF Dispatch
  <2> QED BY <1>2, <1>8, <2>1, DispatchStep
<1>9. ASSUME NEW k \in Conns, Flush(k) PROVE SInv'
  <2>1. UNCHANGED state
    BY <1>9 DEF Flush
  <2> QED BY <1>2, <1>9, <2>1, FlushStep
<1>10. CASE UNCHANGED <<pc, fd, req, state, reqs, ans, reply, tasks, wpc, job>>
  <2>1. \A k, n : Waits(k, n) => Waits(k, n)'
    BY <1>10, WaitsSame
  <2> QED BY <1>2, <1>10, <2>1, ClientsOnly
<1>11. ASSUME NEW k \in Conns, CloseConn(k) PROVE SInv'
  BY <1>10, <1>11 DEF CloseConn, clientVars, connVars
<1>12. ASSUME NEW p \in Threads, Thread(p) PROVE SInv'
  BY <1>2, <1>12, ThreadStep, ThreadQuiet
<1>13. ASSUME NEW s \in Servers, Restart(s) PROVE SInv'
  <2>1. \A k \in Conns : (k \in serving /\ server[k] = s) \/ state'[k] = state[k]
    BY <1>13 DEF Restart, TypeOK
  <2> QED BY <1>1, <1>13, <2>1, RestartStep DEF Ended
<1>14. CASE UNCHANGED vars
  BY <1>10, <1>14 DEF vars, clientVars, connVars, serverVars
<1> QED BY <1>3, <1>4, <1>5, <1>6, <1>7, <1>8, <1>9, <1>11, <1>12, <1>13, <1>14, NoTimeout
        DEF Next, Client, Loop

\* Without time-outs a call takes nothing but its own answer, whatever fails,
\* restarts or moves, and however names are reused: no answer is left over,
\* doubled, or given to another.
THEOREM OwnAnswers == Spec => []OwnAnswer
<1>1. Init => (MaxTimeouts = 0 => SInv)
  BY SInvStart
<1>2. Inv /\ (MaxTimeouts = 0 => SInv) /\ [Next]_vars => (MaxTimeouts = 0 => SInv)'
  BY SInvStep DEF Inv
<1>3. (MaxTimeouts = 0 => SInv) => OwnAnswer
  BY DEF SInv, HeardOwn, OwnAnswer
<1> QED BY <1>1, <1>2, <1>3, InvAlways, PTL DEF Spec
-----------------------------------------------------------------------------
(* One upload is enough: a script that was uploaded is found in redis, and *)
(* after that in the cache, as long as its connection is served.           *)

\* A closed connection leaves nothing at the server, so no thread outlives it.
Closed == \A k \in Conns : state[k] = "closed" => ~Held(k)

\* What is served has a server, and no name there but its own.
ServedApart ==
  /\ \A k \in serving : server[k] \in Servers
  /\ \A j, k \in serving : Name[j] = Name[k] => j = k

\* A client's connection is one to its server; a new one is not used.
Homes == \A c \in Clients : fd[c] # None => server[fd[c]] = servIP[c]
Unused == \A k \in Conns : state[k] = "new" => uploads[k] = 0

\* What a thread knows of its cache directory: it asks redis only for want of a
\* file, and what it was given is, or was, written there.
Fresh == \A p \in Threads : wpc[p] \in {"access", "get", "getReply"} => job[p].text = None
Missing == \A p \in Threads : wpc[p] = "get" => cache[p[1]][Dir(p)] = None
Cached ==
  \A p \in Threads :
    /\ wpc[p] = "write" => job[p].text # None
    /\ wpc[p] \in {"write", "del", "delReply"} /\ job[p].text # None => cache[p[1]][Dir(p)] # None

\* An upload for connection k is, or will be, asked for.
SaysUninit(q) == \E i \in DOMAIN q : q[i].status = "uninit"
NoText(p) ==
  /\ job[p].text = None
  /\ wpc[p] \in {"del", "delReply"} \/ (wpc[p] = "getReply" /\ pending[p[1]][1] = None)
Unmet(k) ==
  \/ SaysUninit(ans[k]) \/ SaysUninit(reply[k])
  \/ \E p \in Threads : job[p] # None /\ job[p].conn = k /\ (SaysUninit(job[p].send) \/ NoText(p))
  \/ \E c \in Clients : pc[c] = "upload" /\ fd[c] = k

\* It is asked for at most once more than redis could not be reached; when that
\* often was met, the script is there.
Charged == \A k \in Conns : Unmet(k) => uploads[k] <= spent.fault
Bounded == \A k \in Conns : uploads[k] <= 1 + spent.fault
Stored ==
  \A k \in serving : uploads[k] > spent.fault =>
    redis[server[k]][Name[k]] # None \/ cache[server[k]][Name[k]] # None

Placed == Closed /\ outlived = {} /\ ServedApart /\ Homes /\ Unused
UInv == Placed /\ Fresh /\ Missing /\ Cached /\ Charged /\ Bounded /\ Stored

\* Requests and answers do not appear out of nothing: a client asks.
LEMMA HeldKept ==
  ASSUME TypeOK, Working, [Next]_vars, NEW k \in Conns, Held(k)'
  PROVE  \/ Held(k)
         \/ \E c \in Clients : Exec(c) /\ fd[c] = k /\ state[k] = "up" /\ UNCHANGED state
<1>0. /\ reqs \in [Conns -> Seq(Calls)] /\ reply \in [Conns -> Seq(Answers)]
      /\ tasks \in [Servers -> Seq(Jobs)]
  BY DEF TypeOK
<1>1. CASE HasTask(k)'
  <2>1. PICK s \in Servers : \E i \in DOMAIN tasks'[s] : tasks'[s][i].conn = k
    BY <1>1 DEF HasTask
  <2>2. PICK i \in DOMAIN tasks'[s] : tasks'[s][i].conn = k
    BY <2>1
  <2>3. ASSUME NEW l \in Conns, Dispatch(l),
               tasks'[s][i] = [conn |-> l, reqs |-> reqs[l], send |-> reply[l], text |-> None]
        PROVE  reqs[k] # <<>>
    <3>1. l = k
      BY <2>2, <2>3
    <3> QED BY <2>3, <3>1 DEF Dispatch
  <2>4. ASSUME NEW j \in DOMAIN tasks[s], tasks'[s][i] = tasks[s][j] PROVE HasTask(k)
    BY <2>2, <2>4 DEF HasTask
  <2> QED BY <2>3, <2>4, TaskOrigin DEF Held
<1>2. CASE HasJob(k)'
  <2>1. PICK p \in Threads : job'[p] # None /\ job'[p].conn = k
    BY <1>2 DEF HasJob
  <2>2. \/ job[p] # None /\ job[p].conn = k
        \/ tasks[p[1]] # <<>> /\ tasks[p[1]][1].conn = k
    BY <2>1, JobOrigin
  <2>3. p[1] \in Servers /\ (tasks[p[1]] # <<>> => 1 \in DOMAIN tasks[p[1]])
    BY <1>0, Shorter DEF Threads
  <2> QED BY <2>2, <2>3 DEF Held, HasTask, HasJob
<1>3. CASE reqs'[k] # <<>> /\ reqs[k] = <<>>
  <2>1. ASSUME NEW c \in Clients, Exec(c)
        PROVE  \E d \in Clients : Exec(d) /\ fd[d] = k /\ state[k] = "up" /\ UNCHANGED state
    <3>1. fd[c] # None /\ state[fd[c]] = "up" /\ UNCHANGED state
          /\ reqs' = [reqs EXCEPT ![fd[c]] = Append(@, NextCall(req[c]))]
      BY <1>3, <2>1 DEF Exec
    <3>2. fd[c] = k
      BY <1>0, <1>3, <3>1
    <3> QED BY <2>1, <3>1, <3>2
  <2>2. ASSUME NEW c \in Clients, Refresh(c) \/ Receive(c) \/ Eof(c) \/ Timeout(c) \/ SendScript(c) PROVE FALSE
    BY <1>3, <2>2 DEF Refresh, Receive, Eof, Timeout, SendScript, connVars
  <2>3. ASSUME NEW l \in Conns, Loop(l) PROVE FALSE
    BY <1>0, <1>3, <2>3 DEF Loop, Dispatch, Flush, CloseConn, connVars
  <2>4. ASSUME NEW p \in Threads, Thread(p) PROVE FALSE
    BY <1>3, <2>4, ThreadQuiet
  <2>5. ASSUME NEW s \in Servers, Restart(s) PROVE FALSE
    BY <1>3, <2>5, RestartEmpties
  <2>6. ~UNCHANGED vars
    BY <1>3 DEF vars, connVars
  <2> QED BY <2>1, <2>2, <2>3, <2>4, <2>5, <2>6 DEF Next, Client
<1>4. CASE reply'[k] # <<>> /\ reply[k] = <<>>
  <2>1. ASSUME NEW c \in Clients, Client(c) \/ Timeout(c) PROVE FALSE
    BY <1>4, <2>1 DEF Client, Refresh, Exec, Receive, Eof, Timeout, SendScript, serverVars
  <2>2. ASSUME NEW l \in Conns, Loop(l) PROVE FALSE
    BY <1>0, <1>4, <2>2 DEF Loop, Dispatch, Flush, CloseConn, serverVars
  <2>3. ASSUME NEW p \in Threads, Thread(p) PROVE HasJob(k)
    <3>1. CASE Store(p)
      <4>1. Conn(p) = k /\ wpc[p] = "store"
        BY <1>0, <1>4, <3>1 DEF Store
      <4> QED BY <4>1 DEF HasJob, Conn, TypeOK
    <3>2. ~Take(p)
      BY <1>4 DEF Take
    <3> QED BY <1>4, <2>3, <3>1, <3>2, ThreadKinds
  <2>4. ASSUME NEW s \in Servers, Restart(s) PROVE FALSE
    BY <1>4, <2>4, RestartEmpties
  <2>5. ~UNCHANGED vars
    BY <1>4 DEF vars, serverVars
  <2> QED BY <2>1, <2>2, <2>3, <2>4, <2>5 DEF Next, Held
<1> QED BY <1>1, <1>2, <1>3, <1>4 DEF Held

\* Which connections a refreshing client opens and closes.
LEMMA RefreshPlaces ==
  ASSUME TypeOK, NEW c \in Clients, Refresh(c)
  PROVE  /\ \A k \in Conns : state'[k] = "closed" => state[k] = "closed" \/ k = fd[c]
         /\ fd'[c] # None => server'[fd'[c]] = servIP'[c] \/ UNCHANGED <<fd, servIP, server>>
         /\ \A d \in Clients : d # c => servIP'[d] = servIP[d]
         /\ \/ UNCHANGED <<serving, server>>
            \/ \E k \in Conns : /\ state[k] = "new" /\ Free(Name[k]) /\ server'[k] \in Servers
                                /\ serving' = serving \cup {k}
                                /\ \A l \in Conns : l # k => server'[l] = server[l]
<1>0. /\ state \in [Conns -> States] /\ fd \in [Clients -> Conns \cup {None}]
      /\ servIP \in [Clients -> Servers \cup {None}] /\ server \in [Conns -> Servers \cup {None}]
  BY DEF TypeOK, States
<1>1. PICK s \in Servers \cup {servIP[c]} :
        LET moved == s # servIP[c]
            left == IF moved /\ fd[c] # None THEN {fd[c]} ELSE {}
            now == [k \in Conns |-> IF k \in left THEN "closed" ELSE state[k]] IN
        /\ servIP' = [servIP EXCEPT ![c] = s]
        /\ \/ /\ ~moved /\ fd[c] # None
              /\ UNCHANGED <<fd, state, owner, server, serving>>
           \/ /\ s # None
              /\ \E k \in Conns : Connect(c, k, s) /\ state' = [now EXCEPT ![k] = "up"]
           \/ /\ fd' = [fd EXCEPT ![c] = None] /\ state' = now
              /\ UNCHANGED <<owner, server, serving>>
  BY Zenon DEF Refresh
<1> DEFINE left == IF s # servIP[c] /\ fd[c] # None THEN {fd[c]} ELSE {}
           now == [k \in Conns |-> IF k \in left THEN "closed" ELSE state[k]]
<1>2. /\ now \in [Conns -> States]
      /\ \A k \in Conns : now[k] = "closed" => state[k] = "closed" \/ k = fd[c]
  BY <1>0 DEF States
<1>3. servIP' = [servIP EXCEPT ![c] = s]
  BY <1>1, Zenon
<1>4. servIP'[c] = s /\ \A d \in Clients : d # c => servIP'[d] = servIP[d]
  BY <1>0, <1>3
<1> HIDE DEF now
<1>5. CASE s = servIP[c] /\ fd[c] # None /\ UNCHANGED <<fd, state, owner, server, serving>>
  <2>1. UNCHANGED servIP
    BY <1>0, <1>3, <1>5
  <2> QED BY <1>4, <1>5, <2>1
<1>6. CASE s # None /\ \E k \in Conns : Connect(c, k, s) /\ state' = [now EXCEPT ![k] = "up"]
  <2>1. PICK k \in Conns : Connect(c, k, s) /\ state' = [now EXCEPT ![k] = "up"]
    BY <1>6
  <2>2. /\ state[k] = "new" /\ Free(Name[k]) /\ serving' = serving \cup {k}
        /\ fd' = [fd EXCEPT ![c] = k] /\ server' = [server EXCEPT ![k] = s]
    BY <2>1 DEF Connect
  <2>3. s \in Servers
    BY <1>0, <1>6
  <2>4. fd'[c] = k /\ server'[k] = s /\ \A l \in Conns : l # k => server'[l] = server[l]
    BY <1>0, <2>2
  <2>5. \A l \in Conns : state'[l] = "closed" => now[l] = "closed"
    BY <1>2, <2>1
  <2> QED BY <1>2, <1>4, <2>2, <2>3, <2>4, <2>5
<1>7. CASE fd' = [fd EXCEPT ![c] = None] /\ state' = now /\ UNCHANGED <<owner, server, serving>>
  <2>1. fd'[c] = None
    BY <1>0, <1>7
  <2> QED BY <1>2, <1>4, <1>7, <2>1
<1> QED BY <1>1, <1>5, <1>6, <1>7 DEF now

\* A client closes a connection only when nothing of it is left at the server.
LEMMA ClosedStep ==
  ASSUME MaxTimeouts = 0, TypeOK, Opened, Working, Serial, Ended, Closed, [Next]_vars
  PROVE  Closed'
<1> SUFFICES ASSUME NEW k \in Conns, state'[k] = "closed", Held(k)'
             PROVE  FALSE
  BY DEF Closed
<1>0. state \in [Conns -> States] /\ fd \in [Clients -> Conns \cup {None}]
  BY DEF TypeOK, States
<1>1. Held(k) /\ state[k] # "closed"
  BY HeldKept DEF Closed
<1>2. ASSUME NEW c \in Clients, Refresh(c) PROVE FALSE
  <2>1. k = fd[c] /\ k # None /\ pc[c] # "wait"
    BY <1>1, <1>2, RefreshPlaces, ValuesAssumption DEF Refresh
  <2> QED BY <1>1, <2>1, NothingUnawaited
<1>3. ASSUME NEW c \in Clients, Exec(c) PROVE FALSE
  <2>1. k = fd[c] /\ state[k] = "rst"
    BY <1>0, <1>1, <1>3 DEF Exec
  <2> QED BY <1>1, <2>1 DEF Ended
<1>4. ASSUME NEW c \in Clients, Receive(c) \/ Eof(c) \/ SendScript(c) PROVE FALSE
  BY <1>0, <1>1, <1>4 DEF Receive, Eof, SendScript, connVars
<1>5. ASSUME NEW l \in Conns, Loop(l) PROVE FALSE
  BY <1>1, <1>5 DEF Loop, Dispatch, Flush, CloseConn, connVars
<1>6. ASSUME NEW p \in Threads, Thread(p) PROVE FALSE
  BY <1>1, <1>6, ThreadQuiet
<1>7. ASSUME NEW s \in Servers, Restart(s) PROVE FALSE
  BY <1>0, <1>1, <1>7 DEF Restart
<1>8. CASE UNCHANGED vars
  BY <1>1, <1>8 DEF vars, connVars
<1> QED BY <1>2, <1>3, <1>4, <1>5, <1>6, <1>7, <1>8, NoTimeout DEF Next, Client

\* No thread is to execute for a closed connection.
LEMMA NotBusy ==
  ASSUME Closed, ServedApart, NEW k \in serving, k \in Conns, state[k] = "closed"
  PROVE  ~Busy(k)
<1>1. server[k] \in Servers /\ ~Held(k)
  BY DEF Closed, ServedApart
<1> QED BY <1>1 DEF Busy, Conn, Held, HasTask, HasJob

LEMMA PlacedStep ==
  ASSUME MaxTimeouts = 0, TypeOK, Opened, Working, Serial, Ended, Placed, [Next]_vars
  PROVE  Placed'
<1> USE DEF Placed
<1>0. /\ fd \in [Clients -> Conns \cup {None}] /\ serving \subseteq Conns
      /\ server \in [Conns -> Servers \cup {None}]
  BY DEF TypeOK
<1>1. Closed'
  BY ClosedStep
<1>2. ASSUME UNCHANGED outlived, UNCHANGED <<servIP, server>>, serving' \subseteq serving,
             \A c \in Clients : fd'[c] \in {fd[c], None},
             \A k \in Conns : state'[k] = "new" => state[k] = "new" /\ uploads'[k] = uploads[k]
      PROVE  Placed'
  <2>1. ServedApart'
    BY <1>2 DEF ServedApart
  <2>2. Homes'
    BY <1>2 DEF Homes
  <2>3. Unused'
    BY <1>2 DEF Unused
  <2> QED BY <1>1, <1>2, <2>1, <2>2, <2>3
<1>3. ASSUME NEW c \in Clients, Refresh(c) PROVE Placed'
  <2>1. UNCHANGED <<outlived, uploads>>
    BY <1>3 DEF Refresh, history
  <2>2. ServedApart'
    <3>1. CASE UNCHANGED <<serving, server>>
      BY <3>1 DEF ServedApart
    <3>2. ASSUME NEW k \in Conns, Free(Name[k]), server'[k] \in Servers, serving' = serving \cup {k},
                 \A l \in Conns : l # k => server'[l] = server[l]
          PROVE  ServedApart'
      <4>1. \A l \in serving : Name[l] # Name[k]
        BY <1>0, <3>2 DEF Free
      <4> QED BY <1>0, <3>2, <4>1 DEF ServedApart
    <3> QED BY <1>3, <3>1, <3>2, RefreshPlaces
  <2>3. Homes'
    <3> SUFFICES ASSUME NEW d \in Clients, fd'[d] # None PROVE server'[fd'[d]] = servIP'[d]
      BY DEF Homes
    <3>1. CASE d = c
      BY <1>3, <3>1, RefreshPlaces DEF Homes
    <3>2. CASE d # c
      <4>1. fd'[d] = fd[d] /\ servIP'[d] = servIP[d] /\ fd[d] \in Conns
        BY <1>0, <1>3, <3>2, RefreshFacts, RefreshPlaces
      <4>2. server'[fd[d]] = server[fd[d]]
        BY <1>3, <4>1, RefreshFacts DEF Opened
      <4> QED BY <4>1, <4>2 DEF Homes
    <3> QED BY <3>1, <3>2
  <2>4. Unused'
    BY <1>3, <2>1, RefreshFacts DEF Unused
  <2> QED BY <1>1, <2>1, <2>2, <2>3, <2>4
<1>4. ASSUME NEW c \in Clients, Exec(c) PROVE Placed'
  <2>1. UNCHANGED <<outlived, servIP, server, serving, uploads>>
    BY <1>4 DEF Exec, serverVars, history
  <2> QED BY <1>2, <1>4, <2>1, ExecFacts
<1>5. ASSUME NEW c \in Clients, Receive(c) \/ Eof(c) PROVE Placed'
  <2>1. UNCHANGED <<outlived, servIP, server, serving, uploads, fd>>
    BY <1>5 DEF Receive, Eof, serverVars, history
  <2>2. \A k \in Conns : state'[k] = "new" => state[k] = "new"
    BY <1>5 DEF Receive, Eof, TypeOK
  <2> QED BY <1>2, <2>1, <2>2
<1>6. ASSUME NEW c \in Clients, SendScript(c) PROVE Placed'
  <2>1. UNCHANGED <<outlived, servIP, server, serving, fd, state>>
    BY <1>6 DEF SendScript, serverVars, connVars
  <2>2. uploads' \in {uploads, [uploads EXCEPT ![fd[c]] = uploads'[fd[c]]]} /\ state[fd[c]] # "new"
    BY <1>6 DEF SendScript, Opened, TypeOK
  <2>3. \A k \in Conns : state[k] = "new" => uploads'[k] = uploads[k]
    BY <2>2 DEF TypeOK
  <2> QED BY <1>2, <2>1, <2>3
<1>7. ASSUME NEW k \in Conns, Dispatch(k) \/ Flush(k) PROVE Placed'
  BY <1>2, <1>7 DEF Dispatch, Flush, clientVars, serverVars, history
<1>8. ASSUME NEW k \in Conns, CloseConn(k) PROVE Placed'
  <2>1. UNCHANGED outlived
    BY <1>8, NotBusy DEF CloseConn
  <2> QED BY <1>2, <1>8, <2>1 DEF CloseConn, clientVars, connVars
<1>9. ASSUME NEW p \in Threads, Thread(p) PROVE Placed'
  <2>1. UNCHANGED uploads
    BY <1>9 DEF Thread, Take, Access, Get, GetReply, Write, Del, DelReply, Run, Store, history
  <2> QED BY <1>2, <1>9, <2>1, ThreadQuiet
<1>10. ASSUME NEW s \in Servers, Restart(s) PROVE Placed'
  <2>1. \A k \in Conns : state'[k] = "new" => state[k] = "new"
    BY <1>10 DEF Restart
  <2> QED BY <1>2, <1>10, <2>1 DEF Restart, clientVars, history
<1>11. CASE UNCHANGED vars
  BY <1>2, <1>11 DEF vars, clientVars, connVars, serverVars, history
<1> QED BY <1>3, <1>4, <1>5, <1>6, <1>7, <1>8, <1>9, <1>10, <1>11, NoTimeout DEF Next, Client, Loop

\* A thread's step is its own, unless its server restarts.
LEMMA ThreadAlone ==
  ASSUME TypeOK, [Next]_vars, NEW p \in Threads
  PROVE  \/ wpc'[p] = wpc[p] /\ job'[p] = job[p] /\ ~Restart(p[1])
         \/ Thread(p)
         \/ wpc'[p] = "idle" /\ job'[p] = None
<1> USE DEF serverVars
<1>0. /\ job \in [Threads -> Jobs \cup {None}] /\ wpc \in [Threads -> Steps]
      /\ wpc[p] = "idle" <=> job[p] = None
  BY DEF TypeOK, Steps
<1>1. ASSUME NEW s \in Servers, Restart(s)
      PROVE  IF p[1] = s THEN wpc'[p] = "idle" /\ job'[p] = None ELSE wpc'[p] = wpc[p] /\ job'[p] = job[p]
  BY <1>1 DEF Restart
<1>2. ASSUME NEW q \in Threads, q # p, Thread(q) PROVE wpc'[p] = wpc[p] /\ job'[p] = job[p]
  BY <1>0, <1>2 DEF Thread, Take, Access, Get, GetReply, Write, Del, DelReply, Run, Store, Answer, Goto
<1>3. ASSUME NEW c \in Clients, Client(c) \/ Timeout(c) PROVE UNCHANGED <<wpc, job>>
  BY <1>3 DEF Client, Refresh, Exec, Receive, Eof, Timeout, SendScript
<1>4. ASSUME NEW k \in Conns, Loop(k) PROVE UNCHANGED <<wpc, job>>
  BY <1>4 DEF Loop, Dispatch, Flush, CloseConn
<1>5. UNCHANGED vars => UNCHANGED <<wpc, job>>
  BY DEF vars
<1>6. p[1] \in Servers
  BY DEF Threads
<1>7. Restart(p[1]) => wpc'[p] = "idle" /\ job'[p] = None
  BY <1>1, <1>6
<1> QED BY <1>1, <1>2, <1>3, <1>4, <1>5, <1>7 DEF Next

\* Two threads of a server do not share a cache directory.
LEMMA OwnDirs ==
  ASSUME TypeOK, Working, Serial, outlived = {}, ServedApart,
         NEW p \in Threads, job[p] # None
  PROVE  /\ Conn(p) \in serving /\ server[Conn(p)] = p[1] /\ Dir(p) = Name[Conn(p)] /\ Key(p) = Dir(p)
         /\ Conn(p) \in Conns /\ Dir(p) \in Names /\ p[1] \in Servers
         /\ \A k \in serving : Name[k] = Dir(p) => k = Conn(p)
         /\ \A q \in Threads : job[q] # None /\ Dir(q) = Dir(p) => q = p
<1>0. \A q \in Threads : job[q] # None => Conn(q) \in Conns /\ Conn(q) \in serving /\ server[Conn(q)] = q[1]
  BY JobsTyped DEF Working, Known, Conn
<1>1. Dir(p) = Name[Conn(p)] /\ Key(p) = Dir(p)
  BY DEF Dir, Key
<1>2. \A k \in serving : Name[k] = Dir(p) => k = Conn(p)
  BY <1>0, <1>1 DEF ServedApart
<1>3. \A q \in Threads : job[q] # None /\ Dir(q) = Dir(p) => q = p
  BY <1>0, <1>2 DEF Dir, Serial, OneJob, Conn
<1> QED BY <1>0, <1>1, <1>2, <1>3 DEF Names, Threads

\* What may become of a file in the cache.
LEMMA CacheChange ==
  ASSUME TypeOK, [Next]_vars, NEW s \in Servers, NEW n \in Names
  PROVE  \/ cache'[s][n] = cache[s][n]
         \/ \E p \in Threads : GetReply(p) /\ p[1] = s /\ Dir(p) = n /\ cache'[s][n] = Empty
         \/ \E p \in Threads : Write(p) /\ p[1] = s /\ Dir(p) = n /\ cache[s][n] # None
                               /\ cache'[s][n] = job[p].text
         \/ \E k \in serving : CloseConn(k) /\ server[k] = s /\ Name[k] = n /\ cache'[s][n] = None
         \/ Restart(s)
<1>0. cache \in [Servers -> [Names -> Clients \cup {Empty, None}]]
  BY DEF TypeOK
<1>1. ASSUME NEW c \in Clients, Client(c) \/ Timeout(c) PROVE UNCHANGED cache
  BY <1>1 DEF Client, Refresh, Exec, Receive, Eof, Timeout, SendScript, storeVars
<1>2. ASSUME NEW k \in Conns, Dispatch(k) \/ Flush(k) PROVE UNCHANGED cache
  BY <1>2 DEF Dispatch, Flush, storeVars
<1>3. ASSUME NEW k \in Conns, CloseConn(k)
      PROVE  /\ k \in serving
             /\ cache'[s][n] = IF server[k] = s /\ Name[k] = n THEN None ELSE cache[s][n]
  BY <1>0, <1>3 DEF CloseConn
<1>4. ASSUME NEW p \in Threads, Take(p) \/ Access(p) \/ Get(p) \/ Del(p) \/ DelReply(p) \/ Run(p) \/ Store(p)
      PROVE  UNCHANGED cache
  BY <1>4 DEF Take, Access, Get, Del, DelReply, Run, Store, storeVars
<1>5. ASSUME NEW p \in Threads, Write(p)
      PROVE  \/ cache'[s][n] = cache[s][n]
             \/ p[1] = s /\ Dir(p) = n /\ cache[s][n] # None /\ cache'[s][n] = job[p].text
  BY <1>0, <1>5 DEF Write
<1>6. ASSUME NEW p \in Threads, GetReply(p)
      PROVE  cache'[s][n] = cache[s][n] \/ (p[1] = s /\ Dir(p) = n /\ cache'[s][n] = Empty)
  BY <1>0, <1>6 DEF GetReply
<1>7. ASSUME NEW t \in Servers, Restart(t), t # s PROVE cache'[s][n] = cache[s][n]
  BY <1>0, <1>7 DEF Restart
<1>8. UNCHANGED vars => UNCHANGED cache
  BY DEF vars, storeVars
<1> QED BY <1>1, <1>2, <1>3, <1>4, <1>5, <1>6, <1>7, <1>8 DEF Next, Loop, Thread

LEMMA FreshStep ==
  ASSUME TypeOK, Working, TasksFit, Fresh, [Next]_vars
  PROVE  Fresh'
<1> SUFFICES ASSUME NEW p \in Threads, wpc'[p] \in {"access", "get", "getReply"}
             PROVE  job'[p].text = None
  BY DEF Fresh
<1>0. /\ job \in [Threads -> Jobs \cup {None}] /\ wpc \in [Threads -> Steps]
      /\ tasks \in [Servers -> Seq(Jobs)] /\ p[1] \in Servers
  BY DEF TypeOK, Steps, Threads
<1>1. CASE wpc'[p] = wpc[p] /\ job'[p] = job[p]
  BY <1>1 DEF Fresh
<1>2. ASSUME NEW a \in Answers, Answer(p, a), wpc[p] \notin {"idle", "store"} PROVE job'[p].text = None
  BY <1>2, AnswerFacts
<1>3. CASE Take(p)
  <2>1. 1 \in DOMAIN tasks[p[1]] /\ job'[p] = tasks[p[1]][1]
    BY <1>0, <1>3, Shorter DEF Take
  <2> QED BY <1>0, <2>1 DEF TasksFit
<1>4. CASE (Access(p) \/ Get(p)) /\ UNCHANGED job
  BY <1>4 DEF Access, Get, Fresh
<1>5. CASE GetReply(p) \/ Write(p) \/ Del(p) \/ Store(p)
  <2>1. wpc'[p] \in {"write", "del", "delReply", "idle"}
    BY <1>0, <1>5 DEF GetReply, Write, Del, Store, Goto
  <2> QED BY <2>1
<1>6. CASE Get(p) \/ DelReply(p) \/ Run(p)
  <2>1. wpc[p] \notin {"idle", "store"}
    BY <1>6 DEF Get, DelReply, Run
  <2>2. Uninit(Call(p), Conn(p)) \in Answers /\ Ok(Call(p), cache[p[1]][Dir(p)]) \in Answers
    BY <2>1, JobFacts, AnswerTypes DEF TypeOK
  <2>3. CASE Goto(p, "run")
    BY <1>0, <2>3 DEF Goto
  <2> QED BY <1>2, <1>4, <1>6, <2>1, <2>2, <2>3 DEF Get, DelReply, Run
<1>7. CASE Thread(p)
  <2>1. Access(p) => UNCHANGED job
    BY DEF Access
  <2> QED BY <1>3, <1>4, <1>5, <1>6, <1>7, <2>1 DEF Thread
<1> QED BY <1>1, <1>7, ThreadAlone

LEMMA MissingStep ==
  ASSUME TypeOK, Working, Serial, outlived = {}, ServedApart, Missing, [Next]_vars
  PROVE  Missing'
<1> SUFFICES ASSUME NEW p \in Threads, wpc'[p] = "get"
             PROVE  cache'[p[1]][Dir(p)'] = None
  BY DEF Missing
<1>0. /\ job \in [Threads -> Jobs \cup {None}] /\ wpc \in [Threads -> Steps]
      /\ \A q \in Threads : (wpc[q] = "idle") <=> (job[q] = None)
      /\ cache \in [Servers -> [Names -> Clients \cup {Empty, None}]]
  BY DEF TypeOK, Steps
<1>1. CASE wpc'[p] = wpc[p] /\ job'[p] = job[p] /\ ~Restart(p[1])
  <2>1. job[p] # None /\ Dir(p)' = Dir(p) /\ cache[p[1]][Dir(p)] = None
    BY <1>0, <1>1 DEF Missing, Dir, Conn
  <2>2. ASSUME NEW q \in Threads, GetReply(q) PROVE p # q /\ job[q] # None
    BY <1>0, <1>1, <2>2 DEF GetReply
  <2> QED BY <1>1, <2>1, <2>2, OwnDirs, CacheChange
<1>2. CASE Thread(p)
  <2>1. Access(p)
    <3>1. ASSUME NEW a \in Answers, Answer(p, a), wpc[p] \notin {"idle", "store"} PROVE FALSE
      BY <3>1, AnswerFacts
    <3>2. CASE Get(p) \/ DelReply(p) \/ Run(p)
      <4>1. wpc[p] \notin {"idle", "store"}
        BY <3>2 DEF Get, DelReply, Run
      <4>2. Uninit(Call(p), Conn(p)) \in Answers /\ Ok(Call(p), cache[p[1]][Dir(p)]) \in Answers
        BY <4>1, JobFacts, AnswerTypes DEF TypeOK
      <4>3. ~Goto(p, "run") /\ ~Goto(p, "getReply")
        BY <1>0 DEF Goto
      <4> QED BY <3>1, <3>2, <4>1, <4>2, <4>3 DEF Get, DelReply, Run
    <3>3. ~Take(p) /\ ~GetReply(p) /\ ~Write(p) /\ ~Del(p) /\ ~Store(p)
      BY <1>0 DEF Take, GetReply, Write, Del, Store, Goto
    <3> QED BY <1>2, <3>2, <3>3 DEF Thread
  <2>2. UNCHANGED <<job, cache>> /\ cache[p[1]][Dir(p)] = None
    BY <1>0, <2>1 DEF Access, Goto, storeVars
  <2> QED BY <2>2 DEF Dir, Conn
<1> QED BY <1>1, <1>2, ThreadAlone

LEMMA CachedStep ==
  ASSUME TypeOK, Working, Serial, Closed, outlived = {}, ServedApart, Fresh, Cached, [Next]_vars
  PROVE  Cached'
<1> SUFFICES ASSUME NEW p \in Threads
             PROVE  /\ wpc'[p] = "write" => job'[p].text # None
                    /\ wpc'[p] \in {"write", "del", "delReply"} /\ job'[p].text # None =>
                         cache'[p[1]][Dir(p)'] # None
  BY DEF Cached
<1>0. /\ job \in [Threads -> Jobs \cup {None}] /\ wpc \in [Threads -> Steps]
      /\ \A q \in Threads : (wpc[q] = "idle") <=> (job[q] = None)
      /\ cache \in [Servers -> [Names -> Clients \cup {Empty, None}]]
      /\ None \notin Clients /\ Empty # None
  BY ValuesAssumption DEF TypeOK, Steps
<1>1. CASE wpc'[p] = wpc[p] /\ job'[p] = job[p] /\ ~Restart(p[1])
  <2> SUFFICES ASSUME wpc[p] \in {"write", "del", "delReply"}, job[p].text # None
               PROVE  cache'[p[1]][Dir(p)] # None
    BY <1>1 DEF Cached, Dir, Conn
  <2>1. job[p] # None /\ cache[p[1]][Dir(p)] # None
    BY <1>0 DEF Cached
  <2>2. ASSUME NEW q \in Threads, Write(q) PROVE job[q].text # None
    BY <2>2 DEF Write, Cached
  <2>3. ASSUME NEW k \in serving, CloseConn(k), Name[k] = Dir(p) PROVE FALSE
    <3>1. k = Conn(p) /\ k \in Conns
      BY <2>1, <2>3, OwnDirs
    <3>2. ~HasJob(k)
      BY <2>3, <3>1 DEF CloseConn, Closed, Held
    <3> QED BY <2>1, <3>1, <3>2 DEF HasJob, Conn
  <2> QED BY <1>0, <1>1, <2>1, <2>2, <2>3, OwnDirs, CacheChange
<1>2. CASE Thread(p) /\ wpc'[p] \in {"write", "del", "delReply"}
  <2>1. wpc[p] \notin {"idle", "store"}
    <3>1. Take(p) \/ Store(p) => wpc'[p] \in {"access", "idle"}
      BY <1>0 DEF Take, Store, Goto
    <3>2. ~Take(p) /\ ~Store(p)
      BY <1>2, <3>1
    <3> QED BY <1>2, <3>2 DEF Thread, Access, Get, GetReply, Write, Del, DelReply, Run
  <2>2. Dir(p) \in Names /\ p[1] \in Servers /\ job[p] \in Jobs
    BY <2>1, JobFacts
  <2>3. ~Answer(p, Uninit(Call(p), Conn(p))) /\ ~Answer(p, Ok(Call(p), cache[p[1]][Dir(p)]))
    <3>1. Uninit(Call(p), Conn(p)) \in Answers /\ Ok(Call(p), cache[p[1]][Dir(p)]) \in Answers
      BY <2>1, JobFacts, AnswerTypes DEF TypeOK
    <3> QED BY <1>2, <2>1, <3>1, AnswerFacts
  <2>4. CASE GetReply(p)
    <3>1. PICK x : x = Head(pending[p[1]])
      OBVIOUS
    <3>2. CASE x \in Clients
      <4>1. /\ cache' = [cache EXCEPT ![p[1]][Dir(p)] = Empty]
            /\ job' = [job EXCEPT ![p].text = x] /\ x # None
        BY <1>0, <2>4, <3>1, <3>2 DEF GetReply
      <4>2. cache'[p[1]][Dir(p)] = Empty /\ job'[p] = [job[p] EXCEPT !.text = x]
        BY <1>0, <2>2, <4>1
      <4>3. job'[p].conn = job[p].conn /\ job'[p].text = x
        BY <2>2, <4>2 DEF Jobs
      <4> QED BY <1>0, <4>1, <4>2, <4>3 DEF Dir, Conn
    <3>3. CASE x \notin Clients
      <4>1. wpc[p] = "getReply" /\ wpc'[p] = "del" /\ UNCHANGED job
        BY <1>0, <2>4, <3>1, <3>3 DEF GetReply, Goto
      <4> QED BY <4>1 DEF Fresh
    <3> QED BY <3>2, <3>3
  <2>5. CASE Write(p)
    <3>1. /\ wpc[p] = "write" /\ wpc'[p] = "del" /\ UNCHANGED job
          /\ job[p].text # None /\ cache[p[1]][Dir(p)] # None
      BY <1>0, <2>5 DEF Write, Goto, Cached
    <3>2. cache'[p[1]][Dir(p)] = job[p].text
      BY <1>0, <2>2, <2>5, <3>1 DEF Write
    <3> QED BY <3>1, <3>2 DEF Dir, Conn
  <2>6. CASE Del(p)
    BY <1>0, <2>6 DEF Del, Goto, Cached, Dir, Conn
  <2>7. ~Access(p) /\ ~Take(p) /\ ~Store(p) /\ ~Goto(p, "getReply") /\ ~Goto(p, "run")
    BY <1>0, <1>2 DEF Access, Take, Store, Goto
  <2>8. ~Get(p) /\ ~DelReply(p) /\ ~Run(p)
    BY <2>3, <2>7 DEF Get, DelReply, Run
  <2> QED BY <1>2, <2>4, <2>5, <2>6, <2>7, <2>8 DEF Thread
<1> QED BY <1>1, <1>2, ThreadAlone

\* What a thread waits for in the redisContext stays there until it takes it.
LEMMA ReplyKept ==
  ASSUME TypeOK, OneInContext, ~overlapped', [Next]_vars,
         NEW p \in Threads, InContext(p), InContext(p)', ~Restart(p[1]), ~Thread(p)
  PROVE  pending'[p[1]] = pending[p[1]]
<1> USE DEF storeVars
<1>0. pending \in [Servers -> Seq(Clients \cup {None})] /\ p[1] \in Servers /\ pending[p[1]] # <<>>
  BY DEF TypeOK, Threads, OneInContext
<1>1. ASSUME NEW q \in Threads, Get(q) \/ Del(q), q[1] = p[1] PROVE UNCHANGED pending
  BY <1>0, <1>1 DEF Get, Del, Command
<1>2. ASSUME NEW q \in Threads, Get(q) \/ Del(q), q[1] # p[1] PROVE pending'[p[1]] = pending[p[1]]
  BY <1>0, <1>2 DEF Get, Del, Command
<1>3. ASSUME NEW q \in Threads, GetReply(q) \/ DelReply(q) PROVE pending'[p[1]] = pending[p[1]]
  <2>1. InContext(q) /\ q # p
    BY <1>3 DEF GetReply, DelReply, InContext, Thread
  <2>2. q[1] # p[1]
    BY <2>1 DEF OneInContext
  <2> QED BY <1>0, <1>3, <2>2 DEF GetReply, DelReply
<1>4. ASSUME NEW q \in Threads, Take(q) \/ Access(q) \/ Write(q) \/ Run(q) \/ Store(q) PROVE UNCHANGED pending
  BY <1>4 DEF Take, Access, Write, Run, Store
<1>5. ASSUME NEW c \in Clients, Client(c) \/ Timeout(c) PROVE UNCHANGED pending
  BY <1>5 DEF Client, Refresh, Exec, Receive, Eof, Timeout, SendScript
<1>6. ASSUME NEW k \in Conns, Loop(k) PROVE UNCHANGED pending
  BY <1>6 DEF Loop, Dispatch, Flush, CloseConn
<1>7. ASSUME NEW s \in Servers, Restart(s), s # p[1] PROVE pending'[p[1]] = pending[p[1]]
  BY <1>0, <1>7 DEF Restart
<1>8. UNCHANGED vars => UNCHANGED pending
  BY DEF vars
<1> QED BY <1>1, <1>2, <1>3, <1>4, <1>5, <1>6, <1>7, <1>8 DEF Next, Thread

\* Who comes to answer UNINIT: a thread that redis gives nothing, or does not answer.
Denied(p) == Get(p) /\ (redis[p[1]][Key(p)] = None \/ Spend("fault"))

LEMMA NoTextOrigin ==
  ASSUME TypeOK, Working, OneInContext, Cached, ~overlapped', [Next]_vars,
         NEW p \in Threads, NoText(p)'
  PROVE  /\ wpc[p] \notin {"idle", "store"} /\ job'[p].conn = job[p].conn
         /\ NoText(p) \/ Denied(p)
<1>0. /\ job \in [Threads -> Jobs \cup {None}] /\ wpc \in [Threads -> Steps]
      /\ pending \in [Servers -> Seq(Clients \cup {None})] /\ p[1] \in Servers
      /\ wpc'[p] \in {"getReply", "del", "delReply"} /\ job'[p].text = None
      /\ wpc'[p] = "getReply" => pending'[p[1]][1] = None
  BY DEF TypeOK, Steps, Threads, NoText
<1>1. CASE wpc'[p] = wpc[p] /\ job'[p] = job[p] /\ ~Restart(p[1]) /\ ~Thread(p)
  <2>1. CASE wpc[p] \in {"del", "delReply"}
    BY <1>0, <1>1, <2>1 DEF NoText
  <2>2. CASE wpc[p] = "getReply"
    <3>1. pending'[p[1]] = pending[p[1]]
      BY <1>1, <2>2, ReplyKept DEF InContext
    <3> QED BY <1>0, <1>1, <2>2, <3>1 DEF NoText
  <2> QED BY <1>0, <1>1, <2>1, <2>2
<1>2. CASE Thread(p)
  <2>1. ~Access(p) /\ ~Take(p) /\ ~Store(p) /\ ~Goto(p, "run")
    BY <1>0 DEF Access, Take, Store, Goto
  <2>2. wpc[p] \notin {"idle", "store"}
    BY <1>2, <2>1 DEF Thread, Get, GetReply, Write, Del, DelReply, Run
  <2>3. ~Answer(p, Uninit(Call(p), Conn(p))) /\ ~Answer(p, Ok(Call(p), cache[p[1]][Dir(p)]))
    <3>1. Uninit(Call(p), Conn(p)) \in Answers /\ Ok(Call(p), cache[p[1]][Dir(p)]) \in Answers
      BY <2>2, JobFacts, AnswerTypes DEF TypeOK
    <3> QED BY <1>0, <2>2, <3>1, AnswerFacts
  <2>4. CASE Get(p)
    <3>1. Command(p, redis[p[1]][Key(p)]) /\ Goto(p, "getReply") /\ UNCHANGED job
      BY <2>3, <2>4 DEF Get
    <3>2. pending[p[1]] = <<>> /\ pending'[p[1]] = Append(pending[p[1]], redis[p[1]][Key(p)])
      <4>1. pending \in [Servers -> Seq(Clients \cup {None})]
        BY DEF TypeOK
      <4> QED BY <1>0, <3>1, <4>1 DEF Command
    <3>3. \A r : Append(<<>>, r)[1] = r
      OBVIOUS
    <3>4. wpc'[p] = "getReply"
      BY <1>0, <3>1 DEF Goto
    <3>5. redis[p[1]][Key(p)] = None
      BY <1>0, <3>2, <3>3, <3>4
    <3> QED BY <2>2, <2>4, <3>1, <3>5 DEF Denied
  <2>5. CASE GetReply(p)
    <3>1. wpc'[p] = "del"
      BY <1>0, <2>5 DEF GetReply, Goto
    <3>2. Head(pending[p[1]]) \notin Clients /\ UNCHANGED job /\ pending[p[1]] # <<>> /\ wpc[p] = "getReply"
      BY <1>0, <2>5, <3>1 DEF GetReply, Goto
    <3>3. pending[p[1]][1] = None
      BY <1>0, <3>2, Shorter
    <3> QED BY <1>0, <2>2, <3>2, <3>3 DEF NoText
  <2>6. CASE Write(p)
    BY <1>0, <2>6 DEF Write, Cached
  <2>7. CASE Del(p)
    BY <1>0, <2>2, <2>7 DEF Del, NoText
  <2>8. ~DelReply(p) /\ ~Run(p)
    BY <2>1, <2>3 DEF DelReply, Run
  <2> QED BY <1>2, <2>1, <2>4, <2>5, <2>6, <2>7, <2>8 DEF Thread
<1> QED BY <1>0, <1>1, <1>2, ThreadAlone

LEMMA SaysConcat ==
  ASSUME NEW q \in Seq(Answers), NEW r \in Seq(Answers), SaysUninit(q \o r)
  PROVE  SaysUninit(q) \/ SaysUninit(r)
<1>1. ASSUME NEW i \in DOMAIN (q \o r)
      PROVE  \/ i \in DOMAIN q /\ (q \o r)[i] = q[i]
             \/ i - Len(q) \in DOMAIN r /\ (q \o r)[i] = r[i - Len(q)]
  OBVIOUS
<1> QED BY <1>1 DEF SaysUninit

LEMMA SaysAppend ==
  ASSUME NEW q \in Seq(Answers), NEW a \in Answers, SaysUninit(Append(q, a))
  PROVE  SaysUninit(q) \/ a.status = "uninit"
<1>1. \A i \in DOMAIN Append(q, a) : \/ i \in DOMAIN q /\ Append(q, a)[i] = q[i]
                                     \/ Append(q, a)[i] = a
  OBVIOUS
<1> QED BY <1>1 DEF SaysUninit

LEMMA SaysNothing == ~SaysUninit(<<>>)
BY DEF SaysUninit

\* The reply of a thread's event gets an UNINIT from the thread that was denied.
LEMMA SendOrigin ==
  ASSUME TypeOK, Working, Serial, [Next]_vars,
         NEW p \in Threads, job'[p] # None, SaysUninit(job'[p].send)
  PROVE  /\ wpc[p] # "idle" /\ job[p] # None /\ job'[p].conn = job[p].conn
         /\ SaysUninit(job[p].send) \/ NoText(p) \/ Denied(p)
<1>0. /\ job \in [Threads -> Jobs \cup {None}] /\ wpc \in [Threads -> Steps] /\ p[1] \in Servers
      /\ tasks \in [Servers -> Seq(Jobs)]
      /\ \A q \in Threads : (wpc[q] = "idle") <=> (job[q] = None)
  BY DEF TypeOK, Steps, Threads
<1>1. CASE job'[p] = job[p]
  BY <1>0, <1>1
<1>2. CASE Thread(p) /\ job'[p] # job[p]
  <2>1. ~Store(p)
    BY <1>0 DEF Store
  <2>2. ~Take(p)
    <3>1. Take(p) => 1 \in DOMAIN tasks[p[1]] /\ job'[p] = tasks[p[1]][1]
      BY <1>0, Shorter DEF Take
    <3> QED BY <1>0, <3>1, SaysNothing DEF Serial, TasksAwaited
  <2>3. ~Access(p) /\ ~Write(p) /\ ~Del(p)
    BY <1>2 DEF Access, Write, Del
  <2>4. wpc[p] \notin {"idle", "store"}
    BY <1>2, <2>1, <2>2, <2>3 DEF Thread, Get, GetReply, DelReply, Run
  <2>5. job[p] \in Jobs /\ job[p] # None /\ job[p].send \in Seq(Answers)
    BY <1>0, <2>4, JobsTyped
  <2>6. CASE GetReply(p)
    <3>1. job'[p] = [job[p] EXCEPT !.text = Head(pending[p[1]])]
      BY <1>0, <1>2, <2>6 DEF GetReply
    <3>2. job'[p].conn = job[p].conn /\ job'[p].send = job[p].send
      BY <2>5, <3>1 DEF Jobs
    <3> QED BY <2>4, <2>5, <3>2
  <2>7. ASSUME NEW a \in Answers, Answer(p, a)
        PROVE  job'[p].conn = job[p].conn /\ (SaysUninit(job[p].send) \/ a.status = "uninit")
    <3>1. job'[p].conn = job[p].conn /\ job'[p].send = Append(job[p].send, a)
      BY <2>4, <2>7, AnswerFacts
    <3> QED BY <2>5, <3>1, SaysAppend
  <2>8. Uninit(Call(p), Conn(p)) \in Answers /\ Ok(Call(p), cache[p[1]][Dir(p)]) \in Answers
    BY <2>4, JobFacts, AnswerTypes DEF TypeOK
  <2>9. CASE Get(p)
    <3>1. Spend("fault") /\ Answer(p, Uninit(Call(p), Conn(p)))
      BY <1>2, <2>9 DEF Get
    <3> QED BY <2>4, <2>5, <2>7, <2>8, <2>9, <3>1 DEF Denied
  <2>10. CASE DelReply(p)
    <3>1. wpc[p] = "delReply" /\ job[p].text = None /\ Answer(p, Uninit(Call(p), Conn(p)))
      BY <1>2, <2>10 DEF DelReply
    <3> QED BY <2>4, <2>5, <2>7, <2>8, <3>1 DEF NoText
  <2>11. CASE Run(p)
    <3>1. Answer(p, Ok(Call(p), cache[p[1]][Dir(p)])) /\ Ok(Call(p), cache[p[1]][Dir(p)]).status # "uninit"
      BY <2>11 DEF Run, Ok
    <3> QED BY <2>4, <2>5, <2>7, <2>8, <3>1
  <2> QED BY <1>2, <2>1, <2>2, <2>3, <2>6, <2>9, <2>10, <2>11 DEF Thread
<1> QED BY <1>1, <1>2, ThreadAlone

\* Answers come from the reply buffer.
LEMMA AnsChange ==
  ASSUME TypeOK, [Next]_vars, NEW k \in Conns
  PROVE  ans'[k] \in {ans[k], <<>>, ans[k] \o reply[k]}
<1>0. ans \in [Conns -> Seq(Answers)] /\ reply \in [Conns -> Seq(Answers)]
  BY DEF TypeOK
<1>1. ASSUME NEW c \in Clients, Receive(c) PROVE ans'[k] \in {ans[k], <<>>}
  BY <1>0, <1>1 DEF Receive
<1>2. ASSUME NEW c \in Clients, Refresh(c) \/ Exec(c) \/ Eof(c) \/ SendScript(c) \/ Timeout(c) PROVE UNCHANGED ans
  BY <1>2 DEF Refresh, Exec, Eof, SendScript, Timeout, connVars
<1>3. ASSUME NEW l \in Conns, Flush(l) PROVE ans'[k] \in {ans[k], ans[k] \o reply[k]}
  BY <1>0, <1>3 DEF Flush
<1>4. ASSUME NEW l \in Conns, Dispatch(l) \/ CloseConn(l) PROVE UNCHANGED ans
  BY <1>4 DEF Dispatch, CloseConn, connVars
<1>5. ASSUME NEW s \in Servers, Restart(s) PROVE UNCHANGED ans
  BY <1>5 DEF Restart
<1>6. UNCHANGED vars => UNCHANGED ans
  BY DEF vars, connVars
<1> QED BY <1>1, <1>2, <1>3, <1>4, <1>5, <1>6, ThreadQuiet DEF Next, Client, Loop

LEMMA AnsOrigin ==
  ASSUME TypeOK, [Next]_vars, NEW k \in Conns, SaysUninit(ans'[k])
  PROVE  SaysUninit(ans[k]) \/ SaysUninit(reply[k])
<1>1. ans[k] \in Seq(Answers) /\ reply[k] \in Seq(Answers)
  BY DEF TypeOK
<1> QED BY <1>1, AnsChange, SaysNothing, SaysConcat

LEMMA ReplyOrigin ==
  ASSUME TypeOK, [Next]_vars, NEW k \in Conns, SaysUninit(reply'[k])
  PROVE  \/ SaysUninit(reply[k])
         \/ \E p \in Threads : job[p] # None /\ job[p].conn = k /\ SaysUninit(job[p].send)
<1> USE DEF serverVars
<1>0. reply \in [Conns -> Seq(Answers)]
  BY DEF TypeOK
<1>1. ASSUME NEW c \in Clients, Client(c) \/ Timeout(c) PROVE UNCHANGED reply
  BY <1>1 DEF Client, Refresh, Exec, Receive, Eof, SendScript, Timeout
<1>2. ASSUME NEW l \in Conns, Loop(l) PROVE reply'[k] \in {reply[k], <<>>}
  BY <1>0, <1>2 DEF Loop, Dispatch, Flush, CloseConn
<1>3. ASSUME NEW s \in Servers, Restart(s) PROVE reply'[k] \in {reply[k], <<>>}
  BY <1>0, <1>3 DEF Restart
<1>4. ASSUME NEW p \in Threads, Store(p)
      PROVE  job[p] # None /\ (reply'[k] = reply[k] \/ (job[p].conn = k /\ reply'[k] = job[p].send))
  BY <1>0, <1>4 DEF Store, TypeOK, Conn
<1>5. ASSUME NEW p \in Threads, Thread(p), ~Store(p) PROVE UNCHANGED reply
  BY <1>5 DEF Thread, Take, Access, Get, GetReply, Write, Del, DelReply, Run
<1>6. UNCHANGED vars => UNCHANGED reply
  BY DEF vars
<1> QED BY <1>1, <1>2, <1>3, <1>4, <1>5, <1>6, SaysNothing DEF Next

\* A client uploads when an UNINIT answer is what it reads.
LEMMA UploadOrigin ==
  ASSUME TypeOK, Opened, [Next]_vars, NEW c \in Clients, pc'[c] = "upload"
  PROVE  /\ fd'[c] = fd[c] /\ ~SendScript(c)
         /\ pc[c] = "upload" \/ (fd[c] \in Conns /\ SaysUninit(ans[fd[c]]))
<1>0. /\ pc \in [Clients -> {"refresh", "exec", "wait", "upload", "dead"}]
      /\ ans \in [Conns -> Seq(Answers)] /\ fd \in [Clients -> Conns \cup {None}]
  BY DEF TypeOK
<1>1. ASSUME NEW d \in Clients, d # c, Client(d) \/ Timeout(d) PROVE pc'[c] = pc[c] /\ fd'[c] = fd[c]
  <2>1. CASE Refresh(d)
    <3>1. pc' = [pc EXCEPT ![d] = "exec"]
      BY <2>1 DEF Refresh
    <3>2. fd'[c] = fd[c]
      BY <1>1, <2>1, RefreshFacts
    <3> QED BY <1>0, <1>1, <3>1, <3>2
  <2>2. CASE Exec(d) \/ Receive(d) \/ Eof(d) \/ SendScript(d) \/ Timeout(d)
    BY <1>0, <1>1, <2>2 DEF Exec, Receive, Eof, SendScript, Timeout, Return
  <2> QED BY <1>1, <2>1, <2>2 DEF Client
<1>2. ~Refresh(c) /\ ~Exec(c) /\ ~Eof(c) /\ ~Timeout(c) /\ ~SendScript(c)
  BY <1>0 DEF Refresh, Exec, Eof, Timeout, SendScript, Return
<1>3. CASE Receive(c)
  <2>1. fd[c] # None /\ fd[c] \in Conns /\ pc[c] = "wait" /\ ans[fd[c]] # <<>> /\ UNCHANGED fd
    BY <1>0, <1>3 DEF Receive, TypeOK
  <2>2. Head(ans[fd[c]]).status = "uninit"
    BY <1>0, <1>3 DEF Receive, Return
  <2>3. 1 \in DOMAIN ans[fd[c]] /\ Head(ans[fd[c]]) = ans[fd[c]][1]
    BY <1>0, <2>1, Shorter
  <2> QED BY <1>2, <2>1, <2>2, <2>3 DEF SaysUninit
<1>4. ASSUME NEW k \in Conns, Loop(k) PROVE UNCHANGED <<pc, fd>>
  BY <1>4 DEF Loop, Dispatch, Flush, CloseConn, clientVars
<1>5. ASSUME NEW s \in Servers, Restart(s) PROVE UNCHANGED <<pc, fd>>
  BY <1>5 DEF Restart, clientVars
<1>6. UNCHANGED vars => UNCHANGED <<pc, fd>>
  BY DEF vars, clientVars
<1> QED BY <1>0, <1>1, <1>2, <1>3, <1>4, <1>5, <1>6, ThreadQuiet DEF Next, Client

LEMMA UnmetOrigin ==
  ASSUME TypeOK, Opened, Working, Serial, OneInContext, Cached, ~overlapped', [Next]_vars,
         NEW k \in Conns, Unmet(k)'
  PROVE  \/ Unmet(k)
         \/ \E p \in Threads : wpc[p] # "idle" /\ job[p] # None /\ job[p].conn = k /\ Denied(p)
<1>1. CASE SaysUninit(ans'[k])
  BY <1>1, AnsOrigin DEF Unmet
<1>2. CASE SaysUninit(reply'[k])
  BY <1>2, ReplyOrigin DEF Unmet
<1>3. ASSUME NEW p \in Threads, job'[p] # None, job'[p].conn = k, SaysUninit(job'[p].send)
      PROVE  Unmet(k) \/ (wpc[p] # "idle" /\ job[p] # None /\ job[p].conn = k /\ Denied(p))
  BY <1>3, SendOrigin DEF Unmet
<1>4. ASSUME NEW p \in Threads, job'[p] # None, job'[p].conn = k, NoText(p)'
      PROVE  Unmet(k) \/ (wpc[p] # "idle" /\ job[p] # None /\ job[p].conn = k /\ Denied(p))
  <2>1. /\ wpc[p] \notin {"idle", "store"} /\ job'[p].conn = job[p].conn
        /\ NoText(p) \/ Denied(p)
    BY <1>4, NoTextOrigin
  <2>2. job[p] # None
    BY <2>1 DEF TypeOK
  <2> QED BY <1>4, <2>1, <2>2 DEF Unmet
<1>5. ASSUME NEW c \in Clients, pc'[c] = "upload", fd'[c] = k PROVE Unmet(k)
  BY <1>5, UploadOrigin DEF Unmet
<1>6. \/ SaysUninit(ans'[k]) \/ SaysUninit(reply'[k])
      \/ \E p \in Threads : job'[p] # None /\ job'[p].conn = k /\ (SaysUninit(job'[p].send) \/ NoText(p)')
      \/ \E c \in Clients : pc'[c] = "upload" /\ fd'[c] = k
  BY DEF Unmet, SaysUninit
<1> QED BY <1>1, <1>2, <1>3, <1>4, <1>5, <1>6

\* Failures are counted upwards.
LEMMA SpentStep ==
  ASSUME TypeOK, [Next]_vars
  PROVE  /\ spent["fault"] \in Nat /\ spent'["fault"] \in Nat /\ spent'["fault"] >= spent["fault"]
         /\ Spend("fault") => spent'["fault"] = spent["fault"] + 1
<1>0. spent \in [DOMAIN Limit -> Nat] /\ "fault" \in DOMAIN Limit
  BY Events DEF TypeOK
<1>1. ASSUME NEW e \in DOMAIN Limit, Spend(e)
      PROVE  spent'["fault"] = IF e = "fault" THEN spent["fault"] + 1 ELSE spent["fault"]
  BY <1>0, <1>1 DEF Spend
<1>2. ASSUME NEW c \in Clients, Client(c) \/ Timeout(c)
      PROVE  UNCHANGED spent \/ \E e \in DOMAIN Limit : Spend(e)
  BY <1>2, Events DEF Client, Refresh, Exec, Receive, Eof, SendScript, Timeout
<1>3. ASSUME NEW k \in Conns, Loop(k) PROVE UNCHANGED spent
  BY <1>3 DEF Loop, Dispatch, Flush, CloseConn
<1>4. ASSUME NEW p \in Threads, Thread(p) PROVE UNCHANGED spent \/ Spend("fault")
  BY <1>4 DEF Thread, Take, Access, Get, GetReply, Write, Del, DelReply, Run, Store
<1>5. ASSUME NEW s \in Servers, Restart(s) PROVE Spend("restart")
  BY <1>5 DEF Restart
<1>6. UNCHANGED vars => UNCHANGED spent
  BY DEF vars
<1>7. UNCHANGED spent \/ \E e \in DOMAIN Limit : Spend(e)
  BY <1>0, <1>2, <1>3, <1>4, <1>5, <1>6, Events DEF Next
<1>8. \A n \in Nat : n + 1 \in Nat /\ n + 1 >= n /\ n >= n
  OBVIOUS
<1> QED BY <1>0, <1>1, <1>7, <1>8

\* An upload stores the script under the name, and at the server, of its connection.
LEMMA UploadStep ==
  ASSUME TypeOK, Opened, Uploads, Homes, [Next]_vars, NEW k \in Conns, uploads'[k] # uploads[k]
  PROVE  \E c \in Clients :
           /\ SendScript(c) /\ pc[c] = "upload" /\ fd[c] = k
           /\ uploads'[k] = uploads[k] + 1
           /\ server[k] \in Servers => redis'[server[k]][Name[k]] = c
<1>0. uploads \in [Conns -> 0 .. MaxUploads] /\ redis \in [Servers -> [Names -> Clients \cup {None}]]
  BY DEF TypeOK
<1>1. ASSUME NEW c \in Clients, Refresh(c) \/ Exec(c) \/ Receive(c) \/ Eof(c) \/ Timeout(c) PROVE UNCHANGED uploads
  BY <1>1 DEF Refresh, Exec, Receive, Eof, Timeout, history
<1>2. ASSUME NEW l \in Conns, Loop(l) PROVE UNCHANGED uploads
  BY <1>2 DEF Loop, Dispatch, Flush, CloseConn, history
<1>3. ASSUME NEW p \in Threads, Thread(p) PROVE UNCHANGED uploads
  BY <1>3 DEF Thread, Take, Access, Get, GetReply, Write, Del, DelReply, Run, Store, history
<1>4. ASSUME NEW s \in Servers, Restart(s) PROVE UNCHANGED uploads
  BY <1>4 DEF Restart, history
<1>5. UNCHANGED vars => UNCHANGED uploads
  BY DEF vars, history
<1>6. PICK c \in Clients : SendScript(c)
  BY <1>1, <1>2, <1>3, <1>4, <1>5 DEF Next, Client
<1>7. pc[c] = "upload" /\ redis' = [redis EXCEPT ![servIP[c]][prefix[c]] = c]
      /\ uploads' = [uploads EXCEPT ![fd[c]] = IF @ = MaxUploads THEN @ ELSE @ + 1]
  BY <1>6 DEF SendScript
<1>8. fd[c] = k /\ uploads'[k] = uploads[k] + 1
  BY <1>0, <1>7
<1>9. servIP[c] = server[k] /\ prefix[c] = Name[k]
  BY <1>7, <1>8, ValuesAssumption DEF Homes, Uploads
<1>10. Name[k] \in Names
  BY DEF Names
<1>11. server[k] \in Servers => redis'[server[k]][Name[k]] = c
  BY <1>0, <1>7, <1>9, <1>10
<1> QED BY <1>6, <1>7, <1>8, <1>11

\* A client that has uploaded has nothing left to be asked for on its connection.
LEMMA UploadMeets ==
  ASSUME TypeOK, Opened, Working, Serial, OneInContext, Cached, ~overlapped', [Next]_vars,
         NEW c \in Clients, SendScript(c), NEW k \in Conns, fd[c] = k
  PROVE  ~Unmet(k)'
<1>0. /\ pc[c] = "upload" /\ pc \in [Clients -> {"refresh", "exec", "wait", "upload", "dead"}]
      /\ pc' = [pc EXCEPT ![c] = "refresh"]
      /\ UNCHANGED <<fd, ans, reply, job, wpc, pending>>
  BY DEF SendScript, Return, TypeOK, connVars, serverVars
<1>1. ~Held(k) /\ ans[k] = <<>> /\ k # None
  BY <1>0, NothingUnawaited, ValuesAssumption
<1>2. reply[k] = <<>> /\ ~HasJob(k)
  BY <1>1 DEF Held
<1>3. \A d \in Clients : fd[d] = k => d = c
  BY <1>1 DEF Opened
<1>4. ~\E d \in Clients : pc'[d] = "upload" /\ fd'[d] = k
  BY <1>0, <1>3
<1>5. ~\E p \in Threads : job'[p] # None /\ job'[p].conn = k
  BY <1>0, <1>2 DEF HasJob
<1>6. ~SaysUninit(ans'[k]) /\ ~SaysUninit(reply'[k])
  BY <1>0, <1>1, <1>2, SaysNothing
<1> QED BY <1>4, <1>5, <1>6 DEF Unmet, SaysUninit

LEMMA ChargedStep ==
  ASSUME TypeOK, Opened, Working, Serial, Fitting, UInv, ~overlapped', [Next]_vars
  PROVE  Charged' /\ Bounded'
<1> USE DEF UInv, Placed, Fitting
<1> DEFINE f == spent["fault"]
<1>0. /\ f \in Nat /\ f' \in Nat /\ f' >= f /\ (Spend("fault") => f' = f + 1)
      /\ \A k \in Conns : uploads[k] \in Nat
  BY SpentStep DEF TypeOK
<1> SUFFICES ASSUME NEW k \in Conns PROVE (Unmet(k)' => uploads'[k] <= f') /\ uploads'[k] <= 1 + f'
  BY DEF Charged, Bounded
<1>1. CASE uploads'[k] # uploads[k]
  <2>1. PICK c \in Clients : SendScript(c) /\ pc[c] = "upload" /\ fd[c] = k /\ uploads'[k] = uploads[k] + 1
    BY <1>1, UploadStep
  <2>2. ~Unmet(k)'
    BY <2>1, UploadMeets
  <2>3. uploads[k] <= f
    BY <2>1 DEF Charged, Unmet
  <2> QED BY <1>0, <2>1, <2>2, <2>3
<1>2. CASE uploads'[k] = uploads[k]
  <2>1. uploads[k] <= 1 + f
    BY DEF Bounded
  <2>2. ASSUME NEW p \in Threads, wpc[p] # "idle", job[p] # None, job[p].conn = k, Denied(p)
        PROVE  uploads[k] <= f'
    <3>1. CASE Spend("fault")
      BY <1>0, <2>1, <3>1
    <3>2. CASE redis[p[1]][Key(p)] = None
      <4>1. wpc[p] = "get"
        BY <2>2 DEF Denied, Get
      <4>2. cache[p[1]][Dir(p)] = None
        BY <4>1 DEF Missing
      <4>3. k \in serving /\ server[k] = p[1] /\ Dir(p) = Name[k] /\ Key(p) = Name[k]
        BY <2>2, OwnDirs DEF Conn
      <4>4. ~(uploads[k] > f)
        BY <3>2, <4>2, <4>3 DEF Stored
      <4> QED BY <1>0, <4>4
    <3> QED BY <2>2, <3>1, <3>2 DEF Denied
  <2>3. Unmet(k)' => uploads[k] <= f'
    <3>1. Unmet(k) => uploads[k] <= f
      BY DEF Charged
    <3>2. uploads[k] <= f => uploads[k] <= f'
      BY <1>0
    <3> HIDE DEF f
    <3> QED BY <2>2, <3>1, <3>2, UnmetOrigin
  <2> QED BY <1>0, <1>2, <2>1, <2>3
<1> QED BY <1>1, <1>2

\* What removes a key: the thread that has looked for it.
LEMMA RedisChange ==
  ASSUME TypeOK, Working, [Next]_vars, NEW s \in Servers, NEW n \in Names, redis'[s][n] = None
  PROVE  redis[s][n] = None \/ \E p \in Threads : Del(p) /\ p[1] = s /\ Key(p) = n
<1> USE DEF storeVars
<1>0. redis \in [Servers -> [Names -> Clients \cup {None}]] /\ None \notin Clients
  BY ValuesAssumption DEF TypeOK
<1>1. ASSUME NEW c \in Clients, Refresh(c) \/ Exec(c) \/ Receive(c) \/ Eof(c) \/ Timeout(c) PROVE UNCHANGED redis
  BY <1>1 DEF Refresh, Exec, Receive, Eof, Timeout
<1>2. ASSUME NEW c \in Clients, SendScript(c) PROVE redis'[s][n] \in {redis[s][n], c}
  BY <1>0, <1>2 DEF SendScript
<1>3. ASSUME NEW k \in Conns, Loop(k) PROVE UNCHANGED redis
  BY <1>3 DEF Loop, Dispatch, Flush, CloseConn
<1>4. ASSUME NEW p \in Threads, Thread(p), ~Del(p) PROVE UNCHANGED redis
  BY <1>4 DEF Thread, Take, Access, Get, GetReply, Write, DelReply, Run, Store
<1>5. ASSUME NEW p \in Threads, Del(p), ~(p[1] = s /\ Key(p) = n) PROVE redis'[s][n] = redis[s][n]
  BY <1>0, <1>5 DEF Del
<1>6. ASSUME NEW t \in Servers, Restart(t) PROVE UNCHANGED redis
  BY <1>6 DEF Restart
<1>7. UNCHANGED vars => UNCHANGED redis
  BY DEF vars
<1> QED BY <1>0, <1>1, <1>2, <1>3, <1>4, <1>5, <1>6, <1>7 DEF Next, Client

\* A connection that is served was, and keeps its server, or is new.
LEMMA ServingOrigin ==
  ASSUME TypeOK, Opened, Unused, [Next]_vars, NEW k \in Conns, k \in serving'
  PROVE  \/ k \in serving /\ server'[k] = server[k] /\ ~CloseConn(k) /\ ~Restart(server[k])
         \/ uploads'[k] = 0
<1>0. ~CloseConn(k) /\ (k \in serving => ~Restart(server[k]))
  BY DEF CloseConn, Restart
<1>1. ASSUME NEW c \in Clients, Refresh(c)
      PROVE  (k \in serving /\ server'[k] = server[k]) \/ uploads'[k] = 0
  <2>1. CASE k \in serving
    BY <1>1, <2>1, RefreshFacts DEF Opened
  <2>2. CASE k \notin serving
    <3>1. state[k] = "new" /\ UNCHANGED uploads
      <4>1. serving' = serving \/ \E l \in Conns : state[l] = "new" /\ serving' = serving \cup {l}
        BY <1>1, RefreshPlaces
      <4>2. UNCHANGED uploads
        BY <1>1 DEF Refresh, history
      <4> QED BY <2>2, <4>1, <4>2
    <3> QED BY <3>1 DEF Unused
  <2> QED BY <2>1, <2>2
<1>2. ASSUME NEW c \in Clients, Exec(c) \/ Receive(c) \/ Eof(c) \/ Timeout(c) \/ SendScript(c)
      PROVE  UNCHANGED <<serving, server>>
  BY <1>2 DEF Exec, Receive, Eof, Timeout, SendScript, serverVars, connVars
<1>3. ASSUME NEW l \in Conns, Loop(l) PROVE UNCHANGED server /\ serving' \subseteq serving
  BY <1>3 DEF Loop, Dispatch, Flush, CloseConn, serverVars, connVars
<1>4. ASSUME NEW s \in Servers, Restart(s) PROVE UNCHANGED server /\ serving' \subseteq serving
  BY <1>4 DEF Restart
<1>5. UNCHANGED vars => UNCHANGED <<serving, server>>
  BY DEF vars, serverVars, connVars
<1> QED BY <1>0, <1>1, <1>2, <1>3, <1>4, <1>5, ThreadQuiet DEF Next, Client

LEMMA StoredStep ==
  ASSUME TypeOK, Opened, Working, Serial, Fitting, UInv, ~overlapped', [Next]_vars
  PROVE  Stored'
<1> USE DEF UInv, Placed, Fitting
<1>0. /\ spent["fault"] \in Nat /\ spent'["fault"] \in Nat /\ spent'["fault"] >= spent["fault"]
      /\ \A k \in Conns : uploads[k] \in Nat
  BY SpentStep DEF TypeOK
<1>1. serving' \subseteq Conns
  BY TypeStep DEF TypeOK
<1> SUFFICES ASSUME NEW k \in Conns, k \in serving', uploads'[k] > spent'["fault"],
                    redis'[server'[k]][Name[k]] = None, cache'[server'[k]][Name[k]] = None
             PROVE  FALSE
  BY <1>1 DEF Stored
<1>2. /\ k \in serving /\ server'[k] = server[k] /\ ~CloseConn(k) /\ ~Restart(server[k])
  BY <1>0, ServingOrigin
<1> PICK s \in Servers : s = server[k]
  BY <1>2 DEF ServedApart
<1> PICK n \in Names : n = Name[k]
  BY DEF Names
<1>3. uploads'[k] = uploads[k]
  <2>1. ASSUME NEW c \in Clients, redis'[s][n] = c PROVE FALSE
    BY <1>2, <2>1, ValuesAssumption
  <2> QED BY <2>1, UploadStep
<1>4. uploads[k] > spent["fault"]
  BY <1>0, <1>3
<1>5. ~Unmet(k)
  BY <1>0, <1>4 DEF Charged
<1>6. ASSUME cache[s][n] # None PROVE FALSE
  <2>1. ASSUME NEW p \in Threads, Write(p) PROVE job[p].text # None
    BY <2>1 DEF Write, Cached
  <2>2. ASSUME NEW j \in serving, CloseConn(j), Name[j] = n PROVE FALSE
    BY <1>2, <2>2 DEF ServedApart
  <2> QED BY <1>2, <1>6, <2>1, <2>2, CacheChange, ValuesAssumption
<1>7. redis[s][n] # None
  BY <1>2, <1>4, <1>6 DEF Stored
<1>8. PICK p \in Threads : Del(p) /\ p[1] = s /\ Key(p) = n
  BY <1>2, <1>7, RedisChange
<1>9. wpc[p] = "del" /\ job[p] # None
  BY <1>8 DEF Del, TypeOK
<1>10. Conn(p) = k /\ Dir(p) = n
  BY <1>2, <1>8, <1>9, OwnDirs
<1>11. job[p].text # None
  BY <1>5, <1>9, <1>10 DEF Unmet, NoText, Conn
<1>12. cache[s][n] # None
  BY <1>8, <1>9, <1>10, <1>11 DEF Cached
<1> QED BY <1>6, <1>12

LEMMA UInvStart == Init => UInv
<1> SUFFICES ASSUME Init PROVE UInv
  OBVIOUS
<1> USE DEF Init
<1>1. \A s \in Servers : DOMAIN tasks[s] = {}
  OBVIOUS
<1>2. Placed
  BY <1>1, ValuesAssumption DEF Placed, Closed, ServedApart, Homes, Unused, Held, HasTask, HasJob
<1>3. Fresh /\ Missing /\ Cached
  BY DEF Fresh, Missing, Cached
<1>4. Charged /\ Bounded /\ Stored
  <2>1. spent["fault"] = 0 /\ \A k \in Conns : uploads[k] = 0
    BY Events
  <2>2. serving = {}
    OBVIOUS
  <2> QED BY <2>1, <2>2 DEF Charged, Bounded, Stored
<1> QED BY <1>2, <1>3, <1>4 DEF UInv

LEMMA UInvStep ==
  ASSUME MaxTimeouts = 0, Inv, SInv, overlapped \/ UInv, [Next]_vars
  PROVE  (overlapped \/ UInv)'
<1> SUFFICES ASSUME ~overlapped' PROVE UInv'
  OBVIOUS
<1>1. ~overlapped
  BY OverlapStays
<1>2. TypeOK /\ Opened /\ Working /\ Fitting /\ Serial /\ Ended /\ UInv
  BY <1>1 DEF Inv, SInv
<1>3. Placed'
  BY <1>2, PlacedStep DEF UInv
<1>4. Fresh' /\ Missing' /\ Cached'
  BY <1>2, FreshStep, MissingStep, CachedStep DEF UInv, Placed, Fitting
<1> QED BY <1>2, <1>3, <1>4, ChargedStep, StoredStep DEF UInv

\* Without time-outs one upload is enough for a connection, and one more for each
\* time redis could not be reached, however servers restart, clients move and
\* names are reused, as long as no two threads meet in the redisContext.
THEOREM OneUpload == Spec => [](MaxTimeouts = 0 => UploadOnce)
<1> DEFINE IInv == MaxTimeouts = 0 => SInv /\ (overlapped \/ UInv)
<1>1. Init => IInv
  BY SInvStart, UInvStart
<1>2. Inv /\ IInv /\ [Next]_vars => IInv'
  BY SInvStep, UInvStep DEF Inv
<1>3. IInv => (MaxTimeouts = 0 => UploadOnce)
  BY DEF UInv, Bounded, UploadOnce
<1> HIDE DEF IInv
<1> QED BY <1>1, <1>2, <1>3, InvAlways, PTL DEF Spec
-----------------------------------------------------------------------------
(***************************************************************************)
(* Then for a time-out.  The answer of the call that has timed out may     *)
(* still come, and may come doubled; but what the client and the server    *)
(* hold of a connection is in at most two places, and these are in order.  *)
(***************************************************************************)

\* One time-out, calls that are told apart by their numbers, one command thread.
Late == MaxTimeouts <= 1 /\ ~Cyclic /\ \A v, w \in Workers : v = w

\* The oldest call that event j answers.
HeadOf(j) == IF j.send # <<>> THEN j.send[1].req ELSE j.reqs[1]

\* The places in which a request goes its way, from its end: the client's socket,
\* the reply buffer, the command thread, its queue.  x is the oldest call whose
\* answer, or request, connection k has at place n.
At(k, n, x) ==
  \/ n = 0 /\ ans[k] # <<>> /\ x = ans[k][1].req
  \/ n = 1 /\ reply[k] # <<>> /\ x = reply[k][1].req
  \/ n = 2 /\ \E p \in Threads : job[p] # None /\ job[p].conn = k /\ x = HeadOf(job[p])
  \/ n > 2 /\ \E s \in Servers : /\ n - 2 \in DOMAIN tasks[s] /\ tasks[s][n - 2].conn = k
                                 /\ x = HeadOf(tasks[s][n - 2])

\* The last place is the server's socket.
Unread(k, x) == reqs[k] # <<>> /\ x = reqs[k][1]

Oldest(k, x) == Unread(k, x) \/ \E n \in Nat : At(k, n, x)
Spots(k) == {n \in Nat : \E x \in Calls : At(k, n, x)} \cup (IF reqs[k] # <<>> THEN {-1} ELSE {})

\* What is further on its way is older.
InOrder(k) ==
  /\ \A m, n \in Nat : \A x, y \in Calls : m < n /\ At(k, m, x) /\ At(k, n, y) => x <= y
  /\ \A n \in Nat : \A x, y \in Calls : At(k, n, x) /\ Unread(k, y) => x <= y

\* A client asks for nothing older than it has heard.
Recent(c, k) ==
  \A x \in Calls : Oldest(k, x) => x <= req[c] /\ \A i \in Calls : heard[c][i] <= x

\* A call is in one place, besides it the one that timed out.
AtMost(S, w) ==
  /\ w = 0 => S = {}
  /\ w = 1 => \A m, n \in S : m = n
  /\ w = 2 => \A l, m, n \in S : l = m \/ m = n \/ l = n
Room(c) == (IF pc[c] = "wait" THEN 1 ELSE 0) + spent["timeout"]

Lined(c, k) == InOrder(k) /\ Recent(c, k) /\ AtMost(Spots(k), Room(c))

\* A new connection holds nothing; a thread at its store has an answer; a client
\* has heard of no call that it has not made.
Blank == \A k \in Conns : state[k] = "new" => ~Held(k) /\ ans[k] = <<>>
Sent == \A p \in Threads : wpc[p] = "store" => job[p].send # <<>>
Past == \A c \in Clients : \A i \in Calls : heard[c][i] <= req[c] /\ (i > req[c] => heard[c][i] = 0)
TimeoutsBounded == spent["timeout"] <= MaxTimeouts

LInv ==
  /\ Ended /\ Blank /\ Sent /\ Past /\ TimeoutsBounded /\ NeverOlder
  /\ \A c \in Clients, k \in Conns : fd[c] = k => Lined(c, k)
-----------------------------------------------------------------------------
(* Lemmas.                                                                 *)

LEMMA OnlyThread ==
  ASSUME Late, NEW p \in Threads, NEW q \in Threads, p[1] = q[1]
  PROVE  p = q
BY DEF Late, Threads

LEMMA RoomFacts ==
  ASSUME Late, TypeOK, TimeoutsBounded, NEW c \in Clients
  PROVE  Room(c) \in 0 .. 2 /\ spent["timeout"] \in {0, 1}
<1>1. spent["timeout"] \in Nat
  BY Events DEF TypeOK
<1>2. MaxTimeouts \in Nat
  BY BoundsAssumption
<1> QED BY <1>1, <1>2 DEF Room, Late, TimeoutsBounded

LEMMA AtMostLess ==
  ASSUME NEW S, NEW T, NEW v \in 0 .. 2, NEW w \in 0 .. 2, AtMost(S, v), T \subseteq S, v <= w
  PROVE  AtMost(T, w)
BY DEF AtMost

\* What connection k has moves on: each new place n has an old one in g[n].
Moves(k) ==
  /\ reqs'[k] \in {reqs[k], <<>>}
  /\ \E g \in [Nat -> SUBSET Nat] :
       /\ \A m, n \in Nat : m < n => \A a \in g[m], b \in g[n] : a < b
       /\ \A n \in Nat : \A x \in Calls : At(k, n, x)' => \E m \in g[n] : At(k, m, x)

LEMMA Moved ==
  ASSUME NEW k \in Conns, Moves(k)
  PROVE  /\ InOrder(k) => InOrder(k)'
         /\ \A x \in Calls : Oldest(k, x)' => Oldest(k, x)
         /\ \A w \in 0 .. 2 : AtMost(Spots(k), w) => AtMost(Spots(k)', w)
<1>1. PICK g \in [Nat -> SUBSET Nat] :
        /\ \A m, n \in Nat : m < n => \A a \in g[m], b \in g[n] : a < b
        /\ \A n \in Nat : \A x \in Calls : At(k, n, x)' => \E m \in g[n] : At(k, m, x)
  BY DEF Moves
<1>2. \A n \in Nat : \A m \in g[n] : m \in Nat
  BY <1>1
<1>3. \A x : Unread(k, x)' => Unread(k, x)
  BY DEF Moves, Unread
<1>4. InOrder(k) => InOrder(k)'
  BY <1>1, <1>2, <1>3 DEF InOrder
<1>5. \A x \in Calls : Oldest(k, x)' => Oldest(k, x)
  BY <1>1, <1>2, <1>3 DEF Oldest
<1>6. ASSUME NEW n \in Spots(k)'
      PROVE  \/ n = -1 /\ -1 \in Spots(k)
             \/ n \in Nat /\ \E m \in g[n] : m \in Spots(k)
  <2>1. CASE n \in Nat
    <3>1. PICK x \in Calls : At(k, n, x)'
      BY <1>6, <2>1 DEF Spots
    <3>2. PICK m \in g[n] : At(k, m, x)
      BY <1>1, <2>1, <3>1
    <3> QED BY <1>2, <2>1, <3>2 DEF Spots
  <2>2. CASE n \notin Nat
    <3>1. reqs'[k] # <<>> /\ n = -1
      BY <1>6, <2>2 DEF Spots
    <3>2. reqs[k] # <<>>
      BY <3>1 DEF Moves
    <3>3. -1 \in Spots(k)
      BY <3>2 DEF Spots
    <3> QED BY <3>1, <3>3
  <2> QED BY <2>1, <2>2
<1>7. ASSUME NEW w \in 0 .. 2, AtMost(Spots(k), w) PROVE AtMost(Spots(k)', w)
  <2>1. ASSUME NEW m \in Spots(k)', NEW n \in Spots(k)', m # n
        PROVE  \E a, b \in Spots(k) :
                 /\ a # b
                 /\ IF m = -1 THEN a = -1 ELSE m \in Nat /\ a \in g[m]
                 /\ IF n = -1 THEN b = -1 ELSE n \in Nat /\ b \in g[n]
    <3>1. PICK a \in Spots(k) : IF m = -1 THEN a = -1 ELSE m \in Nat /\ a \in g[m]
      BY <1>6
    <3>2. PICK b \in Spots(k) : IF n = -1 THEN b = -1 ELSE n \in Nat /\ b \in g[n]
      BY <1>6
    <3>3. a # b
      BY <1>1, <1>2, <2>1, <3>1, <3>2
    <3> QED BY <3>1, <3>2, <3>3
  <2>2. CASE w = 0
    BY <1>6, <1>7, <2>2 DEF AtMost
  <2>3. CASE w = 1
    BY <1>7, <2>1, <2>3 DEF AtMost
  <2>4. CASE w = 2
    <3> SUFFICES ASSUME NEW l \in Spots(k)', NEW m \in Spots(k)', NEW n \in Spots(k)',
                        l # m, m # n, l # n
                 PROVE  FALSE
      BY <2>4 DEF AtMost
    <3>1. PICK a \in Spots(k) : IF l = -1 THEN a = -1 ELSE l \in Nat /\ a \in g[l]
      BY <1>6
    <3>2. PICK b \in Spots(k) : IF m = -1 THEN b = -1 ELSE m \in Nat /\ b \in g[m]
      BY <1>6
    <3>3. PICK d \in Spots(k) : IF n = -1 THEN d = -1 ELSE n \in Nat /\ d \in g[n]
      BY <1>6
    <3>4. a # b
      BY <1>1, <1>2, <3>1, <3>2
    <3>5. b # d
      BY <1>1, <1>2, <3>2, <3>3
    <3>6. a # d
      BY <1>1, <1>2, <3>1, <3>3
    <3> QED BY <1>7, <2>4, <3>4, <3>5, <3>6 DEF AtMost
  <2> QED BY <2>2, <2>3, <2>4
<1> QED BY <1>4, <1>5, <1>7

\* A step that leaves the connection's places alone, or empties them.
LEMMA MovesNot ==
  ASSUME NEW k \in Conns,
         reqs'[k] \in {reqs[k], <<>>}, ans'[k] \in {ans[k], <<>>}, reply'[k] \in {reply[k], <<>>},
         \A p \in Threads : job'[p] # None /\ job'[p].conn = k =>
           job[p] # None /\ job[p].conn = k /\ HeadOf(job'[p]) = HeadOf(job[p]),
         \A s \in Servers : \A i \in DOMAIN tasks'[s] : tasks'[s][i].conn = k =>
           i \in DOMAIN tasks[s] /\ tasks'[s][i] = tasks[s][i]
  PROVE  Moves(k) /\ \A n \in Nat : \A x \in Calls : At(k, n, x)' => At(k, n, x)
<1> DEFINE g == [n \in Nat |-> {n}]
<1>1. ASSUME NEW n \in Nat, NEW x \in Calls, At(k, n, x)' PROVE At(k, n, x)
  <2>1. CASE n = 0 \/ n = 1
    BY <1>1, <2>1 DEF At
  <2>2. CASE n = 2
    <3>1. PICK p \in Threads : job'[p] # None /\ job'[p].conn = k /\ x = HeadOf(job'[p])
      BY <1>1, <2>2 DEF At, HeadOf
    <3> QED BY <2>2, <3>1 DEF At
  <2>3. CASE n > 2
    <3>1. PICK s \in Servers : n - 2 \in DOMAIN tasks'[s] /\ tasks'[s][n - 2].conn = k /\ x = HeadOf(tasks'[s][n - 2])
      BY <1>1, <2>3 DEF At, HeadOf
    <3> QED BY <2>3, <3>1 DEF At
  <2> QED BY <2>1, <2>2, <2>3
<1>2. g \in [Nat -> SUBSET Nat] /\ \A m, n \in Nat : m < n => \A a \in g[m], b \in g[n] : a < b
  OBVIOUS
<1>3. \A n \in Nat : \A x \in Calls : At(k, n, x)' => \E m \in g[n] : At(k, m, x)
  BY <1>1
<1> HIDE DEF g
<1> QED BY <1>1, <1>2, <1>3 DEF Moves
-----------------------------------------------------------------------------
(* What a connection has moves on with the steps of the server.            *)

\* A thread that goes on with its event keeps its connection and its oldest call.
LEMMA HeadKept ==
  ASSUME TypeOK, Working, NEW p \in Threads, Thread(p), ~Take(p), ~Store(p)
  PROVE  /\ UNCHANGED <<reply, tasks>>
         /\ job[p] # None /\ job'[p] # None /\ job'[p].conn = job[p].conn
         /\ HeadOf(job'[p]) = HeadOf(job[p])
         /\ wpc[p] # "store" /\ (wpc'[p] = "store" => job'[p].send # <<>>)
         /\ \A q \in Threads : q # p => job'[q] = job[q] /\ wpc'[q] = wpc[q]
<1>0. wpc[p] \notin {"idle", "store"} /\ UNCHANGED <<reply, tasks>>
  BY ThreadKinds
<1>1. /\ job[p] # None /\ job[p].reqs # <<>> /\ Call(p) = job[p].reqs[1]
      /\ job[p].send \in Seq(Answers) /\ job[p].reqs \in Seq(Calls)
  <2>1. job[p] # None /\ job[p].send \in Seq(Answers) /\ job[p].reqs \in Seq(Calls)
    BY <1>0, JobsTyped DEF TypeOK
  <2>2. job[p].reqs # <<>>
    BY <1>0 DEF Working
  <2> QED BY <2>1, <2>2, Shorter DEF Call
<1>2. ASSUME NEW a \in Answers, a.req = Call(p), Answer(p, a)
      PROVE  /\ job'[p] # None /\ job'[p].send # <<>> /\ job'[p].conn = job[p].conn
             /\ HeadOf(job'[p]) = HeadOf(job[p])
             /\ \A q \in Threads : q # p => job'[q] = job[q] /\ wpc'[q] = wpc[q]
  <2>1. /\ job'[p] # None /\ job'[p].conn = job[p].conn /\ job'[p].send = Append(job[p].send, a)
        /\ \A q \in Threads : q # p => job'[q] = job[q] /\ wpc'[q] = wpc[q]
    BY <1>0, <1>2, AnswerFacts
  <2>2. \A q \in Seq(Answers) : Append(q, a) # <<>> /\ Append(q, a)[1] = IF q = <<>> THEN a ELSE q[1]
    <3> SUFFICES ASSUME NEW q \in Seq(Answers)
                 PROVE  Append(q, a) # <<>> /\ Append(q, a)[1] = IF q = <<>> THEN a ELSE q[1]
      OBVIOUS
    <3>1. Len(Append(q, a)) = Len(q) + 1 /\ Len(q) \in Nat
      OBVIOUS
    <3>2. Append(q, a) # <<>>
      BY <3>1
    <3>3. CASE q = <<>>
      BY <3>3
    <3>4. CASE q # <<>>
      <4>1. 1 \in DOMAIN q
        BY <3>4, Shorter
      <4> QED BY <3>4, <4>1
    <3> QED BY <3>2, <3>3, <3>4
  <2>3. job'[p].send # <<>> /\ job'[p].send[1] = IF job[p].send = <<>> THEN a ELSE job[p].send[1]
    BY <1>1, <2>1, <2>2
  <2> QED BY <1>1, <1>2, <2>1, <2>3 DEF HeadOf
<1>3. ASSUME job'[p].reqs = job[p].reqs, job'[p].send = job[p].send
      PROVE  HeadOf(job'[p]) = HeadOf(job[p])
  BY <1>3 DEF HeadOf
<1> QED BY <1>0, <1>1, <1>2, <1>3, ThreadKinds

\* The events of a connection are at its server.
LEMMA AtServer ==
  ASSUME Working, NEW k
  PROVE  /\ \A s \in Servers : \A i \in DOMAIN tasks[s] : tasks[s][i].conn = k => server[k] = s
         /\ \A p \in Threads : job[p] # None /\ job[p].conn = k => server[k] = p[1]
BY DEF Working, Known, Conn

LEMMA FirstOfBoth ==
  ASSUME NEW S, NEW a \in Seq(S), NEW b \in Seq(S), b # <<>>
  PROVE  (a \o b)[1] = IF a = <<>> THEN b[1] ELSE a[1]
<1>1. Len(a) \in Nat /\ Len(b) \in Nat /\ Len(b) # 0
  OBVIOUS
<1>2. CASE a = <<>>
  <2>1. a \o b = b
    BY <1>2
  <2> QED BY <1>2, <2>1
<1>3. CASE a # <<>>
  <2>1. Len(a) # 0
    BY <1>3
  <2>2. 1 \in 1 .. Len(a)
    BY <1>1, <2>1
  <2> QED BY <1>3, <2>2
<1> QED BY <1>2, <1>3

LEMMA FlushMoves ==
  ASSUME TypeOK, NEW l \in Conns, Flush(l), NEW k \in Conns
  PROVE  Moves(k)
<1>0. /\ UNCHANGED <<reqs, tasks, job>> /\ reply[l] # <<>> /\ reply'[l] = <<>>
      /\ \A m \in Conns : m # l => reply'[m] = reply[m] /\ ans'[m] = ans[m]
      /\ ans'[l] = ans[l] \/ ans'[l] = ans[l] \o reply[l]
      /\ reply[l] \in Seq(Answers) /\ ans[l] \in Seq(Answers)
  BY DEF Flush, TypeOK
<1>1. CASE k # l
  BY <1>0, <1>1, MovesNot
<1>2. CASE k = l
  <2> DEFINE g == [n \in Nat |-> IF n = 0 THEN {0, 1} ELSE IF n = 1 THEN {} ELSE {n}]
  <2>1. g \in [Nat -> SUBSET Nat] /\ \A m, n \in Nat : m < n => \A a \in g[m], b \in g[n] : a < b
    OBVIOUS
  <2>2. ASSUME NEW x, At(k, 0, x)' PROVE At(k, 0, x) \/ At(k, 1, x)
    <3>1. (ans[l] \o reply[l])[1] = IF ans[l] = <<>> THEN reply[l][1] ELSE ans[l][1]
      BY <1>0, FirstOfBoth
    <3>2. ans'[k] # <<>> /\ x = ans'[k][1].req
      BY <2>2 DEF At
    <3> QED BY <1>0, <1>2, <3>1, <3>2 DEF At
  <2>3. ASSUME NEW n \in Nat, NEW x, n >= 1, At(k, n, x)' PROVE n # 1 /\ At(k, n, x)
    BY <1>0, <1>2, <2>3 DEF At, HeadOf
  <2>4. \A n \in Nat : \A x \in Calls : At(k, n, x)' => \E m \in g[n] : At(k, m, x)
    BY <2>2, <2>3
  <2> HIDE DEF g
  <2> QED BY <1>0, <2>1, <2>4 DEF Moves
<1> QED BY <1>1, <1>2

LEMMA TakeMoves ==
  ASSUME Late, TypeOK, Working, NEW p \in Threads, Take(p), NEW k \in Conns
  PROVE  Moves(k)
<1> DEFINE s == p[1]
<1>0. /\ s \in Servers /\ tasks \in [Servers -> Seq(Jobs)] /\ job \in [Threads -> Jobs \cup {None}]
      /\ job[p] = None /\ tasks[s] # <<>> /\ UNCHANGED <<reqs, reply, ans>>
  BY DEF Take, TypeOK, Threads, connVars
<1>1. /\ job'[p] = tasks[s][1] /\ \A q \in Threads : q # p => job'[q] = job[q]
      /\ 1 \in DOMAIN tasks[s]
  BY <1>0, Shorter DEF Take
<1>2. /\ \A t \in Servers : t # s => tasks'[t] = tasks[t]
      /\ \A i \in DOMAIN tasks'[s] : i + 1 \in DOMAIN tasks[s] /\ tasks'[s][i] = tasks[s][i + 1]
  <2>1. tasks' = [tasks EXCEPT ![s] = Tail(@)]
    BY DEF Take
  <2> QED BY <1>0, <2>1, Shorter
<1> HIDE DEF s
<1>3. CASE server[k] # s
  <2>1. \A q \in Threads : job'[q] # None /\ job'[q].conn = k => q # p
    BY <1>0, <1>1, <1>3, AtServer
  <2>2. \A t \in Servers : \A i \in DOMAIN tasks'[t] : tasks'[t][i].conn = k => t # s
    BY <1>0, <1>2, <1>3, AtServer
  <2>3. /\ reqs'[k] = reqs[k] /\ ans'[k] = ans[k] /\ reply'[k] = reply[k]
    BY <1>0
  <2>4. \A q \in Threads : job'[q] # None /\ job'[q].conn = k =>
          job[q] # None /\ job[q].conn = k /\ HeadOf(job'[q]) = HeadOf(job[q])
    BY <1>1, <2>1
  <2>5. \A t \in Servers : \A i \in DOMAIN tasks'[t] : tasks'[t][i].conn = k =>
          i \in DOMAIN tasks[t] /\ tasks'[t][i] = tasks[t][i]
    BY <1>2, <2>2
  <2> QED BY <2>3, <2>4, <2>5, MovesNot
<1>4. CASE server[k] = s
  <2> DEFINE g == [n \in Nat |-> IF n < 2 THEN {n} ELSE {n + 1}]
  <2>1. g \in [Nat -> SUBSET Nat] /\ \A m, n \in Nat : m < n => \A a \in g[m], b \in g[n] : a < b
    OBVIOUS
  <2>2. ASSUME NEW x, At(k, 2, x)' PROVE At(k, 3, x)
    <3>1. PICK q \in Threads : job'[q] # None /\ job'[q].conn = k /\ x = HeadOf(job'[q])
      BY <2>2 DEF At, HeadOf
    <3>2. q = p
      BY <1>1, <1>4, <3>1, AtServer, OnlyThread DEF s
    <3>3. 3 - 2 \in DOMAIN tasks[s] /\ tasks[s][3 - 2].conn = k /\ x = HeadOf(tasks[s][3 - 2])
      BY <1>1, <3>1, <3>2
    <3> QED BY <1>0, <3>3 DEF At
  <2>3. ASSUME NEW n \in Nat, NEW x, n > 2, At(k, n, x)' PROVE At(k, n + 1, x)
    <3>1. PICK t \in Servers : n - 2 \in DOMAIN tasks'[t] /\ tasks'[t][n - 2].conn = k /\ x = HeadOf(tasks'[t][n - 2])
      BY <2>3 DEF At, HeadOf
    <3>2. t = s
      BY <1>2, <1>4, <3>1, AtServer
    <3>3. (n - 2) + 1 \in DOMAIN tasks[s] /\ tasks'[s][n - 2] = tasks[s][(n - 2) + 1]
      BY <1>2, <3>1, <3>2
    <3>4. (n - 2) + 1 = (n + 1) - 2 /\ n + 1 > 2
      BY <2>3
    <3>5. (n + 1) - 2 \in DOMAIN tasks[s] /\ tasks[s][(n + 1) - 2].conn = k /\ x = HeadOf(tasks[s][(n + 1) - 2])
      BY <3>1, <3>2, <3>3, <3>4
    <3> QED BY <1>0, <3>4, <3>5 DEF At
  <2>4. ASSUME NEW n \in Nat, NEW x, n < 2, At(k, n, x)' PROVE At(k, n, x)
    BY <1>0, <2>4 DEF At
  <2>5. \A n \in Nat : \A x \in Calls : At(k, n, x)' => \E m \in g[n] : At(k, m, x)
    <3> SUFFICES ASSUME NEW n \in Nat, NEW x \in Calls, At(k, n, x)' PROVE \E m \in g[n] : At(k, m, x)
      OBVIOUS
    <3>1. n < 2 \/ n = 2 \/ n > 2
      OBVIOUS
    <3> QED BY <2>2, <2>3, <2>4, <3>1
  <2> HIDE DEF g
  <2> QED BY <1>0, <2>1, <2>5 DEF Moves
<1> QED BY <1>3, <1>4

LEMMA StoreMoves ==
  ASSUME Late, TypeOK, Working, Sent, NEW p \in Threads, Store(p), NEW k \in Conns
  PROVE  Moves(k)
<1>0. /\ wpc[p] = "store" /\ job[p] # None /\ job[p].send # <<>> /\ job[p].conn \in Conns
      /\ UNCHANGED <<reqs, ans, tasks>> /\ job'[p] = None
      /\ \A q \in Threads : q # p => job'[q] = job[q]
      /\ \A l \in Conns : l # job[p].conn => reply'[l] = reply[l]
      /\ reply'[job[p].conn] \in {reply[job[p].conn], job[p].send}
  <2>1. reply \in [Conns -> Seq(Answers)] /\ job \in [Threads -> Jobs \cup {None}]
        /\ (wpc[p] = "idle" <=> job[p] = None)
    BY DEF TypeOK
  <2>2. wpc[p] = "store" /\ job[p] # None /\ job[p].send # <<>> /\ job[p].conn \in Conns
    BY <2>1, JobsTyped DEF Store, Sent
  <2> QED BY <2>1, <2>2 DEF Store, connVars, Conn
<1>1. CASE k # job[p].conn
  BY <1>0, <1>1, MovesNot
<1>2. CASE k = job[p].conn
  <2> DEFINE g == [n \in Nat |-> IF n = 1 THEN {1, 2} ELSE IF n = 2 THEN {} ELSE {n}]
  <2>1. g \in [Nat -> SUBSET Nat] /\ \A m, n \in Nat : m < n => \A a \in g[m], b \in g[n] : a < b
    OBVIOUS
  <2>2. ASSUME NEW x, At(k, 1, x)' PROVE At(k, 1, x) \/ At(k, 2, x)
    <3>1. reply'[k] # <<>> /\ x = reply'[k][1].req
      BY <2>2 DEF At
    <3>2. reply'[k] = job[p].send => x = HeadOf(job[p])
      BY <1>0, <3>1 DEF HeadOf
    <3> QED BY <1>0, <1>2, <3>1, <3>2 DEF At
  <2>3. ~\E x : At(k, 2, x)'
    <3> SUFFICES ASSUME NEW q \in Threads, job'[q] # None, job'[q].conn = k PROVE FALSE
      BY DEF At, HeadOf
    <3>1. q # p /\ job[q] # None /\ job[q].conn = k
      BY <1>0
    <3>2. server[k] = q[1] /\ server[k] = p[1]
      BY <1>0, <1>2, <3>1, AtServer
    <3> QED BY <3>1, <3>2, OnlyThread
  <2>4. ASSUME NEW n \in Nat, NEW x, n # 1, n # 2, At(k, n, x)' PROVE At(k, n, x)
    BY <1>0, <2>4 DEF At, HeadOf
  <2>5. \A n \in Nat : \A x \in Calls : At(k, n, x)' => \E m \in g[n] : At(k, m, x)
    BY <2>2, <2>3, <2>4
  <2> HIDE DEF g
  <2> QED BY <1>0, <2>1, <2>5 DEF Moves
<1> QED BY <1>1, <1>2

\* What a dispatched event adds to the queue.
LEMMA DispatchTasks ==
  ASSUME TypeOK, NEW l \in Conns, Dispatch(l), NEW s \in Servers, NEW i \in DOMAIN tasks'[s]
  PROVE  \/ i \in DOMAIN tasks[s] /\ tasks'[s][i] = tasks[s][i]
         \/ /\ s = server[l] /\ i = Len(tasks[s]) + 1
            /\ tasks'[s][i] = [conn |-> l, reqs |-> reqs[l], send |-> reply[l], text |-> None]
<1> DEFINE e == [conn |-> l, reqs |-> reqs[l], send |-> reply[l], text |-> None]
<1>1. tasks \in [Servers -> Seq(Jobs)] /\ e \in Jobs
  BY DEF TypeOK, Jobs
<1>2. tasks' = [tasks EXCEPT ![server[l]] = Append(@, e)]
  BY DEF Dispatch
<1> HIDE DEF e
<1>3. CASE s = server[l]
  <2>1. tasks'[s] = Append(tasks[s], e)
    BY <1>1, <1>2, <1>3
  <2> QED BY <1>1, <1>3, <2>1, Longer DEF e
<1>4. CASE s # server[l]
  BY <1>1, <1>2, <1>4
<1> QED BY <1>3, <1>4

\* Except for what a client adds, and what is copied from its entry, a connection's
\* requests and answers only move on.
LEMMA MovesStep ==
  ASSUME Late, TypeOK, Working, Sent, [Next]_vars, NEW k \in Conns
  PROVE  \/ Moves(k) \/ Dispatch(k)
         \/ \E c \in Clients : Exec(c) /\ fd[c] = k /\ state[k] = "up"
<1> USE DEF connVars, serverVars
<1>0. ans \in [Conns -> Seq(Answers)] /\ reqs \in [Conns -> Seq(Calls)]
  BY DEF TypeOK
<1>1. ASSUME UNCHANGED <<reply, tasks, job>>, reqs'[k] \in {reqs[k], <<>>}, ans'[k] \in {ans[k], <<>>}
      PROVE  Moves(k)
  BY <1>1, MovesNot
<1>2. ASSUME NEW c \in Clients, Refresh(c) \/ Eof(c) \/ Timeout(c) \/ SendScript(c) PROVE Moves(k)
  BY <1>1, <1>2 DEF Refresh, Eof, Timeout, SendScript
<1>3. ASSUME NEW c \in Clients, Receive(c) PROVE Moves(k)
  <2>1. UNCHANGED <<reply, tasks, job, reqs>> /\ ans' = [ans EXCEPT ![fd[c]] = <<>>]
    BY <1>3 DEF Receive
  <2>2. ans'[k] \in {ans[k], <<>>}
    BY <1>0, <2>1
  <2> QED BY <1>1, <2>1, <2>2
<1>4. ASSUME NEW c \in Clients, Exec(c) PROVE Moves(k) \/ (fd[c] = k /\ state[k] = "up")
  <2>1. UNCHANGED <<reply, tasks, job, ans>>
    BY <1>4 DEF Exec
  <2>2. \/ UNCHANGED reqs
        \/ state[fd[c]] = "up" /\ reqs' = [reqs EXCEPT ![fd[c]] = Append(@, NextCall(req[c]))]
    BY <1>4 DEF Exec
  <2>3. reqs'[k] = reqs[k] \/ (fd[c] = k /\ state[k] = "up")
    BY <1>0, <2>2
  <2> QED BY <1>1, <2>1, <2>3
<1>5. ASSUME NEW l \in Conns, Dispatch(l), l # k PROVE Moves(k)
  <2>1. UNCHANGED <<reply, job, ans>> /\ reqs'[k] = reqs[k]
    BY <1>0, <1>5 DEF Dispatch
  <2>2. ASSUME NEW s \in Servers, NEW i \in DOMAIN tasks'[s], tasks'[s][i].conn = k
        PROVE  i \in DOMAIN tasks[s] /\ tasks'[s][i] = tasks[s][i]
    <3>1. [conn |-> l, reqs |-> reqs[l], send |-> reply[l], text |-> None].conn = l
      OBVIOUS
    <3>2. \/ i \in DOMAIN tasks[s] /\ tasks'[s][i] = tasks[s][i]
          \/ tasks'[s][i] = [conn |-> l, reqs |-> reqs[l], send |-> reply[l], text |-> None]
      BY <1>5, DispatchTasks
    <3>3. CASE tasks'[s][i] = [conn |-> l, reqs |-> reqs[l], send |-> reply[l], text |-> None]
      <4>1. tasks'[s][i].conn = l
        BY <3>1, <3>3
      <4> QED BY <1>5, <2>2, <4>1
    <3> QED BY <3>2, <3>3
  <2>3. \A s \in Servers : \A i \in DOMAIN tasks'[s] : tasks'[s][i].conn = k =>
          i \in DOMAIN tasks[s] /\ tasks'[s][i] = tasks[s][i]
    BY <2>2
  <2>4. reqs'[k] = reqs[k] /\ reply'[k] = reply[k] /\ ans'[k] = ans[k] /\ \A p \in Threads : job'[p] = job[p]
    BY <2>1
  <2> QED BY <2>3, <2>4, MovesNot
<1>6. ASSUME NEW l \in Conns, CloseConn(l) PROVE Moves(k)
  BY <1>1, <1>6 DEF CloseConn
<1>7. ASSUME NEW p \in Threads, Thread(p) PROVE Moves(k)
  <2>1. CASE ~Take(p) /\ ~Store(p)
    <3>1. /\ UNCHANGED <<reply, tasks, reqs, ans>>
          /\ job[p] # None /\ job'[p].conn = job[p].conn /\ HeadOf(job'[p]) = HeadOf(job[p])
          /\ \A q \in Threads : q # p => job'[q] = job[q]
      BY <1>7, <2>1, HeadKept, ThreadQuiet
    <3> QED BY <3>1, MovesNot
  <2> QED BY <2>1, TakeMoves, StoreMoves
<1>8. ASSUME NEW s \in Servers, Restart(s) PROVE Moves(k)
  <2>1. DOMAIN <<>> = {}
    OBVIOUS
  <2>2. \A t \in Servers : \A i \in DOMAIN tasks'[t] : tasks'[t] = tasks[t]
    BY <1>8, <2>1, RestartEmpties
  <2>3. \A p \in Threads : job'[p] # None => job'[p] = job[p]
    BY <1>8, RestartEmpties
  <2>4. reqs'[k] \in {reqs[k], <<>>} /\ reply'[k] \in {reply[k], <<>>} /\ ans'[k] = ans[k]
    BY <1>8, RestartEmpties
  <2> QED BY <2>2, <2>3, <2>4, MovesNot
<1>9. CASE UNCHANGED vars
  BY <1>1, <1>9 DEF vars
<1> QED BY <1>2, <1>3, <1>4, <1>5, <1>6, <1>7, <1>8, <1>9, FlushMoves DEF Next, Client, Loop
-----------------------------------------------------------------------------
(* The steps of a client and its connection.                               *)

LEMMA TimeoutStep ==
  ASSUME Late, TypeOK, TimeoutsBounded, [Next]_vars
  PROVE  /\ TimeoutsBounded' /\ spent'["timeout"] \in {0, 1}
         /\ \/ spent'["timeout"] = spent["timeout"]
            \/ spent'["timeout"] = spent["timeout"] + 1 /\ \E c \in Clients : Timeout(c)
         /\ \A c \in Clients : /\ Client(c) => spent'["timeout"] = spent["timeout"]
                               /\ Timeout(c) => spent'["timeout"] = spent["timeout"] + 1
<1>0. /\ spent \in [DOMAIN Limit -> Nat] /\ {"timeout", "fault", "restart", "move"} \subseteq DOMAIN Limit
      /\ Limit["timeout"] = MaxTimeouts /\ MaxTimeouts \in Nat
  BY Events, BoundsAssumption DEF TypeOK, Limit
<1>1. ASSUME NEW e \in {"fault", "restart", "move"}, Spend(e) PROVE spent'["timeout"] = spent["timeout"]
  BY <1>0, <1>1 DEF Spend
<1>2. Spend("timeout") => spent'["timeout"] = spent["timeout"] + 1 /\ spent["timeout"] < MaxTimeouts
  BY <1>0 DEF Spend
<1>3. ASSUME NEW c \in Clients, Client(c) PROVE spent'["timeout"] = spent["timeout"]
  BY <1>1, <1>3 DEF Client, Refresh, Exec, Receive, Eof, SendScript
<1>4. ASSUME NEW k \in Conns, Loop(k) PROVE UNCHANGED spent
  BY <1>4 DEF Loop, Dispatch, Flush, CloseConn
<1>5. ASSUME NEW p \in Threads, Thread(p) PROVE spent'["timeout"] = spent["timeout"]
  BY <1>1, <1>5 DEF Thread, Take, Access, Get, GetReply, Write, Del, DelReply, Run, Store
<1>6. ASSUME NEW s \in Servers, Restart(s) PROVE spent'["timeout"] = spent["timeout"]
  BY <1>1, <1>6 DEF Restart
<1>7. ASSUME NEW c \in Clients, Timeout(c) PROVE Spend("timeout")
  BY <1>7 DEF Timeout
<1>8. \/ spent'["timeout"] = spent["timeout"]
      \/ Spend("timeout") /\ \E c \in Clients : Timeout(c)
  BY <1>3, <1>4, <1>5, <1>6, <1>7 DEF Next, vars
<1> QED BY <1>0, <1>2, <1>3, <1>7, <1>8 DEF TimeoutsBounded, Late

\* Who touches what client c knows.
LEMMA ClientFrame ==
  ASSUME TypeOK, Opened, [Next]_vars, NEW c \in Clients,
         ~Refresh(c), ~Exec(c), ~Receive(c), ~Eof(c), ~Timeout(c)
  PROVE  /\ fd'[c] = fd[c] /\ req'[c] = req[c] /\ heard'[c] = heard[c]
         /\ pc'[c] = "wait" <=> pc[c] = "wait"
<1> USE DEF clientVars
<1>0. /\ pc \in [Clients -> {"refresh", "exec", "wait", "upload", "dead"}]
      /\ fd \in [Clients -> Conns \cup {None}] /\ req \in [Clients -> 0 .. MaxExecs]
      /\ heard \in [Clients -> [Calls -> 0 .. MaxExecs]]
  BY DEF TypeOK
<1>1. ASSUME NEW d \in Clients, d # c, Refresh(d)
      PROVE  fd'[c] = fd[c] /\ req'[c] = req[c] /\ heard'[c] = heard[c] /\ pc'[c] = pc[c]
  <2>1. fd'[c] = fd[c]
    BY <1>1, RefreshFacts
  <2> QED BY <1>0, <1>1, <2>1 DEF Refresh
<1>2. ASSUME NEW d \in Clients, d # c, Exec(d)
      PROVE  fd'[c] = fd[c] /\ req'[c] = req[c] /\ heard'[c] = heard[c] /\ pc'[c] = pc[c]
  <2>1. fd'[c] = fd[c]
    BY <1>2, ExecFacts
  <2>2. req'[c] = req[c] /\ heard'[c] = heard[c]
    BY <1>0, <1>2 DEF Exec
  <2>3. pc'[c] = pc[c]
    BY <1>0, <1>2 DEF Exec, Return
  <2> QED BY <2>1, <2>2, <2>3
<1>3. ASSUME NEW d \in Clients, d # c, Receive(d) \/ Eof(d) \/ Timeout(d)
      PROVE  fd'[c] = fd[c] /\ req'[c] = req[c] /\ heard'[c] = heard[c] /\ pc'[c] = pc[c]
  BY <1>0, <1>3 DEF Receive, Eof, Timeout, Return
<1>4. ASSUME NEW d \in Clients, SendScript(d)
      PROVE  /\ fd'[c] = fd[c] /\ req'[c] = req[c] /\ heard'[c] = heard[c]
             /\ pc'[c] = "wait" <=> pc[c] = "wait"
  BY <1>0, <1>4 DEF SendScript, Return
<1>5. ASSUME NEW k \in Conns, Loop(k) PROVE UNCHANGED <<fd, req, heard, pc>>
  BY <1>5 DEF Loop, Dispatch, Flush, CloseConn
<1>6. ASSUME NEW p \in Threads, Thread(p) PROVE UNCHANGED <<fd, req, heard, pc>>
  BY <1>6, ThreadQuiet
<1>7. ASSUME NEW s \in Servers, Restart(s) PROVE UNCHANGED <<fd, req, heard, pc>>
  BY <1>7 DEF Restart
<1>8. UNCHANGED vars => UNCHANGED <<fd, req, heard, pc>>
  BY DEF vars
<1> QED BY <1>1, <1>2, <1>3, <1>4, <1>5, <1>6, <1>7, <1>8 DEF Next, Client

LEMMA RoomStep ==
  ASSUME Late, TypeOK, TypeOK', Opened, TimeoutsBounded, [Next]_vars, NEW c \in Clients
  PROVE  /\ Room(c)' \in 0 .. 2
         /\ ~Receive(c) /\ ~Eof(c) => Room(c) <= Room(c)'
         /\ Receive(c) => Room(c)' = Room(c) - 1
         /\ Exec(c) /\ pc'[c] = "wait" => Room(c)' = Room(c) + 1
<1>0. spent["timeout"] \in {0, 1} /\ spent'["timeout"] \in {0, 1}
  BY RoomFacts, TimeoutStep
<1>1. pc \in [Clients -> {"refresh", "exec", "wait", "upload", "dead"}]
  BY DEF TypeOK
<1>2. Room(c)' \in 0 .. 2
  BY <1>0 DEF Room
<1>3. ASSUME Refresh(c) \/ Exec(c) \/ Receive(c) \/ Eof(c)
      PROVE  UNCHANGED spent["timeout"]
  BY <1>3, TimeoutStep DEF Client
<1>4. CASE Refresh(c) \/ Exec(c)
  <2>1. pc[c] # "wait"
    BY <1>4 DEF Refresh, Exec
  <2>2. ~Receive(c) /\ ~Eof(c)
    BY <2>1 DEF Receive, Eof
  <2> QED BY <1>0, <1>2, <1>3, <1>4, <2>1, <2>2 DEF Room
<1>5. CASE Receive(c)
  <2>1. pc[c] = "wait" /\ pc'[c] # "wait" /\ ~Exec(c)
    BY <1>1, <1>5 DEF Receive, Return, Exec
  <2> QED BY <1>0, <1>2, <1>3, <1>5, <2>1 DEF Room
<1>6. CASE Eof(c)
  <2>1. ~Exec(c) /\ ~Receive(c)
    BY <1>6 DEF Eof, Exec, Receive
  <2> QED BY <1>2, <1>6, <2>1
<1>7. CASE Timeout(c)
  <2>1. pc[c] = "wait" /\ ~Exec(c) /\ ~Receive(c) /\ spent'["timeout"] = spent["timeout"] + 1
    BY <1>7, TimeoutStep DEF Timeout, Exec, Receive
  <2> QED BY <1>0, <1>2, <2>1 DEF Room
<1>8. CASE ~Refresh(c) /\ ~Exec(c) /\ ~Receive(c) /\ ~Eof(c) /\ ~Timeout(c)
  <2>1. pc'[c] = "wait" <=> pc[c] = "wait"
    BY <1>8, ClientFrame
  <2>2. spent["timeout"] <= spent'["timeout"]
    BY <1>0, TimeoutStep
  <2> QED BY <1>0, <1>2, <1>8, <2>1, <2>2 DEF Room
<1> QED BY <1>4, <1>5, <1>6, <1>7, <1>8
-----------------------------------------------------------------------------
(* What a client asks for, and hears, stays in order.                      *)

LEMMA AtMostSwap ==
  ASSUME NEW S, NEW T, NEW a \in S, NEW b, T \subseteq (S \ {a}) \cup {b},
         NEW w \in 0 .. 2, AtMost(S, w)
  PROVE  AtMost(T, w)
BY DEF AtMost

LEMMA AtMostMore ==
  ASSUME NEW S, NEW T, NEW b, T \subseteq S \cup {b}, NEW v \in 0 .. 1, AtMost(S, v)
  PROVE  AtMost(T, v + 1)
BY DEF AtMost

LEMMA AtMostTaken ==
  ASSUME NEW S, NEW T, NEW a \in S, T \subseteq S \ {a}, NEW v \in 0 .. 2, AtMost(S, v)
  PROVE  AtMost(T, v - 1)
BY DEF AtMost

LEMMA Nothing ==
  ASSUME NEW k \in Conns, ~Held(k), ans[k] = <<>>
  PROVE  /\ \A n \in Nat : \A x : ~At(k, n, x)
         /\ \A x : ~Oldest(k, x)
         /\ Spots(k) = {} /\ InOrder(k)
<1>1. reqs[k] = <<>> /\ reply[k] = <<>> /\ ~HasTask(k) /\ ~HasJob(k)
  BY DEF Held
<1>2. \A n \in Nat : \A x : ~At(k, n, x)
  BY <1>1 DEF At, HasTask, HasJob
<1> QED BY <1>1, <1>2 DEF Oldest, Unread, Spots, InOrder

LEMMA Emptied ==
  ASSUME NEW k \in Conns, ~Held(k), ans[k] = <<>>, Moves(k)
  PROVE  InOrder(k)' /\ (\A x \in Calls : ~Oldest(k, x)') /\ Spots(k)' = {}
<1>1. AtMost(Spots(k), 0)
  BY Nothing DEF AtMost
<1>2. AtMost(Spots(k)', 0)
  BY <1>1, Moved
<1> QED BY <1>2, Nothing, Moved DEF AtMost

LEMMA EmptyLined ==
  ASSUME NEW k \in Conns, NEW c \in Clients, ~Held(k), ans[k] = <<>>, Moves(k), Room(c)' \in 0 .. 2
  PROVE  Lined(c, k)'
<1>1. InOrder(k)' /\ (\A x \in Calls : ~Oldest(k, x)') /\ Spots(k)' = {}
  BY Emptied
<1>2. Recent(c, k)'
  BY <1>1 DEF Recent
<1>3. AtMost(Spots(k), Room(c))'
  BY <1>1 DEF AtMost
<1> QED BY <1>1, <1>2, <1>3 DEF Lined

LEMMA MovesLined ==
  ASSUME Late, TypeOK, TypeOK', Opened, TimeoutsBounded, [Next]_vars,
         NEW c \in Clients, NEW k \in Conns, Lined(c, k), Moves(k), ~Receive(c), ~Eof(c),
         req[c] <= req'[c], \A i \in Calls : heard'[c][i] \in {0, heard[c][i]}
  PROVE  Lined(c, k)'
<1>0. /\ InOrder(k) /\ Recent(c, k) /\ AtMost(Spots(k), Room(c))
      /\ Room(c) \in 0 .. 2 /\ Room(c)' \in 0 .. 2 /\ Room(c) <= Room(c)'
  BY RoomFacts, RoomStep DEF Lined
<1>1. InOrder(k)'
  BY <1>0, Moved
<1>2. Recent(c, k)'
  <2> SUFFICES ASSUME NEW x \in Calls, Oldest(k, x)'
               PROVE  x <= req'[c] /\ \A i \in Calls : heard'[c][i] <= x
    BY DEF Recent
  <2>1. x <= req[c] /\ \A i \in Calls : heard[c][i] <= x
    BY <1>0, Moved DEF Recent
  <2>2. x \in Nat /\ req[c] \in 0 .. MaxExecs /\ req'[c] \in 0 .. MaxExecs
    BY DEF TypeOK, Calls
  <2>3. x <= req'[c]
    BY <2>1, <2>2
  <2>4. \A i \in Calls : heard'[c][i] <= x
    BY <2>1, <2>2
  <2> QED BY <2>3, <2>4
<1>3. AtMost(Spots(k), Room(c))'
  <2>1. AtMost(Spots(k)', Room(c))
    BY <1>0, Moved
  <2>2. AtMost(Spots(k)', Room(c)')
    BY <1>0, <2>1, AtMostLess
  <2> QED BY <2>2 DEF AtMost
<1> QED BY <1>1, <1>2, <1>3 DEF Lined

\* A copy of the reply buffer goes to the end of the queue with the requests: there
\* is no room for anything in between.
LEMMA DispatchLined ==
  ASSUME Late, TypeOK, Working, TimeoutsBounded,
         NEW c \in Clients, NEW k \in Conns, Lined(c, k), Dispatch(k)
  PROVE  Lined(c, k)'
<1> DEFINE N == Len(tasks[server[k]]) + 3
           h == IF reply[k] # <<>> THEN reply[k][1].req ELSE reqs[k][1]
<1>0. /\ tasks \in [Servers -> Seq(Jobs)] /\ reqs[k] # <<>> /\ reqs'[k] = <<>>
      /\ UNCHANGED <<pc, req, heard, spent, ans, reply, job>>
  BY DEF Dispatch, TypeOK, clientVars
<1>1. h \in Calls /\ Oldest(k, h) /\ (reply[k] # <<>> => At(k, 1, h)) /\ (reply[k] = <<>> => Unread(k, h))
  <2>1. CASE reply[k] # <<>>
    <3>1. reply[k][1] \in Answers
      BY <2>1, Shorter DEF TypeOK
    <3>2. h = reply[k][1].req /\ h \in Calls
      BY <2>1, <3>1 DEF Answers
    <3> HIDE DEF h
    <3>3. At(k, 1, h)
      BY <2>1, <3>2 DEF At
    <3> QED BY <2>1, <3>2, <3>3 DEF Oldest
  <2>2. CASE reply[k] = <<>>
    <3>1. h = reqs[k][1] /\ h \in Calls
      BY <1>0, <2>2, Shorter DEF TypeOK
    <3> HIDE DEF h
    <3>2. Unread(k, h)
      BY <1>0, <3>1 DEF Unread
    <3> QED BY <2>2, <3>1, <3>2 DEF Oldest
  <2> QED BY <2>1, <2>2
<1>2. ASSUME NEW n \in Nat, NEW x \in Calls, At(k, n, x)'
      PROVE  At(k, n, x) \/ (server[k] \in Servers /\ n = N /\ x = h)
  <2>1. CASE n <= 2
    <3>1. n = 0 \/ n = 1 \/ n = 2
      BY <2>1
    <3> QED BY <1>0, <1>2, <3>1 DEF At, HeadOf
  <2>2. CASE n > 2
    <3>1. PICK s \in Servers : n - 2 \in DOMAIN tasks'[s] /\ tasks'[s][n - 2].conn = k /\ x = HeadOf(tasks'[s][n - 2])
      BY <1>2, <2>2 DEF At, HeadOf
    <3>2. CASE n - 2 \in DOMAIN tasks[s] /\ tasks'[s][n - 2] = tasks[s][n - 2]
      BY <2>2, <3>1, <3>2 DEF At
    <3>3. CASE /\ s = server[k] /\ n - 2 = Len(tasks[s]) + 1
               /\ tasks'[s][n - 2] = [conn |-> k, reqs |-> reqs[k], send |-> reply[k], text |-> None]
      <4>1. x = h
        BY <3>1, <3>3 DEF HeadOf
      <4>2. Len(tasks[s]) \in Nat
        BY <1>0
      <4>3. n = N
        BY <3>3, <4>2
      <4> QED BY <3>3, <4>1, <4>3
    <3> QED BY <3>1, <3>2, <3>3, DispatchTasks
  <2> QED BY <2>1, <2>2
<1>3. ASSUME NEW n \in Nat, NEW x, At(k, n, x), server[k] \in Servers PROVE n < N /\ N \in Nat
  <2>1. Len(tasks[server[k]]) \in Nat
    BY <1>0, <1>3
  <2>2. CASE n > 2
    <3>1. PICK s \in Servers : n - 2 \in DOMAIN tasks[s] /\ tasks[s][n - 2].conn = k
      BY <1>3, <2>2 DEF At
    <3>2. n - 2 \in DOMAIN tasks[server[k]]
      BY <3>1, AtServer
    <3>3. n - 2 <= Len(tasks[server[k]])
      BY <1>0, <1>3, <3>2
    <3> QED BY <2>1, <3>3
  <2> QED BY <2>1, <2>2
<1> HIDE DEF N, h
<1>4. Room(c) \in 0 .. 2 /\ InOrder(k) /\ Recent(c, k) /\ AtMost(Spots(k), Room(c)) /\ -1 \in Spots(k)
  BY <1>0, RoomFacts DEF Lined, Spots
<1>5. ASSUME NEW n \in Nat, NEW x \in Calls, At(k, n, x) PROVE x <= h
  <2>1. CASE reply[k] # <<>>
    <3>1. n \in Spots(k) /\ 1 \in Spots(k)
      BY <1>1, <1>5, <2>1 DEF Spots
    <3>2. n = 1
      BY <1>4, <3>1 DEF AtMost
    <3>3. x = h
      BY <1>1, <1>5, <2>1, <3>2 DEF At
    <3> QED BY <1>1, <3>3 DEF Calls
  <2>2. CASE reply[k] = <<>>
    BY <1>1, <1>4, <1>5, <2>2 DEF InOrder
  <2> QED BY <2>1, <2>2
<1>6. ~\E x : Unread(k, x)'
  BY <1>0 DEF Unread
<1>7. InOrder(k)'
  <2>1. ASSUME NEW m \in Nat, NEW n \in Nat, NEW x \in Calls, NEW y \in Calls,
               m < n, At(k, m, x)', At(k, n, y)'
        PROVE  x <= y
    <3>1. CASE At(k, m, x) /\ At(k, n, y)
      BY <1>4, <2>1, <3>1 DEF InOrder
    <3>2. CASE At(k, m, x) /\ n = N /\ y = h
      BY <1>5, <3>2
    <3>3. CASE server[k] \in Servers /\ m = N
      <4>1. n # N /\ At(k, n, y)
        BY <1>2, <2>1, <3>3
      <4> QED BY <1>3, <2>1, <3>3, <4>1
    <3> QED BY <1>2, <2>1, <3>1, <3>2, <3>3
  <2> QED BY <1>6, <2>1 DEF InOrder
<1>8. Recent(c, k)'
  <2>1. \A x \in Calls : Oldest(k, x)' => Oldest(k, x)
    BY <1>1, <1>2, <1>6 DEF Oldest
  <2> QED BY <1>0, <1>4, <2>1 DEF Recent
<1>9. AtMost(Spots(k), Room(c))'
  <2>1. Spots(k)' \subseteq (Spots(k) \ {-1}) \cup {N}
    <3> SUFFICES ASSUME NEW n \in Spots(k)', n # N PROVE n \in Spots(k) \ {-1}
      OBVIOUS
    <3>1. n \in Nat /\ \E x \in Calls : At(k, n, x)'
      BY <1>0 DEF Spots
    <3>2. \E x \in Calls : At(k, n, x)
      BY <1>2, <3>1
    <3> QED BY <3>1, <3>2 DEF Spots
  <2>2. AtMost(Spots(k)', Room(c))
    BY <1>4, <2>1, AtMostSwap
  <2>3. Room(c)' = Room(c)
    BY <1>0 DEF Room
  <2> QED BY <2>2, <2>3 DEF AtMost
<1> QED BY <1>7, <1>8, <1>9 DEF Lined

\* A client's request is the newest.
LEMMA ExecLined ==
  ASSUME Late, TypeOK, TypeOK', Opened, TimeoutsBounded, Past, [Next]_vars,
         NEW c \in Clients, NEW k \in Conns, fd[c] = k, Lined(c, k), Exec(c)
  PROVE  Lined(c, k)'
<1>0. /\ reqs \in [Conns -> Seq(Calls)] /\ reqs[k] \in Seq(Calls) /\ req \in [Clients -> 0 .. MaxExecs]
      /\ heard \in [Clients -> [Calls -> 0 .. MaxExecs]]
      /\ UNCHANGED <<ans, reply, tasks, job>> /\ pc[c] = "exec"
  BY DEF TypeOK, Exec, serverVars
<1>1. req'[c] = req[c] + 1 /\ req'[c] \in Calls /\ NextCall(req[c]) = req'[c] /\ req[c] \in Nat
  <2>1. NextCall(req[c]) = req[c] + 1 /\ req[c] \in Nat /\ req[c] < MaxExecs
    BY <1>0, BoundsAssumption DEF NextCall, Late, Opened
  <2>2. req' = [req EXCEPT ![c] = NextCall(@)]
    BY DEF Exec
  <2> QED BY <1>0, <2>1, <2>2, BoundsAssumption DEF Calls
<1>2. \A i \in Calls : heard'[c][i] \in {0, heard[c][i]} /\ heard'[c][i] <= req[c]
  <2>1. heard' = [heard EXCEPT ![c][req'[c]] = 0]
    BY <1>1 DEF Exec
  <2>2. \A i \in Calls : heard'[c][i] = IF i = req'[c] THEN 0 ELSE heard[c][i]
    BY <1>0, <1>1, <2>1
  <2> QED BY <1>1, <2>2 DEF Past
<1>3. CASE reqs' = reqs
  <2>1. Moves(k)
    BY <1>0, <1>3, MovesNot
  <2>2. ~Receive(c) /\ ~Eof(c)
    BY <1>0 DEF Receive, Eof
  <2> QED BY <1>1, <1>2, <2>1, <2>2, MovesLined
<1>4. CASE reqs' # reqs
  <2>1. reqs' = [reqs EXCEPT ![k] = Append(@, req'[c])] /\ pc' = [pc EXCEPT ![c] = "wait"]
    BY <1>1, <1>4 DEF Exec
  <2>2. reqs'[k] = Append(reqs[k], req'[c])
    BY <1>0, <2>1
  <2>3. pc'[c] = "wait"
    BY <2>1 DEF TypeOK
  <2>4. \A n \in Nat : \A x \in Calls : At(k, n, x)' <=> At(k, n, x)
    BY <1>0 DEF At, HeadOf
  <2>5. \A x : Unread(k, x)' => Unread(k, x) \/ x = req'[c]
    <3>1. reqs[k] = <<>> => reqs'[k][1] = req'[c]
      BY <1>0, <1>1, <2>2, Longer
    <3>2. reqs[k] # <<>> => reqs'[k][1] = reqs[k][1]
      BY <1>0, <1>1, <2>2, Longer, Shorter
    <3>3. \A x : Unread(k, x)' => x = reqs'[k][1]
      BY DEF Unread
    <3> QED BY <3>1, <3>2, <3>3 DEF Unread
  <2>6. InOrder(k) /\ Recent(c, k) /\ AtMost(Spots(k), Room(c))
    BY DEF Lined
  <2>7. \A x \in Calls : Oldest(k, x) => x <= req[c]
    BY <2>6 DEF Recent
  <2>8. InOrder(k)'
    <3>1. ASSUME NEW n \in Nat, NEW x \in Calls, NEW y \in Calls, At(k, n, x)', Unread(k, y)'
          PROVE  x <= y
      <4>1. At(k, n, x) /\ x <= req[c]
        BY <2>4, <2>7, <3>1 DEF Oldest
      <4>2. CASE Unread(k, y)
        BY <2>6, <4>1, <4>2 DEF InOrder
      <4>3. CASE y = req'[c]
        BY <1>1, <4>1, <4>3 DEF Calls
      <4> QED BY <2>5, <3>1, <4>2, <4>3
    <3> QED BY <2>4, <2>6, <3>1 DEF InOrder
  <2>9. Recent(c, k)'
    <3> SUFFICES ASSUME NEW x \in Calls, Oldest(k, x)'
                 PROVE  x <= req'[c] /\ \A i \in Calls : heard'[c][i] <= x
      BY DEF Recent
    <3>1. Oldest(k, x) \/ x = req'[c]
      BY <2>4, <2>5 DEF Oldest
    <3>2. \A i \in Calls : heard[c][i] \in Nat /\ heard'[c][i] \in Nat
      BY DEF TypeOK
    <3>3. CASE Oldest(k, x)
      <4>1. x <= req[c] /\ \A i \in Calls : heard[c][i] <= x
        BY <2>6, <3>3 DEF Recent
      <4>2. x <= req'[c]
        BY <1>1, <4>1 DEF Calls
      <4>3. \A i \in Calls : heard'[c][i] <= x
        BY <1>2, <4>1 DEF Calls
      <4> QED BY <4>2, <4>3
    <3>4. CASE x = req'[c]
      BY <1>1, <1>2, <3>2, <3>4
    <3> QED BY <3>1, <3>3, <3>4
  <2>10. AtMost(Spots(k), Room(c))'
    <3>1. Spots(k)' \subseteq Spots(k) \cup {-1}
      BY <2>4 DEF Spots
    <3>2. Room(c) \in 0 .. 2 /\ Room(c)' \in 0 .. 2 /\ Room(c)' = Room(c) + 1
      BY <2>3, RoomFacts, RoomStep
    <3>3. Room(c) \in 0 .. 1
      BY <3>2
    <3>4. AtMost(Spots(k)', Room(c) + 1)
      BY <2>6, <3>1, <3>3, AtMostMore
    <3> QED BY <3>2, <3>4 DEF AtMost
  <2> QED BY <2>8, <2>9, <2>10 DEF Lined
<1> QED BY <1>3, <1>4

\* A client takes the oldest answer, and drops those in its socket.
LEMMA ReceiveLined ==
  ASSUME Late, TypeOK, TypeOK', Opened, TimeoutsBounded, Past, NeverOlder, [Next]_vars,
         NEW c \in Clients, NEW k \in Conns, fd[c] = k, Lined(c, k), Receive(c)
  PROVE  /\ Lined(c, k)'
         /\ \E x \in Calls : /\ x <= req[c] /\ \A i \in Calls : heard[c][i] <= x
                             /\ req[c] \in Calls => heard'[c] = [heard[c] EXCEPT ![req[c]] = x]
<1>0. /\ ans[k] # <<>> /\ ans[k] \in Seq(Answers) /\ ans \in [Conns -> Seq(Answers)]
      /\ heard \in [Clients -> [Calls -> 0 .. MaxExecs]]
      /\ ans' = [ans EXCEPT ![k] = <<>>] /\ heard' = [heard EXCEPT ![c][req[c]] = Head(ans[k]).req]
      /\ UNCHANGED <<fd, req, reqs, reply, tasks, job>>
  BY DEF TypeOK, Receive, serverVars
<1>1. PICK x \in Calls : x = ans[k][1].req /\ x = Head(ans[k]).req
  <2>1. ans[k][1] = Head(ans[k]) /\ Head(ans[k]) \in Answers
    BY <1>0, Shorter
  <2> QED BY <2>1 DEF Answers
<1>2. At(k, 0, x) /\ Oldest(k, x) /\ 0 \in Spots(k)
  <2>1. At(k, 0, x)
    BY <1>0, <1>1 DEF At
  <2> QED BY <2>1 DEF Oldest, Spots
<1>3. InOrder(k) /\ Recent(c, k) /\ AtMost(Spots(k), Room(c))
  BY DEF Lined
<1>4. x <= req[c] /\ \A i \in Calls : heard[c][i] <= x
  BY <1>2, <1>3 DEF Recent
<1>5. heard'[c] = [heard[c] EXCEPT ![req[c]] = x]
  BY <1>0, <1>1
<1>6. /\ ans'[k] = <<>> /\ \A n \in Nat : \A y \in Calls : At(k, n, y)' => At(k, n, y)
      /\ Moves(k)
  <2>1. ans'[k] = <<>>
    BY <1>0
  <2> QED BY <1>0, <2>1, MovesNot
<1>7. ASSUME NEW n \in Nat, NEW y \in Calls, At(k, n, y)' PROVE n > 0 /\ x <= y
  <2>1. n # 0
    BY <1>6, <1>7 DEF At
  <2> QED BY <1>2, <1>3, <1>6, <1>7, <2>1 DEF InOrder
<1>8. ASSUME NEW y \in Calls, Oldest(k, y)' PROVE x <= y /\ Oldest(k, y)
  <2>1. CASE \E n \in Nat : At(k, n, y)'
    BY <1>6, <1>7, <2>1 DEF Oldest
  <2>2. CASE Unread(k, y)'
    <3>1. Unread(k, y)
      BY <1>0, <2>2 DEF Unread
    <3> QED BY <1>2, <1>3, <3>1 DEF InOrder, Oldest
  <2> QED BY <1>8, <2>1, <2>2 DEF Oldest
<1>9. InOrder(k)'
  BY <1>3, <1>6, Moved
<1>10. Recent(c, k)'
  <2> SUFFICES ASSUME NEW y \in Calls, Oldest(k, y)'
               PROVE  y <= req'[c] /\ \A i \in Calls : heard'[c][i] <= y
    BY DEF Recent
  <2>1. y <= req[c] /\ \A i \in Calls : heard[c][i] <= y
    BY <1>3, <1>8 DEF Recent
  <2>2. \A i \in Calls : heard'[c][i] \in {x, heard[c][i]}
    BY <1>0, <1>5
  <2> QED BY <1>0, <1>8, <2>1, <2>2
<1>11. AtMost(Spots(k), Room(c))'
  <2>1. Spots(k)' \subseteq Spots(k) \ {0}
    BY <1>0, <1>6, <1>7 DEF Spots
  <2>2. Room(c) \in 0 .. 2 /\ Room(c)' = Room(c) - 1
    BY RoomFacts, RoomStep
  <2>3. AtMost(Spots(k)', Room(c) - 1)
    BY <1>2, <1>3, <2>1, <2>2, AtMostTaken
  <2> QED BY <2>2, <2>3 DEF AtMost
<1>12. Lined(c, k)'
  BY <1>9, <1>10, <1>11 DEF Lined
<1> QED BY <1>4, <1>5, <1>12

\* A connection that a client opens is a new one.
LEMMA RefreshFd ==
  ASSUME TypeOK, NEW c \in Clients, Refresh(c), fd'[c] # None
  PROVE  fd'[c] = fd[c] \/ state[fd'[c]] = "new"
<1>0. fd \in [Clients -> Conns \cup {None}]
  BY DEF TypeOK
<1>1. \/ UNCHANGED fd
      \/ \E k \in Conns, s \in Servers \cup {servIP[c]} : Connect(c, k, s)
      \/ fd' = [fd EXCEPT ![c] = None]
  BY DEF Refresh
<1>2. ASSUME NEW k \in Conns, NEW s, Connect(c, k, s) PROVE fd'[c] = k /\ state[k] = "new"
  BY <1>0, <1>2 DEF Connect
<1> QED BY <1>0, <1>1, <1>2

LEMMA LinedStep ==
  ASSUME Late, Inv, Inv', LInv, [Next]_vars, NEW c \in Clients, NEW k \in Conns, fd'[c] = k
  PROVE  Lined(c, k)'
<1> USE DEF Inv
<1>0. /\ Ended /\ Blank /\ Sent /\ Past /\ TimeoutsBounded /\ NeverOlder /\ (fd[c] = k => Lined(c, k))
      /\ k # None /\ req[c] \in 0 .. MaxExecs /\ heard \in [Clients -> [Calls -> 0 .. MaxExecs]]
  BY ValuesAssumption DEF LInv, TypeOK
<1>6. Room(c)' \in 0 .. 2
  BY <1>0, RoomStep
<1>1. CASE Exec(c)
  <2>1. fd[c] = k
    BY <1>0, <1>1, ExecFacts
  <2> QED BY <1>0, <1>1, <2>1, ExecLined
<1>2. CASE Receive(c)
  <2>1. fd[c] = k
    BY <1>2 DEF Receive
  <2> QED BY <1>0, <1>2, <2>1, ReceiveLined
<1>3. CASE Eof(c)
  <2>1. /\ fd[c] = k /\ ans[k] = <<>> /\ state[k] \in {"fin", "rst", "pipe"}
        /\ UNCHANGED <<reqs, ans, reply, job, tasks>>
    BY <1>3 DEF Eof, serverVars
  <2>2. ~Held(k)
    BY <1>0, <2>1 DEF Ended
  <2>3. Moves(k)
    BY <2>1, MovesNot
  <2> QED BY <1>0, <2>1, <2>2, <2>3, <1>6, EmptyLined
<1>4. CASE Refresh(c)
  <2>1. UNCHANGED <<req, heard, reqs, ans, reply, job, tasks>> /\ pc[c] = "refresh"
    BY <1>4 DEF Refresh
  <2>2. Moves(k) /\ ~Receive(c) /\ ~Eof(c)
    BY <2>1, MovesNot DEF Receive, Eof
  <2>3. CASE fd[c] = k
    BY <1>0, <2>1, <2>2, <2>3, MovesLined
  <2>4. CASE state[k] = "new"
    BY <1>0, <2>2, <2>4, <1>6, EmptyLined DEF Blank
  <2> QED BY <1>0, <1>4, <2>3, <2>4, RefreshFd
<1>5. CASE ~Exec(c) /\ ~Receive(c) /\ ~Eof(c) /\ ~Refresh(c)
  <2>1. fd[c] = k /\ req'[c] = req[c] /\ heard'[c] = heard[c]
    <3>1. CASE Timeout(c)
      BY <3>1 DEF Timeout
    <3>2. CASE ~Timeout(c)
      BY <1>5, <3>2, ClientFrame
    <3> QED BY <3>1, <3>2
  <2>2. ASSUME NEW d \in Clients, Exec(d), fd[d] = k PROVE FALSE
    BY <1>0, <1>5, <2>1, <2>2 DEF Opened
  <2>3. CASE Moves(k)
    BY <1>0, <1>5, <2>1, <2>3, MovesLined
  <2>4. CASE Dispatch(k)
    BY <1>0, <2>1, <2>4, DispatchLined
  <2> QED BY <1>0, <2>2, <2>3, <2>4, MovesStep
<1> QED BY <1>1, <1>2, <1>3, <1>4, <1>5
-----------------------------------------------------------------------------
(* The rest of the invariant.                                              *)

\* What a client has heard of: one more answer, not older than the others.
LEMMA HeardStep ==
  ASSUME Late, Inv, Inv', LInv, [Next]_vars
  PROVE  Past' /\ NeverOlder'
<1> USE DEF Inv
<1>0. /\ Past /\ NeverOlder /\ TimeoutsBounded /\ Opened
      /\ req \in [Clients -> 0 .. MaxExecs] /\ heard \in [Clients -> [Calls -> 0 .. MaxExecs]]
      /\ \A c \in Clients, k \in Conns : fd[c] = k => Lined(c, k)
  BY DEF LInv, TypeOK
<1> SUFFICES ASSUME NEW c \in Clients
             PROVE  /\ \A i \in Calls : heard'[c][i] <= req'[c] /\ (i > req'[c] => heard'[c][i] = 0)
                    /\ \A i, j \in Calls : i < j /\ heard'[c][j] # 0 => heard'[c][i] <= heard'[c][j]
  BY DEF Past, NeverOlder
<1>1. CASE heard'[c] = heard[c] /\ req'[c] = req[c]
  BY <1>0, <1>1 DEF Past, NeverOlder
<1>2. CASE Exec(c)
  <2>1. req'[c] = NextCall(req[c]) /\ heard' = [heard EXCEPT ![c][NextCall(req[c])] = 0] /\ pc[c] = "exec"
    BY <1>0, <1>2 DEF Exec
  <2>2. NextCall(req[c]) = req[c] + 1 /\ req[c] \in Nat
    BY <1>0, <2>1, BoundsAssumption DEF NextCall, Late
  <2>3. ASSUME NEW i \in Calls PROVE heard'[c][i] = heard[c][i]
    <3>1. i = req[c] + 1 => heard[c][i] = 0
      BY <1>0, <2>2 DEF Past, Calls
    <3>2. heard'[c][i] = IF i = NextCall(req[c]) THEN 0 ELSE heard[c][i]
      BY <1>0, <2>1, <2>2
    <3> QED BY <2>2, <3>1, <3>2
  <2>4. ASSUME NEW i \in Calls PROVE heard[c][i] <= req[c] + 1 /\ (i > req[c] + 1 => heard[c][i] = 0)
    <3>1. heard[c][i] <= req[c] /\ (i > req[c] => heard[c][i] = 0) /\ heard[c][i] \in Nat
      BY <1>0 DEF Past
    <3> QED BY <2>2, <3>1 DEF Calls
  <2> QED BY <1>0, <2>1, <2>2, <2>3, <2>4 DEF NeverOlder
<1>3. CASE Receive(c)
  <2>1. PICK k \in Conns : fd[c] = k
    BY <1>3 DEF Receive, TypeOK
  <2>2. PICK x \in Calls : /\ x <= req[c] /\ \A i \in Calls : heard[c][i] <= x
                           /\ req[c] \in Calls => heard'[c] = [heard[c] EXCEPT ![req[c]] = x]
    BY <1>0, <1>3, <2>1, ReceiveLined
  <2>3. req[c] \in Calls /\ UNCHANGED req
    BY <1>0, <1>3, <2>2 DEF Receive, Calls
  <2>4. \A i \in Calls : heard'[c][i] = IF i = req[c] THEN x ELSE heard[c][i]
    BY <1>0, <2>2, <2>3
  <2>5. ASSUME NEW i \in Calls PROVE heard'[c][i] <= req'[c] /\ (i > req'[c] => heard'[c][i] = 0)
    BY <1>0, <2>2, <2>3, <2>4 DEF Past, Calls
  <2>6. ASSUME NEW i \in Calls, NEW j \in Calls, i < j, heard'[c][j] # 0 PROVE heard'[c][i] <= heard'[c][j]
    <3>1. CASE j = req[c]
      BY <2>2, <2>4, <2>6, <3>1 DEF Calls
    <3>2. CASE i = req[c]
      BY <1>0, <2>4, <2>6, <3>2 DEF Past, Calls
    <3>3. CASE i # req[c] /\ j # req[c]
      BY <1>0, <2>4, <2>6, <3>3 DEF NeverOlder
    <3> QED BY <3>1, <3>2, <3>3
  <2> QED BY <2>5, <2>6
<1>4. CASE Refresh(c) \/ Eof(c) \/ Timeout(c)
  BY <1>1, <1>4 DEF Refresh, Eof, Timeout
<1> QED BY <1>1, <1>2, <1>3, <1>4, ClientFrame

\* A connection is new until it is opened, and ended by its server.
LEMMA StateOrigin ==
  ASSUME TypeOK, Opened, [Next]_vars, NEW k \in Conns
  PROVE  /\ state'[k] = "new" => state[k] = "new"
         /\ state'[k] \in {"fin", "rst", "pipe"} =>
              \/ state[k] \in {"fin", "rst", "pipe"}
              \/ \E s \in Servers : Restart(s) /\ k \in serving /\ server[k] = s
<1>0. state \in [Conns -> States]
  BY DEF TypeOK, States
<1>1. ASSUME NEW c \in Clients, Refresh(c) PROVE state'[k] \in {"up", "closed", state[k]}
  BY <1>1, RefreshStates
<1>2. ASSUME NEW c \in Clients, Exec(c)
      PROVE  state'[k] = state[k] \/ (state[k] \in {"fin", "rst"} /\ state'[k] \in {"pipe", "closed"})
  BY <1>0, <1>2 DEF Exec
<1>3. ASSUME NEW c \in Clients, Eof(c)
      PROVE  state'[k] = state[k] \/ (state[k] = "rst" /\ state'[k] = "pipe")
  BY <1>0, <1>3 DEF Eof
<1>4. ASSUME NEW c \in Clients, Receive(c) \/ SendScript(c) \/ Timeout(c) PROVE UNCHANGED state
  BY <1>4 DEF Receive, SendScript, Timeout, connVars
<1>5. ASSUME NEW l \in Conns, Loop(l) PROVE UNCHANGED state
  BY <1>5 DEF Loop, Dispatch, Flush, CloseConn, connVars
<1>6. ASSUME NEW s \in Servers, Restart(s)
      PROVE  \/ state'[k] = state[k]
             \/ k \in serving /\ server[k] = s /\ state'[k] \in {"fin", "rst"}
  BY <1>0, <1>6 DEF Restart
<1>7. UNCHANGED vars => UNCHANGED state
  BY DEF vars, connVars
<1> QED BY <1>1, <1>2, <1>3, <1>4, <1>5, <1>6, <1>7, ThreadQuiet DEF Next, Client

\* Nothing comes to a connection that nobody has opened, or that the server has closed.
LEMMA EndedStep ==
  ASSUME Inv, Inv', LInv, [Next]_vars
  PROVE  Ended' /\ Blank'
<1> USE DEF Inv
<1>0. Ended /\ Blank
  BY DEF LInv
<1> SUFFICES ASSUME NEW k \in Conns
             PROVE  /\ state'[k] \in {"fin", "rst", "pipe"} => ~Held(k)'
                    /\ state'[k] = "new" => ~Held(k)' /\ ans'[k] = <<>>
  BY DEF Ended, Blank, Held, HasTask, HasJob
<1>1. CASE state'[k] \in {"fin", "rst", "pipe"}
  <2>1. \/ state[k] \in {"fin", "rst", "pipe"}
        \/ \E s \in Servers : Restart(s) /\ k \in serving /\ server[k] = s
    BY <1>1, StateOrigin
  <2>2. CASE state[k] \in {"fin", "rst", "pipe"}
    <3>1. ~Held(k) /\ state[k] # "up"
      BY <1>0, <2>2 DEF Ended
    <3>2. ~Held(k)'
      BY <3>1, HeldKept
    <3> QED BY <1>1, <3>2
  <2> QED BY <1>1, <2>1, <2>2, RestartEmpties
<1>2. CASE state'[k] = "new"
  <2>1. state[k] = "new"
    BY <1>2, StateOrigin
  <2>2. ~Held(k) /\ ans[k] = <<>>
    BY <1>0, <2>1 DEF Blank
  <2>3. ~Held(k)'
    BY <2>1, <2>2, HeldKept
  <2>4. ans'[k] = <<>>
    <3>1. <<>> \o <<>> = <<>>
      OBVIOUS
    <3> QED BY <2>2, <3>1, AnsChange DEF Held
  <2> QED BY <1>1, <2>3, <2>4
<1> QED BY <1>1, <1>2

\* A thread comes to its store with an answer.
LEMMA SentStep ==
  ASSUME TypeOK, TypeOK', Working, Sent, [Next]_vars
  PROVE  Sent'
<1> SUFFICES ASSUME NEW p \in Threads, wpc'[p] = "store" PROVE job'[p].send # <<>>
  BY DEF Sent
<1>1. CASE wpc'[p] = wpc[p] /\ job'[p] = job[p]
  BY <1>1 DEF Sent
<1>2. CASE Thread(p)
  <2>1. ~Take(p) /\ ~Store(p)
    BY DEF Take, Store, Goto, TypeOK
  <2> QED BY <1>2, <2>1, HeadKept
<1>3. CASE wpc'[p] = "idle"
  BY <1>3
<1> QED BY <1>1, <1>2, <1>3, ThreadAlone

LEMMA LInvStart == Init => LInv
<1> SUFFICES ASSUME Init PROVE LInv
  OBVIOUS
<1>1. DOMAIN <<>> = {}
  OBVIOUS
<1>2. \A k \in Conns : ~Held(k) /\ ans[k] = <<>> /\ state[k] = "new"
  BY <1>1 DEF Init, Held, HasTask, HasJob
<1>3. Ended /\ Blank
  BY <1>2 DEF Ended, Blank
<1>4. Sent
  BY DEF Init, Sent
<1>5. Past /\ NeverOlder
  BY DEF Init, Past, NeverOlder
<1>6. TimeoutsBounded
  BY Events, BoundsAssumption DEF Init, TimeoutsBounded
<1>7. \A c \in Clients : fd[c] = None
  BY DEF Init
<1> QED BY <1>3, <1>4, <1>5, <1>6, <1>7, ValuesAssumption DEF LInv

LEMMA LInvStep ==
  ASSUME Late, Inv, Inv', LInv, [Next]_vars
  PROVE  LInv'
<1>1. Ended' /\ Blank'
  BY EndedStep
<1>2. Sent'
  BY SentStep DEF Inv, LInv
<1>3. Past' /\ NeverOlder'
  BY HeardStep
<1>4. TimeoutsBounded'
  BY TimeoutStep DEF Inv, LInv
<1>5. ASSUME NEW c \in Clients, NEW k \in Conns, fd'[c] = k PROVE Lined(c, k)'
  BY <1>5, LinedStep
<1> QED BY <1>1, <1>2, <1>3, <1>4, <1>5 DEF LInv
-----------------------------------------------------------------------------
(* The theorem.                                                            *)

\* With one time-out and one command thread, whatever restarts, moves or fails: a
\* client never hears an answer older than one it has heard, though answers come late,
\* doubled and several at once.
THEOREM NeverBehind == Spec => [](Late => NeverOlder)
<1> DEFINE IInv == Late => LInv
<1>1. Init => IInv
  BY LInvStart
<1>2. Inv /\ IInv /\ [Next]_vars => IInv'
  BY InvStep, LInvStep DEF Late
<1>3. IInv => (Late => NeverOlder)
  BY DEF LInv
<1> HIDE DEF IInv
<1> QED BY <1>1, <1>2, <1>3, InvAlways, PTL DEF Spec
=============================================================================
