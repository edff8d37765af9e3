------------------------------ MODULE Scheduler ------------------------------
(***************************************************************************)
(* The master's scheduler (server/src/shceduler.cpp): the list of servers  *)
(* `servs', the tick thread that asks them for their load, evicts those    *)
(* that stay silent and sorts the list, the loop thread that adds the      *)
(* slaves it accepts, the command threads that hand out the front of the   *)
(* list, and stop() in the signal handler, which interrupts the loop       *)
(* thread.                                                                 *)
(*                                                                         *)
(* A load stands for load/processors, the key of the sort.  A slave's      *)
(* answers are handled as they wait in its socket: a slave answers all the *)
(* queries that have reached it, and the tick thread takes the oldest      *)
(* answer and throws away the rest.  Only addServer and stop take          *)
(* servsMut: every other access may race, and then the process may crash.  *)
(***************************************************************************)
EXTENDS Integers, Sequences

CONSTANTS Slaves,       \* the slave servers, each connects once
          Local,        \* the master itself: the server with fd -1
          Prompt,       \* slaves that answer a query within the second
          Workers,      \* the command threads
          None,
          Loads,        \* the loads a server can report
          Unknown,      \* the load a new server has: 0xFFFFFFFF
          MaxFaild      \* MAX_FAILD_COUNT

ASSUME ServersAssumption ==
  /\ Local \notin Slaves /\ None \notin Slaves \cup {Local}
  /\ Prompt \subseteq Slaves
ASSUME LoadsAssumption ==
  /\ Loads \subseteq Nat /\ Loads # {}
  /\ Unknown \in Nat /\ \A l \in Loads : l < Unknown
  /\ None \notin Loads
ASSUME MaxFaildAssumption == MaxFaild \in Nat \ {0, 1}

VARIABLES
  servs,     \* the list
  servsMut,  \* the loop thread holds servsMut
  ifRun,
  conn,      \* conn[s]: "off", "queued", "open", "left", "reset" or "closed"
  asked,     \* asked[s]: a query waits for slave s to answer
  inbox,     \* inbox[s]: the oldest answer of s not yet read, or None
  tpc,       \* where the tick thread is
  pos,       \* its place in the list
  lpc,       \* where the loop thread is in addServer
  adding,    \* the slave it adds
  sig,       \* where the signal handler is: "none", "join", "close" or "exit"
  wpc,       \* where command thread w is
  fit,       \* fit[w]: the last server it handed out
  alive      \* the process has not crashed

listVars == <<servs, servsMut>>
netVars == <<conn, asked, inbox>>
loopVars == <<lpc, adding>>
workerVars == <<wpc, fit>>
vars == <<listVars, ifRun, netVars, tpc, pos, loopVars, sig, workerVars, alive>>
-----------------------------------------------------------------------------
Servers == Slaves \cup {Local}
\* Mutant of Entry: a new server has the load of an idle one.
EntryIdle(s) == [srv |-> s, load |-> 0, faild |-> 0]
Entry(s) == [srv |-> s, load |-> Unknown, faild |-> 0]

\* The process goes on: it has neither crashed nor left through exit().
Up == alive /\ sig # "exit"
\* The loop thread is not interrupted by the signal handler.
LoopUp == Up /\ sig = "none"

Without(list, i) == [k \in 1 .. Len(list) - 1 |-> IF k < i THEN list[k] ELSE list[k + 1]]
Ascending(list) == \A i, j \in DOMAIN list : i < j => list[i].load <= list[j].load

\* Two threads are at the list, one of them changing it, or it has no front.
Race ==
  \/ lpc = "push" /\ tpc \in {"send", "collect", "sort"}
  \/ /\ \E w \in Workers : wpc[w] = "front"
     /\ tpc \in {"collect", "sort"} \/ servs = <<>>
-----------------------------------------------------------------------------
\* run() has registered the listener and started the tick thread.
Init ==
  /\ servs = <<>> /\ servsMut = FALSE /\ ifRun = TRUE
  /\ conn = [s \in Slaves |-> "off"]
  /\ asked = [s \in Slaves |-> FALSE]
  /\ inbox = [s \in Slaves |-> None]
  /\ tpc = "start" /\ pos = 1
  /\ lpc = "idle" /\ adding = None
  /\ sig = "none"
  /\ wpc = [w \in Workers |-> "idle"]
  /\ fit = [w \in Workers |-> None]
  /\ alive = TRUE
-----------------------------------------------------------------------------
(* The slaves.                                                             *)

Connect(s) ==
  /\ conn[s] = "off"
  /\ conn' = [conn EXCEPT ![s] = "queued"]
  /\ UNCHANGED <<listVars, ifRun, asked, inbox, tpc, pos, loopVars, sig, workerVars, alive>>

\* EventHandlerCMD::handler_callback of the slave answers each query it has read.
Answer(s) ==
  /\ conn[s] = "open" /\ asked[s]
  /\ asked' = [asked EXCEPT ![s] = FALSE]
  /\ \E l \in Loads : inbox' = [inbox EXCEPT ![s] = IF @ = None THEN l ELSE @]
  /\ UNCHANGED <<listVars, ifRun, conn, tpc, pos, loopVars, sig, workerVars, alive>>

Leave(s) ==
  /\ s \notin Prompt /\ conn[s] = "open"
  /\ conn' = [conn EXCEPT ![s] = "left"]
  /\ UNCHANGED <<listVars, ifRun, asked, inbox, tpc, pos, loopVars, sig, workerVars, alive>>
-----------------------------------------------------------------------------
(* The loop thread: EventHandlerSchedAccept and addServer.                 *)

\* accept(), and addServer's test of ifRun, which holds unless the handler runs.
Accept(s) ==
  /\ LoopUp /\ lpc = "idle" /\ conn[s] = "queued"
  /\ conn' = [conn EXCEPT ![s] = "open"]
  /\ lpc' = "lock" /\ adding' = s
  /\ UNCHANGED <<listVars, ifRun, asked, inbox, tpc, pos, sig, workerVars, alive>>

LockServs ==
  /\ LoopUp /\ lpc = "lock"
  /\ servsMut' = TRUE
  /\ lpc' = "push"
  /\ UNCHANGED <<servs, ifRun, netVars, tpc, pos, adding, sig, workerVars, alive>>

\* Mutant of PushServ: the mutex is not given back.
PushServKeepMutex ==
  /\ LoopUp /\ lpc = "push"
  /\ servs' = Append(servs, Entry(adding))
  /\ lpc' = "idle" /\ adding' = None
  /\ UNCHANGED <<servsMut, ifRun, netVars, tpc, pos, sig, workerVars, alive>>

\* An element pushed during the sort may be sorted in, or lost with the
\* temporary lists the sort works on.
PushServ ==
  /\ LoopUp /\ lpc = "push"
  /\ \/ servs' = Append(servs, Entry(adding))
     \/ tpc = "sort" /\ UNCHANGED servs
  /\ servsMut' = FALSE
  /\ lpc' = "idle" /\ adding' = None
  /\ UNCHANGED <<ifRun, netVars, tpc, pos, sig, workerVars, alive>>
-----------------------------------------------------------------------------
(* The tick thread.                                                        *)

\* addServer(-1, 0, 0): the master itself, unless stop() has begun.
TickStart ==
  /\ Up /\ tpc = "start"
  /\ IF ifRun THEN ~servsMut /\ servs' = Append(servs, Entry(Local)) ELSE UNCHANGED servs
  /\ tpc' = "check"
  /\ UNCHANGED <<servsMut, ifRun, netVars, pos, loopVars, sig, workerVars, alive>>

TickCheck ==
  /\ Up /\ tpc = "check"
  /\ tpc' = IF ifRun THEN "send" ELSE "exit"
  /\ pos' = 1
  /\ UNCHANGED <<listVars, ifRun, netVars, loopVars, sig, workerVars, alive>>

\* A query for the next server of the list, the master excepted.  A slave that
\* has left answers with a reset; a write after it fails, or raises SIGPIPE.
SendQuery ==
  /\ Up /\ tpc = "send" /\ pos <= Len(servs)
  /\ LET s == servs[pos].srv IN
       \/ s = Local /\ UNCHANGED <<netVars, alive>>
       \/ /\ s # Local /\ conn[s] = "open"
          /\ asked' = [asked EXCEPT ![s] = TRUE]
          /\ UNCHANGED <<conn, inbox, alive>>
       \/ /\ s # Local /\ conn[s] = "left"
          /\ conn' = [conn EXCEPT ![s] = "reset"]
          /\ UNCHANGED <<asked, inbox, alive>>
       \/ /\ s # Local /\ conn[s] = "reset"
          /\ alive' \in BOOLEAN
          /\ UNCHANGED netVars
  /\ pos' = pos + 1
  /\ UNCHANGED <<listVars, ifRun, tpc, loopVars, sig, workerVars>>

\* Mutant of EndSend: the last server is not asked.
EndSendEarly ==
  /\ Up /\ tpc = "send" /\ pos >= Len(servs)
  /\ tpc' = "sleep"
  /\ UNCHANGED <<listVars, ifRun, netVars, pos, loopVars, sig, workerVars, alive>>

EndSend ==
  /\ Up /\ tpc = "send" /\ pos > Len(servs)
  /\ tpc' = "sleep"
  /\ UNCHANGED <<listVars, ifRun, netVars, pos, loopVars, sig, workerVars, alive>>

\* sleep(1): the slaves that are prompt have answered when it returns.
Sleep ==
  /\ Up /\ tpc = "sleep"
  /\ \A s \in Prompt : ~asked[s]
  /\ tpc' = "collect" /\ pos' = 1
  /\ UNCHANGED <<listVars, ifRun, netVars, loopVars, sig, workerVars, alive>>

CollectLocal ==
  /\ Up /\ tpc = "collect" /\ pos <= Len(servs) /\ servs[pos].srv = Local
  /\ \E l \in Loads : servs' = [servs EXCEPT ![pos].load = l]
  /\ pos' = pos + 1
  /\ UNCHANGED <<servsMut, ifRun, netVars, tpc, loopVars, sig, workerVars, alive>>

CollectAnswer ==
  /\ Up /\ tpc = "collect" /\ pos <= Len(servs) /\ servs[pos].srv # Local
  /\ LET s == servs[pos].srv IN
       /\ inbox[s] # None
       /\ servs' = [servs EXCEPT ![pos] = [@ EXCEPT !.load = inbox[s], !.faild = 0]]
       /\ inbox' = [inbox EXCEPT ![s] = None]
  /\ pos' = pos + 1
  /\ UNCHANGED <<servsMut, ifRun, conn, asked, tpc, loopVars, sig, workerVars, alive>>

\* Mutant of CollectNothing: the descriptor is closed, the server stays listed.
CollectNothingKeepListed ==
  /\ Up /\ tpc = "collect" /\ pos <= Len(servs) /\ servs[pos].srv # Local
  /\ LET s == servs[pos].srv IN
       /\ inbox[s] = None
       /\ servs' = [servs EXCEPT ![pos].faild = @ + 1]
       /\ conn' = IF servs[pos].faild + 1 >= MaxFaild
                    THEN [conn EXCEPT ![s] = "closed"] ELSE conn
  /\ pos' = pos + 1
  /\ UNCHANGED <<servsMut, ifRun, asked, inbox, tpc, loopVars, sig, workerVars, alive>>

\* Mutant of CollectNothing: the collections missed are not counted.
CollectNothingUncounted ==
  /\ Up /\ tpc = "collect" /\ pos <= Len(servs) /\ servs[pos].srv # Local
  /\ inbox[servs[pos].srv] = None
  /\ pos' = pos + 1
  /\ UNCHANGED <<listVars, ifRun, netVars, tpc, loopVars, sig, workerVars, alive>>

\* A server that has sent nothing for the last time is closed and erased.
CollectNothing ==
  /\ Up /\ tpc = "collect" /\ pos <= Len(servs) /\ servs[pos].srv # Local
  /\ LET s == servs[pos].srv IN
       /\ inbox[s] = None
       /\ IF servs[pos].faild + 1 >= MaxFaild
            THEN /\ conn' = [conn EXCEPT ![s] = "closed"]
                 /\ servs' = Without(servs, pos)
                 /\ UNCHANGED pos
            ELSE /\ servs' = [servs EXCEPT ![pos].faild = @ + 1]
                 /\ pos' = pos + 1
                 /\ UNCHANGED conn
  /\ UNCHANGED <<servsMut, ifRun, asked, inbox, tpc, loopVars, sig, workerVars, alive>>

EndCollect ==
  /\ Up /\ tpc = "collect" /\ pos > Len(servs)
  /\ tpc' = "sort"
  /\ UNCHANGED <<listVars, ifRun, netVars, pos, loopVars, sig, workerVars, alive>>

\* The comparison is <=: servers of equal load come out in any order.
Sort ==
  /\ Up /\ tpc = "sort"
  /\ \E p \in [DOMAIN servs -> DOMAIN servs] :
       /\ \A i, j \in DOMAIN servs : p[i] = p[j] => i = j
       /\ servs' = [i \in DOMAIN servs |-> servs[p[i]]]
  /\ Ascending(servs')
  /\ tpc' = "wait"
  /\ UNCHANGED <<servsMut, ifRun, netVars, pos, loopVars, sig, workerVars, alive>>

\* Five seconds on threadWait, or less when stop() unlocks it.
Wait ==
  /\ Up /\ tpc = "wait"
  /\ tpc' = "check"
  /\ UNCHANGED <<listVars, ifRun, netVars, pos, loopVars, sig, workerVars, alive>>
-----------------------------------------------------------------------------
(* The command threads: CMD_GET_IP.                                        *)

\* ifRunning() is asked first.
GetIp(w) ==
  /\ Up /\ wpc[w] = "idle" /\ ifRun
  /\ wpc' = [wpc EXCEPT ![w] = "front"]
  /\ UNCHANGED <<listVars, ifRun, netVars, tpc, pos, loopVars, sig, fit, alive>>

\* Mutant of ServerFit: the back of the list.
ServerFitBack(w) ==
  /\ Up /\ wpc[w] = "front"
  /\ \E s \in Servers \cup {None} :
       /\ servs # <<>> /\ tpc \notin {"collect", "sort"} => s = servs[Len(servs)].srv
       /\ fit' = [fit EXCEPT ![w] = s]
  /\ wpc' = [wpc EXCEPT ![w] = "idle"]
  /\ UNCHANGED <<listVars, ifRun, netVars, tpc, pos, loopVars, sig, alive>>

\* The front of the list, without servsMut: while the tick thread is erasing or
\* sorting, or the list is empty, that is anything.
ServerFit(w) ==
  /\ Up /\ wpc[w] = "front"
  /\ IF servs = <<>> \/ tpc \in {"collect", "sort"}
       THEN \E s \in Servers \cup {None} : fit' = [fit EXCEPT ![w] = s]
       ELSE fit' = [fit EXCEPT ![w] = Head(servs).srv]
  /\ wpc' = [wpc EXCEPT ![w] = "idle"]
  /\ UNCHANGED <<listVars, ifRun, netVars, tpc, pos, loopVars, sig, alive>>

RaceCrash ==
  /\ Up /\ Race
  /\ alive' = FALSE
  /\ UNCHANGED <<listVars, ifRun, netVars, tpc, pos, loopVars, sig, workerVars>>
-----------------------------------------------------------------------------
(* SIGINT: serv_exit runs stop() and exit() in the loop thread.            *)

\* Mutant of Interrupt: the flag is left as it is.
InterruptOnly ==
  /\ LoopUp /\ ifRun
  /\ sig' = "join"
  /\ UNCHANGED <<listVars, ifRun, netVars, tpc, pos, loopVars, workerVars, alive>>

Interrupt ==
  /\ LoopUp /\ ifRun
  /\ ifRun' = FALSE
  /\ sig' = "join"
  /\ UNCHANGED <<listVars, netVars, tpc, pos, loopVars, workerVars, alive>>

Join ==
  /\ Up /\ sig = "join" /\ tpc = "exit"
  /\ sig' = "close"
  /\ UNCHANGED <<listVars, ifRun, netVars, tpc, pos, loopVars, workerVars, alive>>

\* Every server is closed; the mutex may be held by the code interrupted.
CloseAll ==
  /\ Up /\ sig = "close" /\ ~servsMut
  /\ conn' = [s \in Slaves |-> IF \E i \in DOMAIN servs : servs[i].srv = s
                                 THEN "closed" ELSE conn[s]]
  /\ servs' = <<>>
  /\ sig' = "exit"
  /\ UNCHANGED <<servsMut, ifRun, asked, inbox, tpc, pos, loopVars, workerVars, alive>>
-----------------------------------------------------------------------------
TickStep ==
  \/ TickStart \/ TickCheck \/ SendQuery \/ EndSend \/ Sleep
  \/ CollectLocal \/ CollectAnswer \/ CollectNothing \/ EndCollect \/ Sort \/ Wait
LoopStep == (\E s \in Slaves : Accept(s)) \/ LockServs \/ PushServ
SignalStep == Join \/ CloseAll

Next ==
  \/ \E s \in Slaves : Connect(s) \/ Answer(s) \/ Leave(s)
  \/ TickStep \/ LoopStep \/ SignalStep
  \/ \E w \in Workers : GetIp(w) \/ ServerFit(w)
  \/ RaceCrash \/ Interrupt

Spec == Init /\ [][Next]_vars

\* The tick thread and the loop thread, in the handler or not, are scheduled, and
\* prompt slaves answer.  No other thread has to be.
FairSpec ==
  /\ Spec
  /\ WF_vars(TickStep) /\ WF_vars(LoopStep) /\ WF_vars(SignalStep)
  /\ \A s \in Prompt : WF_vars(Answer(s))
-----------------------------------------------------------------------------
(* Properties.                                                             *)

Entries == [srv : Servers, load : Loads \cup {Unknown}, faild : Nat]
TickPCs == {"start", "check", "send", "sleep", "collect", "sort", "wait", "exit"}

\* Types; who holds servsMut; a slave is being added between its accept() and
\* its push.
TypeOK ==
  /\ servs \in Seq(Entries) /\ servsMut \in BOOLEAN /\ ifRun \in BOOLEAN
  /\ conn \in [Slaves -> {"off", "queued", "open", "left", "reset", "closed"}]
  /\ asked \in [Slaves -> BOOLEAN]
  /\ inbox \in [Slaves -> Loads \cup {None}]
  /\ tpc \in TickPCs /\ pos \in Nat \ {0}
  /\ lpc \in {"idle", "lock", "push"} /\ adding \in Slaves \cup {None}
  /\ sig \in {"none", "join", "close", "exit"}
  /\ wpc \in [Workers -> {"idle", "front"}]
  /\ fit \in [Workers -> Servers \cup {None}]
  /\ alive \in BOOLEAN
  /\ servsMut <=> (lpc = "push")
  /\ (adding = None) <=> (lpc = "idle")
  /\ ifRun <=> (sig = "none")

\* The list and the sockets agree, although the list is changed by two threads
\* and the sockets outlive what the loop knows of them: a listed slave's socket
\* is open on this side, so close() is called once for it, no server is listed
\* twice, and the slave being added is not listed yet (shceduler.cpp:46, 169-170).
ListedOpen ==
  /\ \A i, j \in DOMAIN servs : servs[i].srv = servs[j].srv => i = j
  /\ \A i \in DOMAIN servs :
       servs[i].srv # Local => conn[servs[i].srv] \in {"open", "left", "reset"}
  /\ \A i \in DOMAIN servs : servs[i].srv # adding

\* Outside of a collection the list is sorted, so that its front is the server
\* of least known load, also when slaves have been pushed behind the tick
\* thread's back since it sorted: they bear the greatest load (shceduler.cpp:44, 182).
Settled == tpc \notin {"collect", "sort"}
Ordered == Settled => Ascending(servs)

\* A client is told of a server that no listed server has less load than, unless
\* its request meets the collection or the sort.
FitLeast ==
  [][\A w \in Workers : wpc[w] = "front" /\ wpc'[w] = "idle" /\ Settled /\ servs # <<>>
       => \E i \in DOMAIN servs : /\ servs[i].srv = fit'[w]
                                  /\ \A j \in DOMAIN servs : servs[i].load <= servs[j].load]_vars

\* A slave that answers within the second is not evicted: it can have missed
\* one collection, that of the tick whose queries were sent before it was
\* accepted, and none after that (shceduler.cpp:130-181).
PromptKept ==
  /\ \A s \in Prompt : conn[s] = "closed" => sig = "exit"
  /\ \A i \in DOMAIN servs : servs[i].srv \in Prompt => servs[i].faild <= 1

\* A slave that stays in the list answers again and again: one that falls silent,
\* or has left, is evicted, unless the process ends (shceduler.cpp:165-172).
SilentEvicted ==
  \A s \in Slaves :
    []<>(inbox[s] # None \/ (\A i \in DOMAIN servs : servs[i].srv # s) \/ ~alive \/ ~ifRun)

\* stop() returns, although it joins a thread and takes a mutex in a signal
\* handler, unless the signal came while the loop thread itself held the mutex
\* (shceduler.cpp:98-113).
StopReturns == (sig = "join") ~> (sig = "exit" \/ ~alive \/ servsMut)
=============================================================================
