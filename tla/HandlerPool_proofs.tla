------------------------- MODULE HandlerPool_proofs -------------------------
(***************************************************************************)
(* Proofs about HandlerPool, for any number of threads and any set of      *)
(* events: the type invariant (with the exclusion the spin lock gives),    *)
(* that no thread sleeps while there is work for it, and that the pool     *)
(* implements TaskQueue.                                                   *)
(***************************************************************************)
EXTENDS HandlerPool, FiniteSetTheorems, TLAPS

\* The types, the lock and the holders of events are right in every state.
\* Each conjunct of TypeOK about the lock is needed for the others: a thread
\* that gives the lock back is the one that holds it.
THEOREM TypeCorrect == Spec => []TypeOK
<1> USE ParallelsAssumption, NoneAssumption, MayDestroyAssumption DEF Workers
<1>1. Init => TypeOK
  BY DEF Init, TypeOK, WorkerPCs, LoopPCs
<1>2. TypeOK /\ [Next]_vars => TypeOK'
  <2> SUFFICES ASSUME TypeOK, [Next]_vars PROVE TypeOK'
    OBVIOUS
  <2> USE DEF TypeOK, WorkerPCs, LoopPCs, loopVars
  <2>1. ASSUME NEW w \in Workers, Check(w) PROVE TypeOK'
    BY <2>1 DEF Check
  <2>2. ASSUME NEW w \in Workers, Lock(w) PROVE TypeOK'
    BY <2>2 DEF Lock
  <2>3. ASSUME NEW w \in Workers, Wait(w) PROVE TypeOK'
    BY <2>3 DEF Wait
  <2>4. ASSUME NEW w \in Workers, Pop(w) PROVE TypeOK'
    BY <2>4 DEF Pop
  <2>5. ASSUME NEW w \in Workers, Exec(w) PROVE TypeOK'
    BY <2>5 DEF Exec
  <2>6. ASSUME NEW w \in Workers, SpuriousWakeup(w) PROVE TypeOK'
    BY <2>6 DEF SpuriousWakeup
  <2>7. ASSUME NEW t \in Tasks, HandlerEvent(t) PROVE TypeOK'
    BY <2>7 DEF HandlerEvent
  <2>8. CASE LockFired
    BY <2>8 DEF LockFired
  <2>9. CASE Push
    BY <2>9 DEF Push
  <2>10. CASE NotifyOne
    BY <2>10 DEF NotifyOne, Waiting
  <2>11. CASE NotifyAll
    BY <2>11 DEF NotifyAll
  <2>12. CASE Join
    BY <2>12 DEF Join
  <2>13. CASE Destroy
    BY <2>13 DEF Destroy
  <2>14. CASE UNCHANGED vars
    BY <2>14 DEF vars
  <2> QED
    BY <2>1, <2>2, <2>3, <2>4, <2>5, <2>6, <2>7, <2>8, <2>9, <2>10, <2>11, <2>12, <2>13, <2>14
    DEF Next, WorkerStep, LoopStep
<1> QED
  BY <1>1, <1>2, PTL DEF Spec

\* There are finitely many threads, so the contenders can be counted, and the
\* count follows what a step does to the set.
LEMMA ContendersCounted ==
  /\ IsFiniteSet(Contenders) /\ Cardinality(Contenders) \in Nat
  /\ \A w \in Workers \ Contenders :
       Cardinality(Contenders \cup {w}) = Cardinality(Contenders) + 1
  /\ \A w \in Contenders :
       Cardinality(Contenders \ {w}) = Cardinality(Contenders) - 1
<1>1. IsFiniteSet(Workers)
  BY FS_Interval, ParallelsAssumption DEF Workers
<1>2. IsFiniteSet(Contenders)
  BY <1>1, FS_Subset DEF Contenders
<1> QED
  BY <1>2, FS_CardinalityType, FS_AddElement, FS_RemoveElement

\* No thread sleeps while there is work for which nobody has been woken
\* (eventHandler.cpp:97, 164-167).  The property is inductive with TypeOK: a
\* thread goes to sleep only under the lock and with the queue empty, each push
\* is followed by one notification, and a woken thread stays a contender until
\* it takes an event or finds none.
THEOREM WorkIsConserved == Spec => []WorkConserving
<1> USE ParallelsAssumption, NoneAssumption
<1>1. Init => WorkConserving
  BY DEF Init, WorkConserving, Waiting, Workers
<1>2. TypeOK /\ TypeOK' /\ WorkConserving /\ [Next]_vars => WorkConserving'
  <2> SUFFICES ASSUME TypeOK, TypeOK', WorkConserving, [Next]_vars PROVE WorkConserving'
    OBVIOUS
  <2> USE DEF WorkConserving, loopVars
  <2>0. /\ Len(fired) \in Nat /\ Len(fired') \in Nat
        /\ Cardinality(Contenders) \in Nat
    BY ContendersCounted DEF TypeOK
  <2>1. ASSUME NEW w \in Workers, Check(w) PROVE WorkConserving'
    <3>1. CASE parallels > 0
      <4>1. /\ Contenders' = Contenders \cup {w} /\ w \in Workers \ Contenders
            /\ Waiting' = Waiting /\ fired' = fired /\ lpc' = lpc
        BY <2>1, <3>1 DEF Check, Contenders, Waiting, TypeOK
      <4> QED BY <4>1, <2>0, ContendersCounted
    <3>2. CASE ~(parallels > 0)
      <4>1. /\ Contenders' = Contenders
            /\ Waiting' = Waiting /\ fired' = fired /\ lpc' = lpc
        BY <2>1, <3>2 DEF Check, Contenders, Waiting, TypeOK
      <4> QED BY <4>1
    <3> QED BY <3>1, <3>2
  <2>2. ASSUME NEW w \in Workers, Lock(w) PROVE WorkConserving'
    <3>1. /\ Contenders' = Contenders /\ Waiting' = Waiting
          /\ fired' = fired /\ lpc' = lpc
      BY <2>2 DEF Lock, Contenders, Waiting, TypeOK
    <3> QED BY <3>1
  <2>3. ASSUME NEW w \in Workers, Wait(w) PROVE WorkConserving'
    <3>1. fired' = <<>> /\ Cardinality(Contenders') \in Nat
      <4>1. Contenders' = Contenders \ {w} /\ w \in Contenders
        BY <2>3 DEF Wait, Contenders, TypeOK
      <4> QED BY <4>1, <2>3, FS_RemoveElement, FS_CardinalityType, ContendersCounted DEF Wait
    <3> QED BY <3>1
  <2>4. ASSUME NEW w \in Workers, Pop(w) PROVE WorkConserving'
    <3>1. /\ Contenders' = Contenders \ {w} /\ w \in Contenders
          /\ Waiting' = Waiting /\ lpc' = lpc
      BY <2>4 DEF Pop, Contenders, Waiting, TypeOK
    <3>2. Len(fired') = Len(fired) - 1
      BY <2>4 DEF Pop, TypeOK
    <3> QED BY <3>1, <3>2, <2>0, ContendersCounted
  <2>5. ASSUME NEW w \in Workers, Exec(w) PROVE WorkConserving'
    <3>1. /\ Contenders' = Contenders /\ Waiting' = Waiting
          /\ fired' = fired /\ lpc' = lpc
      BY <2>5 DEF Exec, Contenders, Waiting, TypeOK
    <3> QED BY <3>1
  <2>6. ASSUME NEW w \in Waiting, wpc' = [wpc EXCEPT ![w] = "lock"],
               fired' = fired, lpc' = lpc \/ lpc = "notify"
        PROVE  WorkConserving'
    <3>1. /\ Contenders' = Contenders \cup {w} /\ w \in Workers \ Contenders
          /\ Waiting # {}
      BY <2>6 DEF Contenders, Waiting, TypeOK
    <3> QED BY <3>1, <2>6, <2>0, ContendersCounted
  <2>7. ASSUME NEW w \in Workers, SpuriousWakeup(w) PROVE WorkConserving'
    BY <2>6, <2>7 DEF SpuriousWakeup, Waiting
  <2>8. ASSUME UNCHANGED <<fired, wpc>>, lpc' = lpc \/ lpc # "notify"
        PROVE  WorkConserving'
    <3>1. Contenders' = Contenders /\ Waiting' = Waiting
      BY <2>8 DEF Contenders, Waiting
    <3> QED BY <3>1, <2>8, <2>0
  <2>9. CASE Push
    <3>1. /\ Contenders' = Contenders /\ Waiting' = Waiting
          /\ lpc = "push" /\ lpc' = "notify"
      BY <2>9 DEF Push, Contenders, Waiting
    <3>2. Len(fired') = Len(fired) + 1
      BY <2>9 DEF Push, TypeOK
    <3> QED BY <3>1, <3>2, <2>0
  <2>10. CASE NotifyOne
    <3>1. CASE Waiting = {}
      BY <3>1, <2>10 DEF NotifyOne, Waiting
    <3>2. CASE Waiting # {}
      BY <3>2, <2>6, <2>10 DEF NotifyOne
    <3> QED BY <3>1, <3>2
  <2>11. CASE NotifyAll
    <3>1. Waiting' = {}
      BY <2>11 DEF NotifyAll, Waiting, TypeOK
    <3> QED BY <3>1
  <2>12. ASSUME NEW t \in Tasks, HandlerEvent(t) PROVE WorkConserving'
    BY <2>8, <2>12 DEF HandlerEvent
  <2>13. CASE LockFired \/ Join \/ Destroy
    BY <2>8, <2>13 DEF LockFired, Join, Destroy
  <2>14. CASE UNCHANGED vars
    BY <2>8, <2>14 DEF vars
  <2> QED
    BY <2>1, <2>2, <2>3, <2>4, <2>5, <2>7, <2>9, <2>10, <2>11, <2>12, <2>13, <2>14
    DEF Next, WorkerStep, LoopStep
<1> QED
  BY <1>1, <1>2, TypeCorrect, PTL DEF Spec

\* Every event the pool knows of was handed over by handlerEvent, and the event
\* being handed over has not entered the queue yet.
Fresh ==
  /\ \A i \in DOMAIN fired : fired[i] \in seen
  /\ \A w \in Workers : event[w] \in seen \cup {None}
  /\ done \subseteq seen
  /\ temp \in seen \cup {None}
  /\ temp # None => /\ \A i \in DOMAIN fired : fired[i] # temp
                    /\ \A w \in Workers : event[w] # temp
                    /\ temp \notin done

LEMMA FreshInvariant == Spec => []Fresh
<1> USE ParallelsAssumption, NoneAssumption DEF Fresh
<1>1. Init => Fresh
  BY DEF Init
<1>2. TypeOK /\ Fresh /\ [Next]_vars => Fresh'
  <2> SUFFICES ASSUME TypeOK, Fresh, [Next]_vars PROVE Fresh'
    OBVIOUS
  <2> USE DEF TypeOK, loopVars
  <2>1. ASSUME NEW w \in Workers, Check(w) \/ Lock(w) \/ Wait(w) \/ SpuriousWakeup(w)
        PROVE Fresh'
    BY <2>1 DEF Check, Lock, Wait, SpuriousWakeup
  <2>2. ASSUME NEW w \in Workers, Pop(w) PROVE Fresh'
    <3>1. /\ Head(fired) = fired[1] /\ 1 \in DOMAIN fired
          /\ \A i \in DOMAIN Tail(fired) : i + 1 \in DOMAIN fired /\ Tail(fired)[i] = fired[i + 1]
      BY <2>2 DEF Pop
    <3>2. fired' = Tail(fired) /\ event' = [event EXCEPT ![w] = Head(fired)]
          /\ UNCHANGED <<seen, temp, done>>
      BY <2>2 DEF Pop
    <3> QED BY <3>1, <3>2
  <2>3. ASSUME NEW w \in Workers, Exec(w) PROVE Fresh'
    BY <2>3 DEF Exec
  <2>4. ASSUME NEW t \in Tasks, HandlerEvent(t) PROVE Fresh'
    BY <2>4 DEF HandlerEvent
  <2>5. CASE Push
    <3>1. /\ DOMAIN fired' = DOMAIN fired \cup {Len(fired) + 1}
          /\ \A i \in DOMAIN fired : fired'[i] = fired[i]
          /\ fired'[Len(fired) + 1] = temp
      BY <2>5 DEF Push
    <3> QED BY <3>1, <2>5 DEF Push
  <2>6. CASE LockFired \/ NotifyOne \/ NotifyAll \/ Join \/ Destroy
    BY <2>6 DEF LockFired, NotifyOne, NotifyAll, Join, Destroy
  <2>7. CASE UNCHANGED vars
    BY <2>7 DEF vars
  <2> QED
    BY <2>1, <2>2, <2>3, <2>4, <2>5, <2>6, <2>7 DEF Next, WorkerStep, LoopStep
<1> QED
  BY <1>1, <1>2, TypeCorrect, PTL DEF Spec

\* The pool implements the abstract queue (eventHandler.cpp:91-104, 154-170):
\* Push is Put, Pop is Start, Exec is Finish, and every other step, among them
\* those of the lock, the condition variable and the destructor, is a stutter.
THEOREM PoolImplementsTaskQueue == Spec => ImplementsTaskQueue
<1> USE ParallelsAssumption, NoneAssumption
<1>1. Init => Queue!Init
  BY DEF Init, Queue!Init
<1>2. TypeOK /\ Fresh /\ [Next]_vars => [Queue!Next]_Queue!vars
  <2> SUFFICES ASSUME TypeOK, Fresh, [Next]_vars PROVE [Queue!Next]_Queue!vars
    OBVIOUS
  <2> USE DEF loopVars
  <2>1. ASSUME NEW w \in Workers, Check(w) \/ Lock(w) \/ Wait(w) \/ SpuriousWakeup(w)
        PROVE UNCHANGED Queue!vars
    BY <2>1 DEF Check, Lock, Wait, SpuriousWakeup, Queue!vars
  <2>2. ASSUME NEW w \in Workers, Pop(w) PROVE Queue!Start(w)
    BY <2>2 DEF Pop, Queue!Start, TypeOK
  <2>3. ASSUME NEW w \in Workers, Exec(w) PROVE Queue!Finish(w)
    BY <2>3 DEF Exec, Queue!Finish, TypeOK
  <2>4. CASE Push
    <3>1. temp \in Tasks
      BY <2>4 DEF Push, TypeOK
    <3>2. Queue!Put(temp)
      BY <2>4, <3>1 DEF Push, Queue!Put, Queue!InQueue, Fresh, TypeOK
    <3> QED BY <3>1, <3>2 DEF Queue!Next
  <2>5. ASSUME NEW t \in Tasks, HandlerEvent(t) PROVE UNCHANGED Queue!vars
    BY <2>5 DEF HandlerEvent, Queue!vars
  <2>6. CASE LockFired \/ NotifyOne \/ NotifyAll \/ Join \/ Destroy
    BY <2>6 DEF LockFired, NotifyOne, NotifyAll, Join, Destroy, Queue!vars
  <2>7. CASE UNCHANGED vars
    BY <2>7 DEF vars, Queue!vars
  <2> QED
    BY <2>1, <2>2, <2>3, <2>4, <2>5, <2>6, <2>7 DEF Next, WorkerStep, LoopStep, Queue!Next
<1> QED
  BY <1>1, <1>2, TypeCorrect, FreshInvariant, PTL DEF Spec, Queue!Spec, ImplementsTaskQueue

=============================================================================
