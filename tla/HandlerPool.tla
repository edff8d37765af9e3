----------------------------- MODULE HandlerPool -----------------------------
(***************************************************************************)
(* The thread pool of an asynchronous EventHandler                         *)
(* (server/src/eventHandler.cpp).  The loop thread hands an event over in  *)
(* handlerEvent; Parallels threads run eventHandlerThreadTask; they share  *)
(* the queue `fired', the spin lock `firedLock' (com_inc/spinLock.h), the  *)
(* condition variable `cv' and the atomic `parallels'.  The destructor is  *)
(* the loop thread's last call.                                            *)
(*                                                                         *)
(* cv is a condition_variable_any: it gives the lock back and starts to    *)
(* wait in one step as far as a notification is concerned, it may wake     *)
(* spuriously, and a thread that wakes takes the lock again before it      *)
(* tests its predicate.                                                    *)
(***************************************************************************)
EXTENDS Integers, Sequences, FiniteSets

CONSTANTS Parallels,   \* the constructor's argument, here the asynchronous case
          Tasks,       \* the events the loop may hand over, each once
          None,        \* no event; also: the lock is free
          Loop,        \* the loop thread
          MayDestroy   \* the program may destroy the handler

ASSUME ParallelsAssumption == Parallels \in Nat \ {0}
ASSUME MayDestroyAssumption == MayDestroy \in BOOLEAN

Workers == 1 .. Parallels

ASSUME NoneAssumption == None \notin Tasks \cup Workers /\ Loop \notin Workers \cup {None}

VARIABLES parallels,   \* the atomic the threads' loop condition reads
          firedLock,   \* the thread that holds the spin lock, or None
          fired,       \* the events waiting for a thread
          wpc,         \* wpc[w]: where thread w is in eventHandlerThreadTask
          event,       \* event[w]: the event thread w took out of fired
          lpc,         \* where the loop thread is in handlerEvent or ~EventHandler
          temp,        \* the event handlerEvent is handing over
          seen,        \* the events handlerEvent was called with
          done         \* the events whose callback has returned

loopVars == <<lpc, temp, seen>>
vars == <<parallels, firedLock, fired, wpc, event, lpc, temp, seen, done>>

Waiting == {w \in Workers : wpc[w] = "wait"}

Init ==
  /\ parallels = Parallels
  /\ firedLock = None
  /\ fired = <<>>
  /\ wpc = [w \in Workers |-> "check"]
  /\ event = [w \in Workers |-> None]
  /\ lpc = "idle"
  /\ temp = None
  /\ seen = {}
  /\ done = {}
-----------------------------------------------------------------------------
(* The threads: eventHandlerThreadTask.                                    *)

\* while (parallels > 0)
Check(w) ==
  /\ wpc[w] = "check"
  /\ wpc' = [wpc EXCEPT ![w] = IF parallels > 0 THEN "lock" ELSE "exit"]
  /\ UNCHANGED <<parallels, firedLock, fired, event, loopVars, done>>

\* Mutant of Lock: the flag is stored without the compare-and-exchange.
LockBlindly(w) ==
  /\ wpc[w] = "lock"
  /\ firedLock' = w
  /\ wpc' = [wpc EXCEPT ![w] = "pred"]
  /\ UNCHANGED <<parallels, fired, event, loopVars, done>>

\* The spin lock is taken on entry, and again after each wake-up.
Lock(w) ==
  /\ wpc[w] = "lock" /\ firedLock = None
  /\ firedLock' = w
  /\ wpc' = [wpc EXCEPT ![w] = "pred"]
  /\ UNCHANGED <<parallels, fired, event, loopVars, done>>

\* The predicate is false: the lock is given back and the thread waits.
Wait(w) ==
  /\ wpc[w] = "pred" /\ fired = <<>>
  /\ firedLock' = None
  /\ wpc' = [wpc EXCEPT ![w] = "wait"]
  /\ UNCHANGED <<parallels, fired, event, loopVars, done>>

\* Mutant of Pop: the front event is read but not popped.
PopWithoutRemoving(w) ==
  /\ wpc[w] = "pred" /\ fired # <<>>
  /\ event' = [event EXCEPT ![w] = Head(fired)]
  /\ firedLock' = None
  /\ wpc' = [wpc EXCEPT ![w] = "exec"]
  /\ UNCHANGED <<parallels, fired, loopVars, done>>

\* The predicate holds: the front event is moved out and the lock given back.
Pop(w) ==
  /\ wpc[w] = "pred" /\ fired # <<>>
  /\ event' = [event EXCEPT ![w] = Head(fired)]
  /\ fired' = Tail(fired)
  /\ firedLock' = None
  /\ wpc' = [wpc EXCEPT ![w] = "exec"]
  /\ UNCHANGED <<parallels, loopVars, done>>

\* execCallback returns (what the callbacks do is EventLoop's subject).
Exec(w) ==
  /\ wpc[w] = "exec"
  /\ done' = done \cup {event[w]}
  /\ event' = [event EXCEPT ![w] = None]
  /\ wpc' = [wpc EXCEPT ![w] = "check"]
  /\ UNCHANGED <<parallels, firedLock, fired, loopVars>>

SpuriousWakeup(w) ==
  /\ wpc[w] = "wait"
  /\ wpc' = [wpc EXCEPT ![w] = "lock"]
  /\ UNCHANGED <<parallels, firedLock, fired, event, loopVars, done>>
-----------------------------------------------------------------------------
(* The loop thread: handlerEvent, then the destructor.                     *)

HandlerEvent(t) ==
  /\ lpc = "idle" /\ t \notin seen
  /\ temp' = t
  /\ seen' = seen \cup {t}
  /\ lpc' = "lock"
  /\ UNCHANGED <<parallels, firedLock, fired, wpc, event, done>>

LockFired ==
  /\ lpc = "lock" /\ firedLock = None
  /\ firedLock' = Loop
  /\ lpc' = "push"
  /\ UNCHANGED <<parallels, fired, wpc, event, temp, seen, done>>

\* The lock is given back before the notification.
Push ==
  /\ lpc = "push"
  /\ fired' = Append(fired, temp)
  /\ temp' = None
  /\ firedLock' = None
  /\ lpc' = "notify"
  /\ UNCHANGED <<parallels, wpc, event, seen, done>>

\* Mutant of NotifyOne: only the event that finds the queue empty is notified.
NotifyWhenWasEmpty ==
  /\ lpc = "notify"
  /\ IF Waiting = {} \/ Len(fired) > 1
       THEN UNCHANGED wpc
       ELSE \E w \in Waiting : wpc' = [wpc EXCEPT ![w] = "lock"]
  /\ lpc' = "idle"
  /\ UNCHANGED <<parallels, firedLock, fired, event, temp, seen, done>>

\* Mutant of NotifyOne: the notification is left out.
NotifyNobody ==
  /\ lpc = "notify"
  /\ lpc' = "idle"
  /\ UNCHANGED <<parallels, firedLock, fired, wpc, event, temp, seen, done>>

\* A notification nobody waits for is lost.
NotifyOne ==
  /\ lpc = "notify"
  /\ IF Waiting = {}
       THEN UNCHANGED wpc
       ELSE \E w \in Waiting : wpc' = [wpc EXCEPT ![w] = "lock"]
  /\ lpc' = "idle"
  /\ UNCHANGED <<parallels, firedLock, fired, event, temp, seen, done>>

Destroy ==
  /\ MayDestroy /\ lpc = "idle"
  /\ parallels' = -1
  /\ lpc' = "notifyAll"
  /\ UNCHANGED <<firedLock, fired, wpc, event, temp, seen, done>>

NotifyAll ==
  /\ lpc = "notifyAll"
  /\ wpc' = [w \in Workers |-> IF wpc[w] = "wait" THEN "lock" ELSE wpc[w]]
  /\ lpc' = "join"
  /\ UNCHANGED <<parallels, firedLock, fired, event, temp, seen, done>>

Join ==
  /\ lpc = "join"
  /\ \A w \in Workers : wpc[w] = "exit"
  /\ lpc' = "gone"
  /\ UNCHANGED <<parallels, firedLock, fired, wpc, event, temp, seen, done>>
-----------------------------------------------------------------------------
WorkerStep(w) == Check(w) \/ Lock(w) \/ Wait(w) \/ Pop(w) \/ Exec(w)

LoopStep == LockFired \/ Push \/ NotifyOne \/ NotifyAll \/ Join

Next ==
  \/ \E w \in Workers : WorkerStep(w) \/ SpuriousWakeup(w)
  \/ \E t \in Tasks : HandlerEvent(t)
  \/ LoopStep
  \/ Destroy

Spec == Init /\ [][Next]_vars

\* Every thread is scheduled and every callback returns.  The spin lock hands
\* itself to whoever tries next, so only weak fairness of each thread is asked.
FairSpec ==
  /\ Spec
  /\ \A w \in Workers : WF_vars(WorkerStep(w))
  /\ WF_vars(LoopStep)
-----------------------------------------------------------------------------
(* Properties.                                                             *)

WorkerPCs == {"check", "lock", "pred", "wait", "exec", "exit"}
LoopPCs == {"idle", "lock", "push", "notify", "notifyAll", "join", "gone"}

\* Types, and who holds what: a thread is between lock and unlock of firedLock
\* exactly when it is recorded as its holder (so no two of them are), and a
\* thread holds an event exactly while it executes one.
TypeOK ==
  /\ parallels \in {Parallels, -1}
  /\ firedLock \in Workers \cup {Loop, None}
  /\ fired \in Seq(Tasks)
  /\ wpc \in [Workers -> WorkerPCs]
  /\ event \in [Workers -> Tasks \cup {None}]
  /\ lpc \in LoopPCs
  /\ temp \in Tasks \cup {None}
  /\ seen \subseteq Tasks
  /\ done \subseteq Tasks
  /\ \A w \in Workers : (firedLock = w) <=> (wpc[w] = "pred")
  /\ (firedLock = Loop) <=> (lpc = "push")
  /\ \A w \in Workers : (event[w] # None) <=> (wpc[w] = "exec")
  /\ (temp # None) <=> (lpc \in {"lock", "push"})

\* Threads that are awake and on their way to the front of the queue.
Contenders == {w \in Workers : wpc[w] \in {"lock", "pred"}}

\* No thread sleeps while there is work for which nobody has been woken: as
\* long as some thread waits on cv, every queued event has an awake thread of
\* its own, save the one event whose notify_one is still to come.  Notifying
\* after the unlock, and only one thread per event, is enough
\* (eventHandler.cpp:97 and 164-167).
WorkConserving ==
  Waiting # {} =>
    Len(fired) <= Cardinality(Contenders) + (IF lpc = "notify" THEN 1 ELSE 0)

\* The pool implements the abstract task queue: each event handed over is run
\* once, and events are started in the order of handlerEvent's calls.
Queue == INSTANCE TaskQueue WITH queue <- fired, running <- event
ImplementsTaskQueue == Queue!Spec

\* Every event that entered `fired' is eventually run by some thread, unless the
\* handler is destroyed first (eventHandler.cpp:91-104).
QueuedIsRun ==
  \A t \in Tasks : Queue!InQueue(t) ~> (t \in done \/ parallels = -1)

\* "parallels == -1" is the destruction of the handler (eventHandler.h:35): the
\* destructor sets it and notifies all threads so that they leave and can be
\* joined.
DestructorReturns == (lpc = "join") ~> (lpc = "gone")
=============================================================================
