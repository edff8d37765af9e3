------------------------------ MODULE TaskQueue ------------------------------
(***************************************************************************)
(* What an asynchronous EventHandler promises the event loop that feeds it *)
(* (server/inc/eventHandler.h): every event handed over is run exactly     *)
(* once, by one of the handler's threads, and events are started in the    *)
(* order in which they were handed over.  Locks, the condition variable    *)
(* and the shutdown are absent: HandlerPool implements this module with    *)
(* them.                                                                   *)
(***************************************************************************)
EXTENDS Sequences, FiniteSets

CONSTANTS Tasks,     \* the events handed over
          Workers,   \* the handler's threads
          None       \* "no event"

VARIABLES queue,     \* handed over, not yet started
          running,   \* running[w]: the event thread w executes, or None
          done       \* the events whose callback has returned

vars == <<queue, running, done>>

InQueue(t) == \E i \in DOMAIN queue : queue[i] = t

Init ==
  /\ queue = <<>>
  /\ running = [w \in Workers |-> None]
  /\ done = {}

\* The loop hands over an event nobody has seen before.
Put(t) ==
  /\ ~InQueue(t) /\ t \notin done
  /\ \A w \in Workers : running[w] # t
  /\ queue' = Append(queue, t)
  /\ UNCHANGED <<running, done>>

Start(w) ==
  /\ queue # <<>> /\ running[w] = None
  /\ running' = [running EXCEPT ![w] = Head(queue)]
  /\ queue' = Tail(queue)
  /\ UNCHANGED done

Finish(w) ==
  /\ running[w] # None
  /\ done' = done \cup {running[w]}
  /\ running' = [running EXCEPT ![w] = None]
  /\ UNCHANGED queue

Next ==
  \/ \E t \in Tasks : Put(t)
  \/ \E w \in Workers : Start(w) \/ Finish(w)

Spec == Init /\ [][Next]_vars

=============================================================================
