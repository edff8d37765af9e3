---------------------------- MODULE MCHandlerPool ----------------------------
(* HandlerPool for TLC: the tasks are model values, the threads the numbers  *)
(* 1 .. Parallels.  Threads and tasks are interchangeable, but no symmetry   *)
(* is declared, because liveness is checked on the same graph.               *)
EXTENDS HandlerPool

=============================================================================
