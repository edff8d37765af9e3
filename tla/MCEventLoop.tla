----------------------------- MODULE MCEventLoop -----------------------------
(* EventLoop for TLC.  Connections, descriptors and workers are each           *)
(* interchangeable; the symmetry is used only where no liveness is checked.    *)
EXTENDS EventLoop, TLC

Symmetry == Permutations(Conns) \cup Permutations(Fds) \cup Permutations(Workers)

=============================================================================
