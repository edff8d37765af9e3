----------------------------- MODULE MCScheduler -----------------------------
(* Scheduler for TLC: one prompt slave and one that is not, or that never    *)
(* answers.                                                                  *)
EXTENDS Scheduler

=============================================================================
