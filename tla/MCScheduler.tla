---------------------------- MODULE MCScheduler ----------------------------
(* Scheduler.tla on small instances. *)
EXTENDS Scheduler, TLC

\* maxActiveJobs of a workspace without a cap.
Unlimited == -1

Symmetry == Permutations(Jobs) \cup Permutations(Runners) \cup Permutations(Requests)

=============================================================================
