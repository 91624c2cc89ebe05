---------------------------- MODULE JobLifecycle ----------------------------
(***************************************************************************)
(* The promise the orchestrator makes about a transcode job: the frozen    *)
(* four-state machine of services/orchestrator/internal/jobs/job.go.  A    *)
(* job that was never inserted is "absent"; a job enters as queued and     *)
(* then only moves along the edges of CanTransition.                       *)
(*                                                                         *)
(* The table in job.go is not called by the Postgres store, whose UPDATE   *)
(* statements carry their own WHERE guards, so Scheduler.tla is shown to   *)
(* implement this module instead of assuming it.                           *)
(***************************************************************************)
CONSTANT Jobs            \* job ids that may ever be inserted

VARIABLE state           \* state[j]: the state column of job j, or "absent"

States == {"queued", "running", "completed", "failed"}

CanTransition(from, to) ==
    \/ from = "queued"  /\ to \in {"running", "failed"}
    \/ from = "running" /\ to \in {"completed", "failed"}
    \/ from = "failed"  /\ to = "queued"

CanRetry(s) == s = "failed"

-----------------------------------------------------------------------------

Init == state = [j \in Jobs |-> "absent"]

Create(j) ==
    /\ state[j] = "absent"
    /\ state' = [state EXCEPT ![j] = "queued"]

Transition(j, to) ==
    /\ CanTransition(state[j], to)
    /\ state' = [state EXCEPT ![j] = to]

Next == \E j \in Jobs : Create(j) \/ \E to \in States : Transition(j, to)

Spec == Init /\ [][Next]_state

=============================================================================
